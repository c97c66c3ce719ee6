--------------------------- MODULE HostResources ---------------------------
(***************************************************************************)
(* What a Linux client does to its host: openNativeTUN, the drift monitor  *)
(* and cleanup (client_tun_linux.go, client.go), over the route and DNS    *)
(* ledgers of routing/ownership.go and dns/ownership.go, the netlink calls *)
(* of routing/netlink.go and the two DNS back-ends of dns/dns_linux.go.    *)
(*                                                                         *)
(* The client is one sequential process here (pc): setup runs before the   *)
(* monitor starts and cleanup after it has stopped (ClientLifecycle).  An  *)
(* administrator, or another network manager, changes the same routing     *)
(* table and resolv.conf between any two of its steps.  Any system call    *)
(* may fail, MaxFaults times in all, and the process may be killed.        *)
(*                                                                         *)
(* The kernel and systemd-resolved are external.  A route is its           *)
(* destination, the hop it goes through ("tun": the VPN's interface) and   *)
(* its metric; the client names no metric, which the kernel takes as 0.    *)
(* Every read and every write of the table, of resolv.conf and of a link's *)
(* DNS is a step of its own; two loops over reads are one step: Repair's   *)
(* lookups of the owned routes, and inspect's of a link's DNS and domains. *)
(* What the monitor reports is left out.                                   *)
(***************************************************************************)
EXTENDS Naturals, FiniteSets

CONSTANTS MaxChanges,    \* bound: changes the administrator makes
          MaxFaults,     \* bound: system calls that fail
          MaxSessions    \* bound: tunnels brought up one after the other

ASSUME BoundsAssumption ==
    MaxChanges \in Nat /\ MaxFaults \in Nat /\ MaxSessions \in Nat \ {0}

Pushed == {"net", "default"}            \* destinations the server may push
Dests == Pushed \cup {"server"}         \* and the bypass route's
Hops == {"tun", "gw", "other"}
Route(d, h, m) == [dst |-> d, hop |-> h, metric |-> m]
RouteSet == [dst : Dests, hop : Hops, metric : {0, 1}]
Contents == {"orig", "vpn", "admin", "empty", "absent"}

VARIABLES
    routes,      \* the main routing table
    file,        \* what /etc/resolv.conf holds
    link,        \* what systemd-resolved has for the TUN: "none", "part" (of the
                 \* client's), "vpn", "admin"
    pc,          \* where the client is
    sessions,    \* tunnels started
    redirect,    \* redirect-gateway was pushed
    todo,        \* destinations a loop over routes still has to visit
    found,       \* Cleanup looked up: the route of this destination is ours
    ledger,      \* routeOwnership.owned
    hasLedger,   \* routeOwnership # nil
    bypass,      \* "none", "foreign" (the route existed), or the hop of the owned one
    backend,     \* dnsBackend: "none", "resolved", "resolvconf"
    expected,    \* what dnsOwnership takes for its own, "none" without one
    backup,      \* contents of the file dnsBackup names, "none" without one
    \* history
    changes,     \* against MaxChanges
    faults,      \* against MaxFaults
    sound,       \* promises no failure, crash or administrator has broken
    before,      \* what resolv.conf held when the client found it, or what
                 \* the administrator has written since
    made         \* routes in the table that the client put there

host == <<routes, file, link>>
holdings == <<redirect, ledger, hasLedger, bypass, backend, expected, backup>>
loop == <<todo, found>>
env == <<changes, faults, sound, before>>
clientVars == <<pc, sessions, holdings, loop>>
hostVars == <<host, clientVars, env, made>>

HostInit ==
    /\ \E m \in {0, 1}, extra \in SUBSET {Route("net", "other", 0), Route("server", "gw", 0)} :
          routes = {Route("default", "gw", m)} \cup extra
    /\ file = "orig" /\ link = "none"
    /\ pc = "idle" /\ sessions = 0 /\ redirect = FALSE
    /\ todo = {} /\ found = "none"
    /\ ledger = {} /\ hasLedger = FALSE /\ bypass = "none"
    /\ backend = "none" /\ expected = "none" /\ backup = "none"
    /\ changes = 0 /\ faults = 0
    /\ sound = [k \in {"bypass", "dns", "server"} |-> TRUE]
    /\ before = "orig" /\ made = {}

\* A call fails.  `kinds` names the promises of `sound` that the failure
\* lets the client off.
Fails(kinds) ==
    /\ faults < MaxFaults
    /\ faults' = faults + 1
    /\ sound' = [k \in DOMAIN sound |-> sound[k] /\ k \notin kinds]
    /\ UNCHANGED <<changes, before>>

-----------------------------------------------------------------------------
(* The kernel's side of the netlink calls.                                 *)

To(d) == {r \in routes : r.dst = d}

\* queryRouteIdentity: the first route to d of the dump, which lists lower
\* metrics first; the result is a set of at most one route.
lookup(d) == {r \in To(d) : \A o \in To(d) : r.metric <= o.metric}

\* RTM_NEWROUTE with NLM_F_CREATE|NLM_F_EXCL answers EEXIST for these.
Exists(d) == \E r \in To(d) : r.metric = 0

\* RTM_NEWROUTE: the client names no metric.
addRoute(d, h) == routes \cup {Route(d, h, 0)}

\* Fault: RTM_DELROUTE without gateway and interface takes any route to d.
delByDestination(d, h) == routes \ lookup(d)

\* RTM_DELROUTE names gateway and interface: other routes to d stay.
delRoute(d, h) ==
    LET match == {r \in To(d) : r.hop = h} IN
    routes \ {r \in match : \A o \in match : r.metric <= o.metric}

-----------------------------------------------------------------------------
(* openNativeTUN.                                                          *)

\* tun.Open and Configure; a failure closes the device again: no step.
openTUN ==
    /\ pc = "idle" /\ sessions < MaxSessions
    /\ sessions' = sessions + 1
    /\ redirect' \in BOOLEAN
    /\ pc' = "bypass"
    /\ UNCHANGED <<host, ledger, hasLedger, bypass, backend, expected, backup>>
    /\ UNCHANGED <<loop, env>>

\* net.InterfaceByName fails: neither bypass nor routes, and no ledger.
noInterface ==
    /\ pc = "bypass"
    /\ Fails({})
    /\ pc' = "routes"
    /\ UNCHANGED <<host, sessions, holdings, loop>>

\* LookupGateway: the hop of the best route to the server.
serverHop == IF To("server") # {} THEN lookup("server") ELSE lookup("default")

\* The routes ApplyRoutesOwned goes through; the default route is last.
toApply == IF redirect THEN Pushed ELSE {"net"}

\* A route to the server through h; one that exists is left and not owned.
AddBypassRouteOwned(h) ==
    IF Exists("server")
    THEN bypass' = "foreign" /\ UNCHANGED routes
    ELSE bypass' = h /\ routes' = addRoute("server", h)

\* Fault: the bypass route is left out.
addNoBypass ==
    /\ pc = "bypass"
    /\ pc' = "routes"
    /\ todo' = toApply
    /\ UNCHANGED <<host, sessions, holdings, found, env>>

\* With redirect-gateway, a route to the server through its present gateway
\* is added before the default route.  Without a gateway (a direct link, no
\* route, or an error) the setup goes on.
addBypass ==
    /\ pc = "bypass"
    /\ pc' = "routes"
    /\ todo' = toApply
    /\ \/ /\ redirect
          /\ \E r \in serverHop : AddBypassRouteOwned(r.hop)
          /\ UNCHANGED sound
       \/ /\ redirect
          /\ sound' = [sound EXCEPT !.server = FALSE]
          /\ UNCHANGED <<routes, bypass>>
       \/ ~redirect /\ UNCHANGED <<routes, bypass, sound>>
    /\ UNCHANGED <<file, link, sessions, redirect, ledger, hasLedger, backend>>
    /\ UNCHANGED <<expected, backup, found, changes, faults, before>>

\* One route of ApplyRoutesOwned: created and owned, or it exists and is
\* left alone.
applyRoute(d) ==
    /\ pc = "routes" /\ d \in todo
    /\ d = "default" => todo = {"default"}
    /\ IF Exists(d)
       THEN UNCHANGED <<routes, ledger>>
       ELSE /\ routes' = addRoute(d, "tun")
            /\ ledger' = ledger \cup {d}
    /\ todo' = todo \ {d}
    /\ hasLedger' = TRUE
    /\ UNCHANGED <<file, link, pc, sessions, redirect, bypass, backend, expected>>
    /\ UNCHANGED <<backup, found, env>>

\* Another error ends the loop; the ledger holds what was created so far.
applyRouteFails ==
    /\ pc = "routes" /\ todo # {}
    /\ Fails({})
    /\ todo' = {}
    /\ hasLedger' = TRUE
    /\ UNCHANGED <<host, pc, sessions, redirect, ledger, bypass, backend>>
    /\ UNCHANGED <<expected, backup, found>>

\* os.CreateTemp; without the file there will be no backup.
createBackupFile ==
    /\ pc = "routes" /\ todo = {}
    /\ pc' = "dns"
    /\ \/ backup' = "empty" /\ UNCHANGED env
       \/ backup' = "none" /\ Fails({"dns"})
    /\ UNCHANGED <<host, sessions, redirect, ledger, hasLedger, bypass, backend>>
    /\ UNCHANGED <<expected, loop>>

\* dns.Apply: without servers there is nothing to do; ApplyResolved begins
\* with SetLinkDNS, and resolv.conf is the way out when that fails ...
applyDNS ==
    /\ pc = "dns"
    /\ \/ pc' = "up" /\ UNCHANGED link
       \/ pc' = "domains" /\ link' = "part"
       \/ pc' = "backup" /\ UNCHANGED link
    /\ UNCHANGED <<routes, file, sessions, holdings, loop, env>>

\* What SetLinkDomains makes of the link, by what is there by then.
WithDomains == CASE link = "part" -> "vpn" [] link = "none" -> "part" [] OTHER -> "admin"

\* ... it ends with SetLinkDomains, and the state is owned; or that fails and
\* is followed by RevertLink, whose own error is ignored.
setLinkDomains ==
    /\ pc = "domains"
    /\ \/ /\ link' = WithDomains
          /\ pc' = "up" /\ backend' = "resolved" /\ expected' = "vpn"
       \/ /\ link' \in {"none", link}
          /\ pc' = "backup" /\ UNCHANGED <<backend, expected>>
    /\ UNCHANGED <<routes, file, sessions, redirect, ledger, hasLedger, bypass, backup, loop, env>>

\* The backup, where there is a file for it; a resolv.conf that cannot be read
\* counts as empty.
BackupResolvConf ==
    /\ pc = "backup"
    /\ pc' = "write"
    /\ before' = file
    /\ \/ /\ backup' = IF backup = "none" THEN "none" ELSE IF file = "absent" THEN "empty" ELSE file
          /\ UNCHANGED <<faults, sound>>
       \/ /\ backup' = "empty" /\ backup # "none"
          /\ faults < MaxFaults /\ faults' = faults + 1
          /\ sound' = [sound EXCEPT !.dns = FALSE]
    /\ UNCHANGED <<host, sessions, redirect, ledger, hasLedger, bypass, backend, expected, loop, changes>>

\* It cannot be written: dns.Apply gives up before it has changed anything.
backupFails ==
    /\ pc = "backup" /\ backup # "none"
    /\ pc' = "up"
    /\ Fails({})
    /\ UNCHANGED <<host, sessions, holdings, loop>>

\* The new resolv.conf; a failing write has truncated the file or not.
ApplyResolvConf ==
    /\ pc = "write"
    /\ backend' = "resolvconf"
    /\ \/ file' = "vpn" /\ pc' = "capture" /\ UNCHANGED env
       \/ file' \in {file, "empty"} /\ pc' = "up" /\ Fails({"dns"})
    /\ UNCHANGED <<routes, link, sessions, redirect, ledger, hasLedger, bypass, expected, backup, loop>>

\* OwnershipForBackend: what the file holds now is taken for the client's own.
OwnershipForBackend ==
    /\ pc = "capture"
    /\ pc' = "up"
    /\ \/ expected' = (IF file = "absent" THEN "none" ELSE file) /\ UNCHANGED env
       \/ UNCHANGED expected /\ Fails({"dns"})
    /\ UNCHANGED <<host, sessions, redirect, ledger, hasLedger, bypass, backend, backup, loop>>

-----------------------------------------------------------------------------
(* resourceMonitor.                                                        *)

Missing == {d \in ledger : To(d) = {}}

\* checkResourceDrift: Repair looks every owned route up; the missing ones
\* are then added one by one.
checkRoutes ==
    /\ pc = "up" /\ hasLedger
    /\ pc' = "repair"
    /\ todo' = Missing
    /\ UNCHANGED <<host, sessions, holdings, found, env>>

\* A lookup fails: Repair returns no drift and restores nothing.
checkRoutesFails ==
    /\ pc = "up" /\ hasLedger
    /\ pc' = "repair"
    /\ Fails({})
    /\ UNCHANGED <<host, sessions, holdings, loop>>

\* Fault: the test of the answer is the wrong way round.
restoreInverted(d) == IF Exists(d) THEN addRoute(d, "tun") ELSE routes

\* addRoute for a missing route; one that has come meanwhile is an error.
restore(d) == IF Exists(d) THEN routes ELSE addRoute(d, "tun")

repairRoute(d) ==
    /\ pc = "repair" /\ d \in todo
    /\ todo' = todo \ {d}
    /\ \/ routes' = restore(d) /\ UNCHANGED env
       \/ UNCHANGED routes /\ Fails({})
    /\ UNCHANGED <<file, link, pc, sessions, holdings, found>>

\* The inspect callback OwnershipForApplied gives the owner of a link.
inspect ==
    CASE link = "none" -> "missing" [] link = expected -> "same" [] OTHER -> "changed"

\* What dns.Ownership sees of the link, or of resolv.conf.
checkLocked ==
    IF backend = "resolved" THEN inspect
    ELSE CASE file = "absent" -> "missing" [] file = expected -> "same" [] OTHER -> "changed"

\* The DNS half begins with a check, whose failure is an end too: missing
\* state is to be written again, changed state is left.
checkDNS ==
    /\ \/ pc = "repair" /\ todo = {}
       \/ pc = "up" /\ ~hasLedger
    /\ \/ /\ pc' = IF expected # "none" /\ checkLocked = "missing" THEN "rewrite" ELSE "up"
          /\ UNCHANGED env
       \/ pc' = "up" /\ expected # "none" /\ Fails({})
    /\ UNCHANGED <<host, sessions, holdings, loop>>

\* The write: the file, or SetLinkDNS of ApplyResolved; a failing one may
\* leave half of what was to be written.
repairDNS ==
    /\ pc = "rewrite"
    /\ IF backend = "resolved"
       THEN /\ UNCHANGED file
            /\ \/ link' = "part" /\ pc' = "redomains" /\ UNCHANGED env
               \/ UNCHANGED link /\ pc' = "up" /\ Fails({})
       ELSE /\ UNCHANGED link /\ pc' = "up"
            /\ \/ file' = expected /\ UNCHANGED env
               \/ file' \in {file, "empty"} /\ Fails({"dns"})
    /\ UNCHANGED <<routes, sessions, holdings, loop>>

repairDomains ==
    /\ pc = "redomains"
    /\ pc' = "up"
    /\ \/ link' = WithDomains /\ UNCHANGED env
       \/ link' \in {"none", link} /\ Fails({})
    /\ UNCHANGED <<routes, file, sessions, holdings, loop>>

-----------------------------------------------------------------------------
(* cleanup.                                                                *)

\* The teardown of the client calls cleanup, with the monitor stopped.
startCleanup ==
    /\ pc = "up"
    /\ pc' = "clean dns"
    /\ UNCHANGED <<host, sessions, holdings, loop, env>>

\* Fault: whoever wrote the file last.
ownedWhoeverWrote == backup # "none"

\* Ownership.Cleanup of resolv.conf: there is a backup, and the file is still
\* the client's.
stillOwned == checkLocked = "same" /\ backup # "none"

\* Is there something to put back?  The owner of a link reverts it unless it
\* was changed; dns.Revert, where nothing is owned, does not look.
toRestore ==
    CASE backend = "resolved" -> checkLocked # "changed"
      [] backend = "resolvconf" /\ expected # "none" -> stillOwned
      [] backend = "resolvconf" /\ expected = "none" -> backup # "none"
      [] OTHER -> FALSE

\* What the DNS half leaves behind: the backup is removed in any case.
dnsDone ==
    /\ pc' = "clean routes"
    /\ expected' = "none" /\ backup' = "none" /\ backend' = "none"
    /\ todo' = ledger

\* dnsOwnership.Cleanup or dns.Revert: look ...
cleanupDNS ==
    /\ pc = "clean dns"
    /\ \/ toRestore /\ pc' = "restore" /\ UNCHANGED <<expected, backup, backend, todo, env>>
       \/ ~toRestore /\ dnsDone /\ UNCHANGED env
       \/ backend # "none" /\ dnsDone /\ Fails({"dns"})
    /\ UNCHANGED <<host, sessions, redirect, ledger, hasLedger, bypass, found>>

\* ... and put back the file, or revert the link.
RestoreResolvConf ==
    /\ pc = "restore"
    /\ dnsDone
    /\ IF backend = "resolved"
       THEN /\ UNCHANGED file
            /\ \/ link' = "none" /\ UNCHANGED env
               \/ UNCHANGED link /\ Fails({})
       ELSE /\ UNCHANGED link
            /\ \/ file' = backup /\ UNCHANGED env
               \/ file' \in {file, "empty"} /\ Fails({"dns"})
    /\ UNCHANGED <<routes, sessions, redirect, ledger, hasLedger, bypass, found>>

\* Ownership.Cleanup: look a route up ...
cleanupLookup(d) ==
    /\ pc = "clean routes" /\ d \in todo /\ found = "none"
    /\ todo' = todo \ {d}
    /\ \/ /\ found' = IF lookup(d) = {Route(d, "tun", 0)} THEN d ELSE "none"
          /\ UNCHANGED env
       \/ UNCHANGED found /\ Fails({})
    /\ UNCHANGED <<host, pc, sessions, holdings>>

\* ... and remove it if it is the one this client created.
cleanupRemove ==
    /\ pc = "clean routes" /\ found # "none"
    /\ found' = "none"
    /\ \/ routes' = delRoute(found, "tun") /\ UNCHANGED env
       \/ UNCHANGED routes /\ Fails({})
    /\ UNCHANGED <<file, link, pc, sessions, holdings, todo>>

\* DeleteRoutes: the pushed routes through the TUN, as far as they are there.
DeleteRoutes(table) == {r \in table : ~(r.dst \in toApply /\ r.hop = "tun")}

\* tunDev.Close: the kernel drops the interface, its routes and its link; then
\* DeleteRoutes, where there was no ledger.
closeTUN ==
    /\ pc = "clean routes" /\ todo = {} /\ found = "none"
    /\ pc' = "clean bypass"
    /\ LET left == {r \in routes : r.hop # "tun"} IN
       routes' = IF hasLedger THEN left ELSE DeleteRoutes(left)
    /\ link' = "none"
    /\ ledger' = {} /\ hasLedger' = FALSE
    /\ UNCHANGED <<file, sessions, redirect, bypass, backend, expected, backup, loop, env>>

\* The table without the bypass route, if that is owned.
DeleteBypassRoute == IF bypass \in Hops THEN delRoute("server", bypass) ELSE routes

\* Fault: the fields are reset before they are read.
deleteNoBypass ==
    /\ pc = "clean bypass"
    /\ pc' = "idle"
    /\ bypass' = "none"
    /\ UNCHANGED <<routes, file, link, sessions, redirect, ledger, hasLedger, backend>>
    /\ UNCHANGED <<expected, backup, loop, env>>

deleteBypass ==
    /\ pc = "clean bypass"
    /\ pc' = "idle"
    /\ bypass' = "none"
    /\ \/ routes' = DeleteBypassRoute /\ UNCHANGED env
       \/ bypass \in Hops /\ Fails({"bypass"}) /\ UNCHANGED routes
    /\ UNCHANGED <<file, link, sessions, redirect, ledger, hasLedger, backend>>
    /\ UNCHANGED <<expected, backup, loop>>

-----------------------------------------------------------------------------
(* The environment.                                                        *)

Change ==
    /\ changes < MaxChanges
    /\ changes' = changes + 1
    /\ UNCHANGED <<clientVars, faults>>

adminAddsRoute(d, m) ==
    /\ Change
    /\ \A r \in To(d) : r.metric # m
    /\ routes' = routes \cup {Route(d, "other", m)}
    /\ UNCHANGED <<file, link, sound, before>>

adminDeletesRoute(r) ==
    /\ Change
    /\ r \in routes
    /\ routes' = routes \ {r}
    /\ sound' = [sound EXCEPT !.server = @ /\ r.dst # "server"]
    /\ UNCHANGED <<file, link, before>>

\* The client has read resolv.conf and is about to write it, or to take what
\* it holds for what was written.
FileWindow ==
    \/ pc = "write"
    \/ backend = "resolvconf" /\ pc \in {"capture", "rewrite", "restore"}

\* resolv.conf is written anew, or deleted with what it held: the client, if
\* it manages the file, has the older contents in its backup.
adminChangesFile ==
    /\ Change
    /\ file' \in {"admin", "absent"}
    /\ before' = IF file' = "admin" THEN "admin"
                 ELSE IF backend = "resolvconf" /\ backup # "none" THEN backup
                 ELSE before
    /\ sound' = [sound EXCEPT !.dns = @ /\ ~FileWindow]
    /\ UNCHANGED <<routes, link>>

\* The DNS of the TUN's link is set by someone else, or lost.
adminChangesLink ==
    /\ Change
    /\ link # "none" /\ link' \in {"admin", "none"}
    /\ UNCHANGED <<routes, file, sound, before>>

Admin ==
    /\ \/ \E d \in Dests, m \in {0, 1} : adminAddsRoute(d, m)
       \/ \E r \in routes : adminDeletesRoute(r)
       \/ adminChangesFile
       \/ adminChangesLink
    /\ made' = made \cap routes'

\* The process is killed: the kernel closes the TUN, all else stays.
Crash ==
    /\ pc # "idle"
    /\ pc' = "idle"
    /\ routes' = {r \in routes : r.hop # "tun"}
    /\ link' = "none"
    /\ todo' = {} /\ found' = "none"
    /\ ledger' = {} /\ hasLedger' = FALSE /\ bypass' = "none"
    /\ backend' = "none" /\ expected' = "none" /\ backup' = "none"
    /\ sound' = [k \in DOMAIN sound |-> FALSE]
    /\ made' = made \cap routes'
    /\ UNCHANGED <<file, sessions, redirect, changes, faults, before>>

Setup ==
    \/ openTUN \/ noInterface \/ addBypass
    \/ \E d \in Pushed : applyRoute(d)
    \/ applyRouteFails \/ createBackupFile
    \/ applyDNS \/ setLinkDomains \/ BackupResolvConf \/ backupFails
    \/ ApplyResolvConf \/ OwnershipForBackend

Monitor ==
    \/ checkRoutes \/ checkRoutesFails
    \/ \E d \in Pushed : repairRoute(d)
    \/ checkDNS \/ repairDNS \/ repairDomains

HostCleanup ==
    \/ startCleanup \/ cleanupDNS \/ RestoreResolvConf
    \/ \E d \in Pushed : cleanupLookup(d)
    \/ cleanupRemove \/ closeTUN \/ deleteBypass

Client(step) ==
    step /\ made' = (made \cup (routes' \ routes)) \cap routes'

HostNext == Client(Setup) \/ Client(Monitor) \/ Client(HostCleanup) \/ Admin \/ Crash

\* The monitor's ticker goes on while the tunnel is up.
HostSpec == HostInit /\ [][HostNext]_hostVars /\ WF_hostVars(Client(Monitor))

-----------------------------------------------------------------------------

\* The client only removes routes it put there itself, whatever has happened
\* to the table between a lookup and the removal.  Its bypass route is the
\* exception: it is known by destination and gateway, so a later route with
\* both in common goes with it (Ownership.Cleanup, DeleteBypassRoute).
OnlyOwnRoutesRemoved ==
    [][changes' = changes =>
         \A r \in routes \ routes' :
            r \in made \/ (r.dst = "server" /\ r.hop = bypass)]_hostVars

\* After a teardown that no failure or crash disturbed, no route of the
\* client is left in the table, the bypass route included (cleanup).
NoRouteLeft == (pc = "idle" /\ sound.bypass) => made = {}

\* After it, resolv.conf is what the client found there, or what the
\* administrator has written since.  The exceptions are a file that was lost
\* meanwhile, one that did not exist and comes back empty, and a change that
\* comes between a read of the client and the write that follows (FileWindow):
\* that one is lost, which LaterChangesPreserved is about (dns.Ownership,
\* BackupResolvConf).
ResolvConfHandedBack ==
    (pc = "idle" /\ sound.dns) =>
        \/ file \in {before, "absent"}
        \/ before = "absent" /\ file = "empty"

\* "Later administrator changes are preserved": once the client has written
\* resolv.conf, neither its repair nor its cleanup overwrites what an
\* administrator has written there (Ownership.Repair, Ownership.Cleanup).
LaterChangesPreserved ==
    [][(pc \in {"rewrite", "restore"} /\ expected = "vpn" /\ file = "admin" /\ changes' = changes) =>
         file' = file]_hostVars

\* While the default route goes through the tunnel, the server has a route of
\* its own, so the VPN's packets do not loop into the tunnel: the bypass
\* route comes first at setup and goes last at cleanup (openNativeTUN).
NoRoutingLoop ==
    (Route("default", "tun", 0) \in routes /\ sound.server) => To("server") # {}

\* The monitor is at work.
TunnelUp == {"up", "repair", "rewrite", "redomains"}

\* Owned routes that are lost come back while the tunnel is up: once the
\* administrator leaves the table alone, each owned destination has a route,
\* the client's or one that has taken its place (Ownership.Repair).
LostRouteRestored ==
    (pc \in TunnelUp /\ \E d \in ledger : To(d) = {}) ~>
        (pc \in TunnelUp => \A d \in ledger : To(d) # {})
=============================================================================
