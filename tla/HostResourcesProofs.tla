------------------------- MODULE HostResourcesProofs -------------------------
(***************************************************************************)
(* What the client does to its host, for any number of tunnels, of changes *)
(* by an administrator and of failing calls.                               *)
(***************************************************************************)
EXTENDS HostResources, TLAPS

\* Where the client has no device, so that no route can go through it.
NoDevice == {"idle", "bypass", "clean bypass"}
PCs == {"idle", "bypass", "routes", "dns", "domains", "backup", "write", "capture", "up", "repair",
        "rewrite", "redomains", "clean dns", "restore", "clean routes", "clean bypass"}
\* Where resolv.conf is not the client's.
NoBackend == NoDevice \cup {"routes", "dns", "domains", "backup", "write", "clean routes"}

HostTypes ==
  /\ routes \subseteq RouteSet /\ made \subseteq routes
  /\ pc \in PCs
  /\ todo \subseteq Pushed /\ ledger \subseteq Pushed /\ found \in Pushed \cup {"none"}
  /\ bypass \in Hops \cup {"none", "foreign"}
  /\ sound \in [{"bypass", "dns", "server"} -> BOOLEAN]
  /\ file \in Contents /\ backup \in Contents \cup {"none"} /\ expected \in Contents \cup {"none"}
  /\ pc = "rewrite" => expected # "none"
  /\ pc = "restore" => backend = "resolved" \/ backup # "none"
  /\ changes \in Nat

\* Which routes are the client's: those through the device, and the bypass
\* route it remembers.
OwnRoutes ==
  /\ \A r \in routes : r.hop = "tun" => r \in made
  /\ pc \in NoDevice => \A r \in routes : r.hop # "tun"
  /\ pc \in {"idle", "bypass"} => bypass = "none"
  /\ sound.bypass => \A r \in made : r.hop = "tun" \/ r = Route("server", bypass, 0)

\* The default route goes through the device, or may soon.
Redirected ==
  \/ "default" \in todo \cup ledger
  \/ Route("default", "tun", 0) \in routes

Bypassed ==
  /\ sound.server /\ Redirected => To("server") # {}
  /\ pc \in NoDevice => todo = {} /\ ledger = {}

\* The backup is what resolv.conf would hold, and the file is either the
\* client's or not to be touched.  Between a read of the file and the write
\* that follows, the file is what was read.
BackupKept == backup = before \/ (before = "absent" /\ backup = "empty")
HandedBack == file \in {before, "absent"} \/ (before = "absent" /\ file = "empty")

OwnFile ==
  /\ backup # "none"
  /\ pc # "capture" => expected = "vpn"
  /\ pc \in {"capture", "restore"} => file = "vpn"
  /\ pc = "rewrite" => file = "absent"
  /\ IF file \in {"vpn", "absent"} THEN BackupKept ELSE file = before

FileKept ==
  /\ pc \in NoBackend => backend = "none"
  /\ sound.dns /\ pc \in {"dns", "domains", "backup", "write"} => backup # "none"
  /\ sound.dns /\ pc = "write" => BackupKept
  /\ sound.dns /\ backend = "resolvconf" => OwnFile
  /\ sound.dns /\ backend # "resolvconf" => HandedBack

\* What is owned is owned through a backend.
BackendKnown ==
  /\ backend \in {"none", "resolved", "resolvconf"}
  /\ backend = "none" => expected = "none"
  /\ pc \in {"capture", "rewrite", "restore"} => backend # "none"

HostInvariant == HostTypes /\ OwnRoutes /\ Bypassed /\ BackendKnown /\ FileKept

\* A step of the client's own, with what it does to the history of its routes.
ClientStep ==
  /\ Setup \/ Monitor \/ HostCleanup
  /\ made' = (made \cup (routes' \ routes)) \cap routes'

-----------------------------------------------------------------------------
(* The table.                                                              *)

(* What a failing call leaves alone. *)
LEMMA FailsKeeps ==
  ASSUME HostTypes, NEW kinds, Fails(kinds)
  PROVE  /\ sound' \in [{"bypass", "dns", "server"} -> BOOLEAN]
         /\ sound'.bypass = (sound.bypass /\ "bypass" \notin kinds)
         /\ sound'.dns = (sound.dns /\ "dns" \notin kinds)
         /\ sound'.server = (sound.server /\ "server" \notin kinds)
         /\ changes' = changes /\ before' = before
BY DEF HostTypes, Fails

(* A call that the kernel answers leaves the promises as they are; one that *)
(* fails may take some of them back, and gives none.                        *)
LEMMA SoundStep ==
  ASSUME HostTypes, ClientStep
  PROVE  /\ sound' \in [{"bypass", "dns", "server"} -> BOOLEAN]
         /\ sound'.bypass => sound.bypass
         /\ sound'.dns => sound.dns
         /\ sound'.server => sound.server
         /\ changes' = changes
<1> DEFINE Kept == sound' = sound /\ changes' = changes
<1>1. \/ Kept
      \/ \E kinds \in SUBSET {"bypass", "dns", "server"} : Fails(kinds)
      \/ sound' = [sound EXCEPT !.server = FALSE] /\ changes' = changes
      \/ sound' = [sound EXCEPT !.dns = FALSE] /\ changes' = changes
  <2>1. CASE Setup
    <3>1. CASE BackupResolvConf
      BY <3>1, Zenon DEF BackupResolvConf
    <3>2. CASE ~BackupResolvConf
      BY <2>1, <3>2 DEF Setup, openTUN, noInterface, addBypass, applyRoute, applyRouteFails,
           createBackupFile, applyDNS, setLinkDomains, backupFails, ApplyResolvConf,
           OwnershipForBackend, env
    <3>3. QED
      BY <3>1, <3>2
  <2>2. CASE Monitor
    BY <2>2 DEF Monitor, checkRoutes, checkRoutesFails, repairRoute, checkDNS, repairDNS, repairDomains, env
  <2>3. CASE HostCleanup
    BY <2>3, Zenon DEF HostCleanup, startCleanup, cleanupDNS, RestoreResolvConf, dnsDone, cleanupLookup,
         cleanupRemove, closeTUN, deleteBypass, env
  <2>4. QED
    BY <2>1, <2>2, <2>3 DEF ClientStep
<1>2. CASE Kept
  BY <1>2 DEF HostTypes
<1>3. CASE \E kinds \in SUBSET {"bypass", "dns", "server"} : Fails(kinds)
  BY <1>3, FailsKeeps
<1>4. CASE sound' = [sound EXCEPT !.server = FALSE] /\ changes' = changes
  BY <1>4, Zenon DEF HostTypes
<1>5. CASE sound' = [sound EXCEPT !.dns = FALSE] /\ changes' = changes
  BY <1>5, Zenon DEF HostTypes
<1>6. QED
  BY <1>1, <1>2, <1>3, <1>4, <1>5

(* What the client does to the table in one step: nothing, a route through  *)
(* the device or the bypass route more, an own route less, or all that went *)
(* through the device.                                                      *)
LEMMA TableStep ==
  ASSUME HostTypes, ClientStep
  PROVE  \/ /\ routes' = routes
            /\ bypass' = bypass \/ (bypass' = "foreign" /\ pc = "bypass")
            /\ pc # "clean bypass" /\ pc' # "idle" /\ pc' # "clean bypass"
            /\ pc' = "bypass" => pc = "idle"
         \/ /\ \E d \in todo : routes' = routes \cup {Route(d, "tun", 0)}
            /\ bypass' = bypass /\ pc' = pc /\ pc \in {"routes", "repair"}
         \/ /\ bypass' \in Hops /\ routes' = routes \cup {Route("server", bypass', 0)}
            /\ pc = "bypass" /\ pc' = "routes"
            /\ \E r \in routes : r.hop = bypass'
         \/ /\ \E d \in Pushed : routes' = delRoute(d, "tun")
            /\ bypass' = bypass /\ pc' = pc /\ pc = "clean routes"
         \/ /\ routes' \subseteq {r \in routes : r.hop # "tun"}
            /\ \A r \in routes \ routes' : r.hop = "tun"
            /\ bypass' = bypass /\ pc = "clean routes" /\ pc' = "clean bypass"
         \/ /\ \/ routes' = DeleteBypassRoute /\ sound' = sound
               \/ routes' = routes /\ ~sound'.bypass
            /\ bypass' = "none" /\ pc = "clean bypass" /\ pc' = "idle"
<1>1. CASE Setup
  <2>1. CASE addBypass
    <3>1. CASE \E r \in serverHop : AddBypassRouteOwned(r.hop)
      <4>1. PICK r \in serverHop : AddBypassRouteOwned(r.hop)
        BY <3>1
      <4>2. r \in routes /\ r.hop \in Hops
        BY <4>1 DEF serverHop, lookup, To, HostTypes, RouteSet
      <4>3. QED
        BY <2>1, <4>1, <4>2 DEF addBypass, AddBypassRouteOwned, addRoute
    <3>2. CASE UNCHANGED <<routes, bypass>>
      BY <2>1, <3>2 DEF addBypass
    <3>3. QED
      BY <2>1, <3>1, <3>2 DEF addBypass
  <2>2. CASE \E d \in Pushed : applyRoute(d)
    BY <2>2 DEF applyRoute, addRoute
  <2>3. CASE openTUN \/ noInterface \/ applyRouteFails \/ createBackupFile
    BY <2>3, Zenon DEF openTUN, noInterface, applyRouteFails, createBackupFile, host, holdings
  <2>4. CASE applyDNS \/ setLinkDomains \/ BackupResolvConf \/ backupFails
    BY <2>4, Zenon DEF applyDNS, setLinkDomains, BackupResolvConf, backupFails, host, holdings
  <2>6. CASE ApplyResolvConf \/ OwnershipForBackend
    BY <2>6, Zenon DEF ApplyResolvConf, OwnershipForBackend, host
  <2>5. QED
    BY <1>1, <2>1, <2>2, <2>3, <2>4, <2>6, Zenon DEF Setup
<1>2. CASE Monitor
  <2>1. CASE \E d \in Pushed : repairRoute(d)
    BY <2>1 DEF repairRoute, restore, addRoute, holdings
  <2>2. CASE checkRoutes \/ checkRoutesFails \/ checkDNS \/ repairDNS \/ repairDomains
    BY <2>2, Zenon DEF checkRoutes, checkRoutesFails, checkDNS, repairDNS, repairDomains, host, holdings
  <2>3. QED
    BY <1>2, <2>1, <2>2, Zenon DEF Monitor
<1>3. CASE HostCleanup
  <2>1. CASE cleanupRemove
    <3>1. found \in Pushed
      BY <2>1, Zenon DEF cleanupRemove, HostTypes
    <3>2. QED
      BY <2>1, <3>1, Zenon DEF cleanupRemove, holdings
  <2>2. CASE closeTUN
    <3>1. \A r \in routes : r.hop # "tun" => r \in routes'
      BY <2>2, Zenon DEF closeTUN, DeleteRoutes
    <3>2. routes' \subseteq {r \in routes : r.hop # "tun"}
      BY <2>2, Zenon DEF closeTUN, DeleteRoutes
    <3>3. QED
      BY <2>2, <3>1, <3>2, Zenon DEF closeTUN
  <2>3. CASE deleteBypass
    <3>1. CASE Fails({"bypass"}) /\ UNCHANGED routes
      BY <2>3, <3>1, FailsKeeps, Zenon DEF deleteBypass
    <3>2. CASE routes' = DeleteBypassRoute /\ UNCHANGED env
      BY <2>3, <3>2, Zenon DEF deleteBypass, env
    <3>3. QED
      BY <2>3, <3>1, <3>2, Zenon DEF deleteBypass
  <2>4. CASE startCleanup \/ cleanupDNS \/ RestoreResolvConf \/ \E d \in Pushed : cleanupLookup(d)
    BY <2>4, Zenon DEF startCleanup, cleanupDNS, RestoreResolvConf, dnsDone, cleanupLookup, host, holdings
  <2>5. QED
    BY <1>3, <2>1, <2>2, <2>3, <2>4, Zenon DEF HostCleanup
<1>4. QED
  BY <1>1, <1>2, <1>3, Zenon DEF ClientStep

(* The table and the history of its routes, after a step of the client. *)
LEMMA TableTypes ==
  ASSUME HostTypes, ClientStep
  PROVE  routes' \subseteq RouteSet /\ made' \subseteq routes'
<1>1. made' \subseteq routes'
  BY DEF ClientStep
<1>2. \A d \in Dests, h \in Hops : Route(d, h, 0) \in RouteSet
  BY DEF Route, RouteSet
<1>3. routes' \subseteq routes \/ \E d \in Dests, h \in Hops : routes' = routes \cup {Route(d, h, 0)}
  BY TableStep, Zenon DEF HostTypes, delRoute, DeleteBypassRoute, Dests, Hops
<1>4. QED
  BY <1>1, <1>2, <1>3 DEF HostTypes

(* The types are kept. *)
LEMMA TypesStep ==
  ASSUME HostTypes, [HostNext]_hostVars
  PROVE  HostTypes'
<1>1. CASE ClientStep
  <2>1. routes' \subseteq RouteSet /\ made' \subseteq routes'
    BY <1>1, TableTypes
  <2>2. sound' \in [{"bypass", "dns", "server"} -> BOOLEAN] /\ changes' \in Nat
    BY <1>1, SoundStep DEF HostTypes
  <2>3. bypass' \in Hops \cup {"none", "foreign"}
    BY <1>1, TableStep, Zenon DEF HostTypes
  <2>4. pc' \in PCs
    <3>1. CASE Setup
      BY <3>1, Zenon DEF HostTypes, PCs, Setup, openTUN, noInterface, addBypass, applyRoute,
           applyRouteFails, createBackupFile, applyDNS, setLinkDomains,
           BackupResolvConf, backupFails, ApplyResolvConf, OwnershipForBackend
    <3>2. CASE Monitor
      BY <3>2, Zenon DEF HostTypes, PCs, Monitor, checkRoutes, checkRoutesFails, repairRoute, checkDNS, repairDNS, repairDomains
    <3>3. CASE HostCleanup
      BY <3>3, Zenon DEF HostTypes, PCs, HostCleanup, startCleanup, cleanupDNS, RestoreResolvConf, dnsDone,
           cleanupLookup, cleanupRemove, closeTUN, deleteBypass
    <3>4. QED
      BY <1>1, <3>1, <3>2, <3>3 DEF ClientStep
  <2>5. todo' \subseteq Pushed /\ ledger' \subseteq Pushed /\ found' \in Pushed \cup {"none"}
    <3>1. CASE Setup
      BY <3>1 DEF HostTypes, Setup, openTUN, noInterface, addBypass, applyRoute, toApply,
           applyRouteFails, createBackupFile, applyDNS, setLinkDomains,
           BackupResolvConf, backupFails, ApplyResolvConf, OwnershipForBackend,
           Pushed, holdings, loop
    <3>2. CASE Monitor
      BY <3>2 DEF HostTypes, Monitor, checkRoutes, checkRoutesFails, repairRoute, checkDNS, repairDNS, repairDomains,
           Missing, holdings, loop
    <3>3. CASE HostCleanup
      BY <3>3, Zenon DEF HostTypes, HostCleanup, startCleanup, cleanupDNS, RestoreResolvConf, dnsDone,
           cleanupLookup, cleanupRemove, closeTUN, deleteBypass, holdings, loop
    <3>4. QED
      BY <1>1, <3>1, <3>2, <3>3 DEF ClientStep
  <2>6. file' \in Contents /\ backup' \in Contents \cup {"none"} /\ expected' \in Contents \cup {"none"}
    <3>1. CASE Setup
      BY <3>1 DEF HostTypes, Setup, openTUN, noInterface, addBypass, applyRoute,
           applyRouteFails, createBackupFile, applyDNS, setLinkDomains,
           BackupResolvConf, backupFails, ApplyResolvConf, OwnershipForBackend, Contents, host, holdings
    <3>2. CASE Monitor
      <4>1. CASE repairDNS
        BY <4>1, Zenon DEF HostTypes, repairDNS, Contents, holdings
      <4>2. CASE ~repairDNS
        BY <3>2, <4>2, Zenon DEF HostTypes, Monitor, checkRoutes, checkRoutesFails, repairRoute,
             checkDNS, repairDomains, host, holdings
      <4>3. QED
        BY <4>1, <4>2
    <3>3. CASE HostCleanup
      <4>1. CASE RestoreResolvConf
        BY <4>1, Zenon DEF HostTypes, RestoreResolvConf, dnsDone, Contents
      <4>2. CASE ~RestoreResolvConf
        BY <3>3, <4>2, Zenon DEF HostTypes, HostCleanup, startCleanup, cleanupDNS, dnsDone,
             cleanupLookup, cleanupRemove, closeTUN, deleteBypass, host, holdings
      <4>3. QED
        BY <4>1, <4>2
    <3>4. QED
      BY <1>1, <3>1, <3>2, <3>3 DEF ClientStep
  <2>7. /\ pc' = "rewrite" => expected' # "none"
        /\ pc' = "restore" => backend' = "resolved" \/ backup' # "none"
    <3>1. CASE checkDNS
      BY <3>1, Zenon DEF checkDNS, holdings
    <3>2. CASE cleanupDNS
      BY <3>2, Zenon DEF cleanupDNS, dnsDone, toRestore, stillOwned
    <3>3. CASE ~checkDNS /\ ~cleanupDNS
      <4>1. Setup => pc' \notin {"rewrite", "restore"}
        BY Zenon DEF Setup, openTUN, noInterface, addBypass, applyRoute, applyRouteFails,
             createBackupFile, applyDNS, setLinkDomains, BackupResolvConf, backupFails,
             ApplyResolvConf, OwnershipForBackend
      <4>2. Monitor /\ ~checkDNS => pc' \notin {"rewrite", "restore"}
        BY Zenon DEF Monitor, checkRoutes, checkRoutesFails, repairRoute, repairDNS, repairDomains
      <4>3. HostCleanup /\ ~cleanupDNS => pc' \notin {"rewrite", "restore"}
        BY Zenon DEF HostCleanup, startCleanup, RestoreResolvConf, dnsDone, cleanupLookup,
             cleanupRemove, closeTUN, deleteBypass
      <4>4. QED
        BY <1>1, <3>3, <4>1, <4>2, <4>3, Zenon DEF ClientStep
    <3>4. QED
      BY <3>1, <3>2, <3>3
  <2>8. QED
    BY <2>1, <2>2, <2>3, <2>4, <2>5, <2>6, <2>7, Zenon DEF HostTypes
<1>2. CASE Admin
  <2>1. UNCHANGED <<pc, todo, ledger, found, bypass, expected, backup, backend>> /\ changes' \in Nat
    BY <1>2 DEF HostTypes, Admin, adminAddsRoute, adminDeletesRoute, adminChangesFile,
         adminChangesLink, Change, clientVars, holdings, loop
  <2>2. routes' \subseteq RouteSet /\ made' \subseteq routes'
    BY <1>2 DEF HostTypes, Admin, adminAddsRoute, adminDeletesRoute, adminChangesFile,
         adminChangesLink, Route, RouteSet, Hops
  <2>3. sound' \in [{"bypass", "dns", "server"} -> BOOLEAN]
    BY <1>2, Zenon DEF HostTypes, Admin, adminAddsRoute, adminDeletesRoute, adminChangesFile,
         adminChangesLink
  <2>4. file' \in Contents /\ backup' \in Contents \cup {"none"} /\ expected' \in Contents \cup {"none"}
    BY <1>2 DEF HostTypes, Admin, adminAddsRoute, adminDeletesRoute, adminChangesFile,
         adminChangesLink, Change, clientVars, holdings, Contents
  <2>5. QED
    BY <2>1, <2>2, <2>3, <2>4, Zenon DEF HostTypes
<1>3. CASE Crash
  BY <1>3, Zenon DEF HostTypes, Crash, PCs
<1>4. CASE UNCHANGED hostVars
  BY <1>4 DEF HostTypes, hostVars, host, clientVars, holdings, loop, env
<1>5. QED
  BY <1>1, <1>2, <1>3, <1>4 DEF HostNext, Client, ClientStep

-----------------------------------------------------------------------------
(* The routes of the client.                                               *)

(* Deleting the bypass route takes it, and nothing through another hop. *)
LEMMA BypassDeleted ==
  ASSUME HostTypes
  PROVE  /\ DeleteBypassRoute \subseteq routes
         /\ Route("server", bypass, 0) \notin DeleteBypassRoute
         /\ \A r \in routes \ DeleteBypassRoute : r.dst = "server" /\ r.hop = bypass
<1>1. CASE bypass \in Hops
  <2>1. DeleteBypassRoute = delRoute("server", bypass)
    BY <1>1 DEF DeleteBypassRoute
  <2>2. \A r \in routes : 0 <= r.metric
    BY DEF HostTypes, RouteSet
  <2>3. QED
    BY <2>1, <2>2 DEF delRoute, To, Route
<1>2. CASE bypass \notin Hops
  <2>1. Route("server", bypass, 0) \notin RouteSet
    BY <1>2 DEF Route, RouteSet
  <2>2. QED
    BY <1>2, <2>1 DEF DeleteBypassRoute, HostTypes
<1>3. QED
  BY <1>1, <1>2

(* The client always knows which routes are its own. *)
LEMMA OwnRoutesStep ==
  ASSUME HostTypes, OwnRoutes, [HostNext]_hostVars
  PROVE  OwnRoutes'
<1>1. CASE ClientStep
  <2>0. made' = (made \cup (routes' \ routes)) \cap routes' /\ (sound'.bypass => sound.bypass)
    BY <1>1, SoundStep DEF ClientStep
  <2>1. CASE /\ routes' = routes
             /\ bypass' = bypass \/ (bypass' = "foreign" /\ pc = "bypass")
             /\ pc # "clean bypass" /\ pc' # "idle" /\ pc' # "clean bypass"
             /\ pc' = "bypass" => pc = "idle"
    <3>1. made' = made
      BY <2>0, <2>1, Zenon DEF HostTypes
    <3>2. bypass = "none" => \A h : Route("server", h, 0) \in made => h # "none"
      BY DEF HostTypes, RouteSet, Route, Hops
    <3>3. QED
      BY <2>0, <2>1, <3>1, <3>2, Zenon DEF OwnRoutes, NoDevice
  <2>2. CASE /\ \E d \in todo : routes' = routes \cup {Route(d, "tun", 0)}
             /\ bypass' = bypass /\ pc' = pc /\ pc \in {"routes", "repair"}
    <3>1. \A r \in made' : r \in made \/ r.hop = "tun"
      BY <2>0, <2>2 DEF Route
    <3>2. \A r \in routes' : r.hop = "tun" => r \in made'
      BY <2>0, <2>2 DEF OwnRoutes
    <3>3. QED
      BY <2>0, <2>2, <3>1, <3>2, Zenon DEF OwnRoutes, NoDevice
  <2>3. CASE /\ bypass' \in Hops /\ routes' = routes \cup {Route("server", bypass', 0)}
             /\ pc = "bypass" /\ pc' = "routes"
             /\ \E r \in routes : r.hop = bypass'
    <3>1. \A r \in made : r.hop # "none"
      BY DEF HostTypes, RouteSet, Hops
    <3>2. Route("server", "none", 0).hop = "none"
      BY DEF Route
    <3>3. \A r \in routes' : r.hop = "tun" => r \in made'
      BY <2>0, <2>3 DEF OwnRoutes
    <3>4. sound.bypass => \A r \in made : r.hop = "tun"
      BY <2>3, <3>1, <3>2 DEF OwnRoutes
    <3>5. QED
      BY <2>0, <2>3, <3>3, <3>4 DEF OwnRoutes, NoDevice
  <2>4. CASE /\ \E d \in Pushed : routes' = delRoute(d, "tun")
             /\ bypass' = bypass /\ pc' = pc /\ pc = "clean routes"
    <3>1. routes' \subseteq routes
      BY <2>4, Zenon DEF delRoute
    <3>2. QED
      BY <2>0, <2>4, <3>1, Zenon DEF OwnRoutes, NoDevice
  <2>5. CASE /\ routes' \subseteq {r \in routes : r.hop # "tun"}
             /\ \A r \in routes \ routes' : r.hop = "tun"
             /\ bypass' = bypass /\ pc = "clean routes" /\ pc' = "clean bypass"
    BY <2>0, <2>5, Zenon DEF OwnRoutes, NoDevice
  <2>6. CASE /\ \/ routes' = DeleteBypassRoute /\ sound' = sound
                \/ routes' = routes /\ ~sound'.bypass
             /\ bypass' = "none" /\ pc = "clean bypass" /\ pc' = "idle"
    <3>1. routes' \subseteq routes
      BY <2>6, BypassDeleted, Zenon
    <3>2. \A r \in routes : r.hop # "tun"
      BY <2>6, Zenon DEF OwnRoutes, NoDevice
    <3>3. sound'.bypass => made' = {}
      BY <2>0, <2>6, <3>1, <3>2, BypassDeleted, Zenon DEF OwnRoutes, HostTypes
    <3>4. QED
      BY <2>0, <2>6, <3>1, <3>2, <3>3, Zenon DEF OwnRoutes, NoDevice
  <2>7. QED
    BY <1>1, TableStep, <2>1, <2>2, <2>3, <2>4, <2>5, <2>6, Zenon
<1>2. CASE Admin
  <2>1. UNCHANGED <<pc, bypass>> /\ made' = made \cap routes'
    BY <1>2 DEF Admin, adminAddsRoute, adminDeletesRoute, adminChangesFile,
         adminChangesLink, Change, clientVars, holdings
  <2>2. sound'.bypass = sound.bypass
    BY <1>2 DEF HostTypes, Admin, adminAddsRoute, adminDeletesRoute, adminChangesFile,
         adminChangesLink
  <2>3. \A r \in routes' : r \in routes \/ r.hop = "other"
    BY <1>2 DEF Admin, adminAddsRoute, adminDeletesRoute, adminChangesFile,
         adminChangesLink, Route
  <2>4. QED
    BY <2>1, <2>2, <2>3 DEF OwnRoutes
<1>3. CASE Crash
  <2>1. ~sound'.bypass
    BY <1>3 DEF Crash, HostTypes
  <2>2. QED
    BY <1>3, <2>1 DEF Crash, OwnRoutes
<1>4. CASE UNCHANGED hostVars
  BY <1>4 DEF OwnRoutes, hostVars, host, clientVars, holdings, env
<1>5. QED
  BY <1>1, <1>2, <1>3, <1>4 DEF HostNext, Client, ClientStep

-----------------------------------------------------------------------------
(* The route to the server.                                                *)

(* The loops over the routes only visit what the ledger or an earlier loop  *)
(* has; the first one starts once the route to the server is there, or is   *)
(* known to be missing.                                                     *)
LEMMA LoopStep ==
  ASSUME HostTypes, Bypassed, ClientStep
  PROVE  /\ pc' \in NoDevice => todo' = {} /\ ledger' = {}
         /\ "default" \in todo' \cup ledger' =>
              \/ "default" \in todo \cup ledger
              \/ ~sound'.server
              \/ \E r \in routes' : r.dst = "server"
<1>1. CASE Setup
  <2>1. CASE addBypass
    <3>1. CASE \E r \in serverHop : AddBypassRouteOwned(r.hop)
      <4>1. \E r \in routes' : r.dst = "server"
        <5>1. CASE Exists("server")
          BY <3>1, <5>1 DEF AddBypassRouteOwned, Exists, To
        <5>2. CASE ~Exists("server")
          <6>1. PICK h : routes' = routes \cup {Route("server", h, 0)}
            BY <3>1, <5>2 DEF AddBypassRouteOwned, addRoute
          <6>2. Route("server", h, 0).dst = "server"
            BY DEF Route
          <6>3. QED
            BY <6>1, <6>2
        <5>3. QED
          BY <5>1, <5>2
      <4>2. QED
        BY <2>1, <4>1 DEF addBypass, NoDevice
    <3>2. CASE sound' = [sound EXCEPT !.server = FALSE]
      BY <2>1, <3>2 DEF addBypass, NoDevice, HostTypes
    <3>3. CASE ~redirect
      BY <2>1, <3>3 DEF addBypass, NoDevice, toApply
    <3>4. QED
      BY <2>1, <3>1, <3>2, <3>3 DEF addBypass
  <2>2. CASE openTUN \/ noInterface
    BY <2>2, Zenon DEF openTUN, noInterface, loop, holdings, Bypassed, NoDevice
  <2>3. CASE applyRouteFails \/ createBackupFile \/ \E d \in Pushed : applyRoute(d)
    BY <2>3, Zenon DEF applyRouteFails, createBackupFile, applyRoute, loop, NoDevice
  <2>4. CASE applyDNS \/ setLinkDomains \/ BackupResolvConf \/ backupFails
    BY <2>4, Zenon DEF applyDNS, setLinkDomains, BackupResolvConf, backupFails, holdings, loop, NoDevice
  <2>6. CASE ApplyResolvConf \/ OwnershipForBackend
    BY <2>6, Zenon DEF ApplyResolvConf, OwnershipForBackend, loop, NoDevice
  <2>5. QED
    BY <1>1, <2>1, <2>2, <2>3, <2>4, <2>6 DEF Setup
<1>2. CASE Monitor
  BY <1>2, Zenon DEF Monitor, checkRoutes, checkRoutesFails, repairRoute, checkDNS, repairDNS, repairDomains, Missing,
       loop, holdings, NoDevice
<1>3. CASE HostCleanup
  <2>1. CASE closeTUN \/ deleteBypass
    BY <2>1, Zenon DEF closeTUN, deleteBypass, loop, Bypassed, NoDevice
  <2>2. CASE startCleanup \/ cleanupDNS \/ RestoreResolvConf
    BY <2>2, Zenon DEF startCleanup, cleanupDNS, RestoreResolvConf, dnsDone, loop, holdings, NoDevice
  <2>3. CASE cleanupRemove \/ \E d \in Pushed : cleanupLookup(d)
    BY <2>3, Zenon DEF cleanupRemove, cleanupLookup, holdings, NoDevice
  <2>4. QED
    BY <1>3, <2>1, <2>2, <2>3 DEF HostCleanup
<1>4. QED
  BY <1>1, <1>2, <1>3 DEF ClientStep

(* The bypass route comes before the default route and goes after it. *)
LEMMA BypassedStep ==
  ASSUME HostTypes, OwnRoutes, Bypassed, [HostNext]_hostVars
  PROVE  Bypassed'
<1> DEFINE Routed == \E r \in routes : r.dst = "server"
<1>0. (sound.server /\ Redirected => Routed) /\ ((sound'.server /\ Redirected' => Routed') => (sound'.server /\ Redirected' => To("server")' # {}))
  BY DEF Bypassed, To
<1>1. CASE ClientStep
  <2>1. pc' \in NoDevice => todo' = {} /\ ledger' = {}
    BY <1>1, LoopStep
  <2>2. sound'.server => sound.server
    BY <1>1, SoundStep
  <2>3. SUFFICES ASSUME sound'.server, Redirected' PROVE Routed'
    BY <1>0, <2>1 DEF Bypassed
  <2>4. CASE pc' \in NoDevice
    <3>1. \A r \in routes' : r.hop # "tun"
      BY <2>4, OwnRoutesStep DEF OwnRoutes
    <3>2. QED
      BY <2>1, <2>3, <2>4, <3>1 DEF Redirected, Route
  <2>5. CASE pc' \notin NoDevice
    <3>1. \A r \in routes \ routes' : r.dst # "server"
      BY <1>1, <2>5, TableStep, Zenon DEF NoDevice, delRoute, To, Pushed
    <3>2. Route("default", "tun", 0) \in routes' \ routes => "default" \in todo
      <4>1. \A d, h : Route("default", "tun", 0) = Route(d, h, 0) => d = "default"
        BY DEF Route
      <4>2. \/ routes' \subseteq routes
            \/ \E d \in todo : routes' = routes \cup {Route(d, "tun", 0)}
            \/ routes' = routes \cup {Route("server", bypass', 0)}
        BY <1>1, TableStep, BypassDeleted, Zenon DEF delRoute
      <4>3. QED
        BY <4>1, <4>2
    <3>3. CASE Redirected
      BY <1>0, <2>2, <2>3, <3>1, <3>3
    <3>4. CASE ~Redirected
      BY <1>1, <2>3, <3>2, <3>4, LoopStep DEF Redirected
    <3>5. QED
      BY <3>3, <3>4
  <2>6. QED
    BY <2>4, <2>5
<1>2. CASE Admin
  <2>1. UNCHANGED <<pc, todo, ledger>>
    BY <1>2 DEF Admin, adminAddsRoute, adminDeletesRoute, adminChangesFile,
         adminChangesLink, Change, clientVars, holdings, loop
  <2>2. Route("default", "tun", 0) \in routes' => Route("default", "tun", 0) \in routes
    BY <1>2 DEF Admin, adminAddsRoute, adminDeletesRoute, adminChangesFile,
         adminChangesLink, Route
  <2>3. /\ sound'.server => sound.server
        /\ sound'.server => \A r \in routes \ routes' : r.dst # "server"
    BY <1>2, Zenon DEF HostTypes, Admin, adminAddsRoute, adminDeletesRoute, adminChangesFile,
         adminChangesLink
  <2>4. sound'.server /\ Redirected' => Routed'
    BY <1>0, <2>1, <2>2, <2>3 DEF Redirected
  <2>5. QED
    BY <1>0, <2>1, <2>4 DEF Bypassed
<1>3. CASE Crash
  <2>1. ~sound'.server
    BY <1>3 DEF Crash, HostTypes
  <2>2. QED
    BY <1>3, <2>1 DEF Crash, Bypassed
<1>4. CASE UNCHANGED hostVars
  BY <1>4 DEF Bypassed, Redirected, To, hostVars, host, clientVars, holdings, loop, env
<1>5. QED
  BY <1>1, <1>2, <1>3, <1>4 DEF HostNext, Client, ClientStep

-----------------------------------------------------------------------------
(* resolv.conf.                                                            *)

(* A backend is chosen before its state is owned, and given up with it. *)
LEMMA BackendStep ==
  ASSUME BackendKnown, [HostNext]_hostVars
  PROVE  BackendKnown'
<1>1. CASE Setup
  <2>1. CASE setLinkDomains
    BY <2>1, Zenon DEF setLinkDomains, BackendKnown
  <2>2. CASE ApplyResolvConf
    BY <2>2, Zenon DEF ApplyResolvConf, BackendKnown
  <2>3. CASE OwnershipForBackend
    BY <2>3 DEF OwnershipForBackend, BackendKnown
  <2>4. CASE UNCHANGED <<backend, expected>> /\ pc' \notin {"capture", "rewrite", "restore"}
    BY <2>4, Zenon DEF BackendKnown
  <2>5. CASE \E d \in Pushed : applyRoute(d)
    BY <2>5, Zenon DEF applyRoute, BackendKnown
  <2>6. QED
    BY <1>1, <2>1, <2>2, <2>3, <2>4, <2>5, Zenon DEF Setup, openTUN, noInterface, addBypass,
         applyRouteFails, createBackupFile, applyDNS, BackupResolvConf, backupFails, holdings
<1>2. CASE Monitor
  BY <1>2, Zenon DEF Monitor, checkRoutes, checkRoutesFails, repairRoute, checkDNS, repairDNS,
       repairDomains, holdings, BackendKnown
<1>3. CASE HostCleanup
  <2>1. CASE cleanupDNS \/ RestoreResolvConf
    BY <2>1, Zenon DEF cleanupDNS, RestoreResolvConf, toRestore, dnsDone, BackendKnown
  <2>2. CASE startCleanup \/ cleanupRemove \/ closeTUN \/ deleteBypass \/ \E d \in Pushed : cleanupLookup(d)
    BY <2>2, Zenon DEF startCleanup, cleanupRemove, closeTUN, deleteBypass, cleanupLookup,
         holdings, BackendKnown
  <2>3. QED
    BY <1>3, <2>1, <2>2 DEF HostCleanup
<1>4. CASE Admin
  BY <1>4, Zenon DEF Admin, adminAddsRoute, adminDeletesRoute, adminChangesFile,
       adminChangesLink, Change, clientVars, holdings, BackendKnown
<1>5. CASE Crash
  BY <1>5, Zenon DEF Crash, BackendKnown
<1>6. CASE UNCHANGED hostVars
  BY <1>6, Zenon DEF hostVars, clientVars, holdings, BackendKnown
<1>7. QED
  BY <1>1, <1>2, <1>3, <1>4, <1>5, <1>6 DEF HostNext, Client

(* The steps that touch neither the file nor what the client knows of it,   *)
(* between places where the invariant says the same.                        *)
LEMMA FileUntouched ==
  ASSUME FileKept, UNCHANGED <<file, backend, expected, backup, before>>,
         sound'.dns => sound.dns,
         \/ pc' = pc
         \/ /\ pc' \notin {"dns", "domains", "backup", "write", "capture", "rewrite", "restore"}
            /\ pc # "capture"
            /\ pc' \in NoBackend => pc \in NoBackend
  PROVE  FileKept'
<1>1. BackupKept' = BackupKept /\ HandedBack' = HandedBack
  BY DEF BackupKept, HandedBack
<1>2. OwnFile => OwnFile'
  BY <1>1, Zenon DEF OwnFile
<1>3. QED
  BY <1>1, <1>2, Zenon DEF FileKept

(* Without a promise about resolv.conf only the backend matters. *)
LEMMA FileGivenUp ==
  ASSUME ~sound'.dns, pc' \in NoBackend => backend' = "none"
  PROVE  FileKept'
BY Zenon DEF FileKept

(* Where the file is not the client's, it is what it would be without it. *)
LEMMA FileLeft ==
  ASSUME FileKept, pc \in NoBackend, UNCHANGED <<file, backend, before>>,
         sound'.dns => sound.dns,
         pc' \in {"routes", "dns", "domains", "backup", "up"},
         sound'.dns /\ pc' \in {"dns", "domains", "backup"} => backup' # "none"
  PROVE  FileKept'
<1>1. backend' = "none" /\ (sound'.dns => HandedBack')
  BY DEF FileKept, HandedBack
<1>2. QED
  BY <1>1, Zenon DEF FileKept

(* The client never loses what resolv.conf would hold without it. *)
LEMMA FileKeptStep ==
  ASSUME HostTypes, BackendKnown, FileKept, [HostNext]_hostVars
  PROVE  FileKept'
<1>1. CASE ClientStep
  <2>0. sound'.dns => sound.dns
    BY <1>1, SoundStep
  <2>1. CASE openTUN \/ noInterface \/ addBypass \/ applyRouteFails \/ \E d \in Pushed : applyRoute(d)
    <3>1. UNCHANGED <<file, backend, expected, backup, before>>
      BY <2>1 DEF openTUN, noInterface, addBypass, applyRouteFails, applyRoute, Fails, host, holdings, env
    <3>2. pc \in {"idle", "bypass", "routes"} /\ pc' \in {"bypass", "routes"}
      BY <2>1 DEF openTUN, noInterface, addBypass, applyRouteFails, applyRoute
    <3>3. QED
      BY <2>0, <3>1, <3>2, FileUntouched, Zenon DEF NoBackend, NoDevice
  <2>2. CASE createBackupFile
    <3>1. UNCHANGED <<file, backend, before>> /\ pc' = "dns" /\ pc = "routes"
      BY <2>2 DEF createBackupFile, Fails, host, env
    <3>2. sound'.dns => backup' # "none"
      BY <2>2, FailsKeeps, Zenon DEF createBackupFile
    <3>3. QED
      BY <2>0, <3>1, <3>2, FileLeft, Zenon DEF NoBackend
  <2>3. CASE applyDNS \/ backupFails
    <3>1. UNCHANGED <<file, backend, before, backup>>
      BY <2>3, Zenon DEF applyDNS, backupFails, Fails, host, holdings, env
    <3>2. pc \in {"dns", "backup"} /\ pc' \in {"domains", "backup", "up"}
      BY <2>3, Zenon DEF applyDNS, backupFails
    <3>3. sound.dns => backup # "none"
      BY <3>2, Zenon DEF FileKept
    <3>4. QED
      BY <2>0, <3>1, <3>2, <3>3, FileLeft, Zenon DEF NoBackend
  <2>4. CASE setLinkDomains
    <3>1. UNCHANGED <<file, before, backup>> /\ pc = "domains"
      BY <2>4, Zenon DEF setLinkDomains, env
    <3>2. CASE pc' = "backup" /\ UNCHANGED backend
      <4>1. sound.dns => backup # "none"
        BY <3>1, Zenon DEF FileKept
      <4>2. QED
        BY <2>0, <3>1, <3>2, <4>1, FileLeft, Zenon DEF NoBackend
    <3>3. CASE pc' = "up" /\ backend' = "resolved"
      <4>1. sound.dns => HandedBack
        BY <3>1 DEF FileKept, NoBackend
      <4>2. HandedBack' = HandedBack
        BY <3>1 DEF HandedBack
      <4>3. QED
        BY <2>0, <3>3, <4>1, <4>2, Zenon DEF FileKept, NoBackend, NoDevice
    <3>4. QED
      BY <2>4, <3>2, <3>3, Zenon DEF setLinkDomains
  <2>5. CASE BackupResolvConf
    <3>1. pc = "backup" /\ pc' = "write" /\ before' = file /\ UNCHANGED <<file, backend>>
      BY <2>5, Zenon DEF BackupResolvConf, host
    <3>2. backend' = "none"
      BY <3>1, Zenon DEF FileKept, NoBackend
    <3>3. CASE sound'.dns
      <4>1. backup' = IF backup = "none" THEN "none" ELSE IF file = "absent" THEN "empty" ELSE file
        <5>1. sound' # [sound EXCEPT !.dns = FALSE]
          BY <3>3 DEF HostTypes
        <5>2. QED
          BY <2>5, <5>1, Zenon DEF BackupResolvConf
      <4>2. backup # "none" /\ file # "none"
        BY <2>0, <3>1, <3>3 DEF FileKept, HostTypes, Contents
      <4>3. backup' # "none" /\ BackupKept'
        BY <3>1, <4>1, <4>2 DEF BackupKept
      <4>4. HandedBack'
        BY <3>1 DEF HandedBack
      <4>5. QED
        BY <3>1, <3>2, <4>3, <4>4, Zenon DEF FileKept
    <3>4. CASE ~sound'.dns
      BY <3>2, <3>4, FileGivenUp
    <3>5. QED
      BY <3>3, <3>4
  <2>6. CASE ApplyResolvConf
    <3>1. pc = "write" /\ backend' = "resolvconf" /\ UNCHANGED <<expected, backup>>
      BY <2>6, Zenon DEF ApplyResolvConf
    <3>2. CASE file' = "vpn" /\ pc' = "capture" /\ UNCHANGED env
      <4>1. before' = before
        BY <3>2 DEF env
      <4>2. sound'.dns => backup # "none" /\ BackupKept
        BY <2>0, <3>1, Zenon DEF FileKept
      <4>3. sound'.dns => OwnFile'
        BY <3>1, <3>2, <4>1, <4>2 DEF OwnFile, BackupKept
      <4>4. QED
        BY <3>1, <3>2, <4>3 DEF FileKept, NoBackend, NoDevice
    <3>3. CASE pc' = "up" /\ Fails({"dns"})
      <4>1. ~sound'.dns
        BY <3>3, FailsKeeps
      <4>2. QED
        BY <3>3, <4>1, FileGivenUp, Zenon DEF NoBackend, NoDevice
    <3>4. QED
      BY <2>6, <3>2, <3>3, Zenon DEF ApplyResolvConf
  <2>7. CASE OwnershipForBackend
    <3>1. pc = "capture" /\ pc' = "up" /\ UNCHANGED <<file, backend, backup>>
      BY <2>7, Zenon DEF OwnershipForBackend, host
    <3>2. CASE Fails({"dns"})
      <4>1. ~sound'.dns
        BY <3>2, FailsKeeps
      <4>2. QED
        BY <3>1, <4>1, FileGivenUp, Zenon DEF NoBackend, NoDevice
    <3>3. CASE (expected' = IF file = "absent" THEN "none" ELSE file) /\ UNCHANGED env
      <4>1. before' = before
        BY <3>3 DEF env
      <4>2. HandedBack' = HandedBack /\ BackupKept' = BackupKept
        BY <3>1, <4>1 DEF HandedBack, BackupKept
      <4>3. sound.dns /\ backend = "resolvconf" => OwnFile'
        BY <3>1, <3>3, <4>1, <4>2 DEF FileKept, OwnFile
      <4>4. QED
        BY <2>0, <3>1, <4>2, <4>3 DEF FileKept, NoBackend, NoDevice
    <3>4. QED
      BY <2>7, <3>2, <3>3, Zenon DEF OwnershipForBackend
  <2>8. CASE checkRoutes \/ checkRoutesFails \/ startCleanup \/ repairDomains \/ \E d \in Pushed : repairRoute(d)
    <3>1. UNCHANGED <<file, backend, expected, backup, before>>
      BY <2>8, Zenon DEF checkRoutes, checkRoutesFails, startCleanup, repairDomains, repairRoute,
           Fails, host, holdings, env
    <3>2. pc' \in {"repair", "clean dns", "up"} /\ pc # "capture"
      BY <2>8, Zenon DEF checkRoutes, checkRoutesFails, startCleanup, repairDomains, repairRoute
    <3>3. QED
      BY <2>0, <3>1, <3>2, FileUntouched, Zenon DEF NoBackend, NoDevice
  <2>9. CASE checkDNS
    <3>1. UNCHANGED <<file, backend, expected, backup, before>> /\ pc # "capture"
      BY <2>9, Zenon DEF checkDNS, Fails, host, holdings, env
    <3>2. CASE pc' = "up"
      BY <2>0, <3>1, <3>2, FileUntouched, Zenon DEF NoBackend, NoDevice
    <3>3. CASE pc' = "rewrite" /\ checkLocked = "missing"
      <4>1. HandedBack' = HandedBack /\ BackupKept' = BackupKept
        BY <3>1 DEF HandedBack, BackupKept
      <4>2. backend = "resolvconf" => file = "absent"
        BY <3>3, Zenon DEF checkLocked
      <4>3. sound.dns /\ backend = "resolvconf" => OwnFile'
        BY <3>1, <3>3, <4>1, <4>2 DEF FileKept, OwnFile
      <4>4. QED
        BY <2>0, <3>1, <3>3, <4>1, <4>3, Zenon DEF FileKept, NoBackend, NoDevice
    <3>4. QED
      BY <2>9, <3>2, <3>3, Zenon DEF checkDNS
  <2>10. CASE repairDNS
    <3>1. /\ UNCHANGED <<backend, expected, backup>>
          /\ pc = "rewrite" /\ pc' \in {"redomains", "up"}
      BY <2>10, Zenon DEF repairDNS, holdings
    <3>2. CASE backend = "resolved"
      <4>1. UNCHANGED <<file, before>>
        BY <2>10, <3>2, Zenon DEF repairDNS, Fails, env
      <4>2. QED
        BY <2>0, <3>1, <4>1, FileUntouched, Zenon DEF NoBackend, NoDevice
    <3>3. CASE Fails({"dns"})
      <4>1. ~sound'.dns
        BY <3>3, FailsKeeps
      <4>2. QED
        BY <3>1, <4>1, FileGivenUp, Zenon DEF NoBackend, NoDevice
    <3>4. CASE backend # "resolved" /\ file' = expected /\ pc' = "up" /\ UNCHANGED env
      <4>1. before' = before
        BY <3>4 DEF env
      <4>2. sound.dns => backend = "resolvconf"
        BY <3>1, <3>4, Zenon DEF BackendKnown
      <4>3. sound.dns => OwnFile'
        BY <3>1, <3>4, <4>1, <4>2 DEF FileKept, OwnFile, BackupKept
      <4>4. QED
        BY <2>0, <3>1, <3>4, <4>2, <4>3 DEF FileKept, NoBackend, NoDevice
    <3>5. QED
      BY <2>10, <3>2, <3>3, <3>4, Zenon DEF repairDNS
  <2>11. CASE cleanupDNS
    <3>0. UNCHANGED file /\ before' = before
      BY <2>11, Zenon DEF cleanupDNS, Fails, host, env
    <3>1. CASE toRestore /\ pc' = "restore" /\ UNCHANGED <<expected, backup, backend>>
      <4>1. HandedBack' = HandedBack /\ BackupKept' = BackupKept
        BY <3>0, <3>1 DEF HandedBack, BackupKept
      <4>2. pc = "clean dns"
        BY <2>11, Zenon DEF cleanupDNS
      <4>3. sound.dns /\ backend = "resolvconf" => OwnFile /\ expected = "vpn"
        BY <4>2, Zenon DEF FileKept, OwnFile
      <4>4. sound.dns /\ backend = "resolvconf" => file = "vpn"
        BY <3>1, <4>3, Zenon DEF toRestore, stillOwned, checkLocked
      <4>5. sound.dns /\ backend = "resolvconf" => OwnFile'
        BY <3>0, <3>1, <4>1, <4>3, <4>4 DEF OwnFile
      <4>6. QED
        BY <2>0, <3>1, <4>1, <4>5, Zenon DEF FileKept, NoBackend, NoDevice
    <3>2. CASE dnsDone
      <4>1. pc' = "clean routes" /\ backend' = "none"
        BY <3>2, Zenon DEF dnsDone
      <4>2. CASE ~toRestore
        <5>1. pc = "clean dns"
          BY <2>11, Zenon DEF cleanupDNS
        <5>2. sound.dns /\ backend = "resolvconf" => OwnFile /\ expected = "vpn" /\ backup # "none"
          BY <5>1, Zenon DEF FileKept, OwnFile
        <5>3. sound.dns /\ backend = "resolvconf" => file # "vpn"
          BY <4>2, <5>2, Zenon DEF toRestore, stillOwned, checkLocked
        <5>4. sound.dns => HandedBack
          BY <5>2, <5>3 DEF FileKept, OwnFile, HandedBack
        <5>5. HandedBack' = HandedBack
          BY <3>0 DEF HandedBack
        <5>6. QED
          BY <2>0, <4>1, <5>4, <5>5, Zenon DEF FileKept
      <4>3. CASE Fails({"dns"})
        <5>1. ~sound'.dns
          BY <4>3, FailsKeeps
        <5>2. QED
          BY <4>1, <5>1, FileGivenUp, Zenon
      <4>4. QED
        BY <2>11, <3>2, <4>2, <4>3, <4>1, Zenon DEF cleanupDNS
    <3>3. QED
      BY <2>11, <3>1, <3>2, Zenon DEF cleanupDNS
  <2>12. CASE RestoreResolvConf
    <3>1. pc = "restore" /\ pc' = "clean routes" /\ backend' = "none"
      BY <2>12, Zenon DEF RestoreResolvConf, dnsDone
    <3>2. CASE backend = "resolved"
      <4>1. UNCHANGED <<file, before>>
        BY <2>12, <3>2, Zenon DEF RestoreResolvConf, Fails, env
      <4>2. sound.dns => HandedBack
        BY <3>2 DEF FileKept
      <4>3. HandedBack' = HandedBack
        BY <4>1 DEF HandedBack
      <4>4. QED
        BY <2>0, <3>1, <4>2, <4>3, Zenon DEF FileKept
    <3>3. CASE Fails({"dns"})
      <4>1. ~sound'.dns
        BY <3>3, FailsKeeps
      <4>2. QED
        BY <3>1, <4>1, FileGivenUp, Zenon
    <3>4. CASE backend # "resolved" /\ file' = backup /\ UNCHANGED env
      <4>1. before' = before
        BY <3>4 DEF env
      <4>2. backend = "resolvconf"
        BY <3>1, <3>4, Zenon DEF BackendKnown
      <4>3. sound.dns => BackupKept
        BY <3>1, <4>2, Zenon DEF FileKept, OwnFile
      <4>4. sound.dns => HandedBack'
        BY <3>4, <4>1, <4>3 DEF BackupKept, HandedBack
      <4>5. QED
        BY <2>0, <3>1, <4>4, Zenon DEF FileKept
    <3>5. QED
      BY <2>12, <3>2, <3>3, <3>4, Zenon DEF RestoreResolvConf
  <2>13. CASE cleanupRemove \/ closeTUN \/ deleteBypass \/ \E d \in Pushed : cleanupLookup(d)
    <3>1. UNCHANGED <<file, backend, expected, backup, before>>
      BY <2>13, Zenon DEF cleanupRemove, closeTUN, deleteBypass, cleanupLookup, Fails, host, holdings, env
    <3>2. /\ pc \in {"clean routes", "clean bypass"}
          /\ pc' \in {"clean routes", "clean bypass", "idle"}
      BY <2>13, Zenon DEF cleanupRemove, closeTUN, deleteBypass, cleanupLookup
    <3>3. QED
      BY <2>0, <3>1, <3>2, FileUntouched, Zenon DEF NoBackend, NoDevice
  <2>14. QED
    BY <1>1, <2>1, <2>2, <2>3, <2>4, <2>5, <2>6, <2>7, <2>8, <2>9, <2>10, <2>11, <2>12, <2>13
       DEF ClientStep, Setup, Monitor, HostCleanup
<1>2. CASE Admin
  <2>1. UNCHANGED <<pc, backend, expected, backup>>
    BY <1>2 DEF Admin, adminAddsRoute, adminDeletesRoute, adminChangesFile,
         adminChangesLink, Change, clientVars, holdings
  <2>2. sound'.dns => sound.dns
    BY <1>2, Zenon DEF HostTypes, Admin, adminAddsRoute, adminDeletesRoute, adminChangesFile,
         adminChangesLink
  <2>3. CASE adminChangesFile
    <3>1. CASE sound'.dns
      <4>1. ~FileWindow /\ sound.dns
        BY <2>2, <2>3, <3>1, Zenon DEF adminChangesFile, HostTypes
      <4>2. pc # "write" /\ (backend = "resolvconf" => pc \notin {"capture", "rewrite", "restore"})
        BY <4>1, Zenon DEF FileWindow
      <4>3. /\ file' \in {"admin", "absent"}
            /\ before' = IF file' = "admin" THEN "admin"
                         ELSE IF backend = "resolvconf" /\ backup # "none" THEN backup
                         ELSE before
        BY <2>3, Zenon DEF adminChangesFile
      <4>4. backend = "resolvconf" => OwnFile'
        BY <2>1, <4>1, <4>2, <4>3 DEF FileKept, OwnFile, BackupKept
      <4>5. backend # "resolvconf" => HandedBack'
        BY <2>1, <4>3 DEF HandedBack
      <4>6. QED
        BY <2>1, <4>1, <4>2, <4>4, <4>5, Zenon DEF FileKept
    <3>2. CASE ~sound'.dns
      BY <2>1, <3>2, FileGivenUp DEF FileKept
    <3>3. QED
      BY <3>1, <3>2
  <2>4. CASE UNCHANGED <<file, before>>
    BY <2>1, <2>2, <2>4, FileUntouched, Zenon
  <2>5. QED
    BY <1>2, <2>3, <2>4 DEF Admin, adminAddsRoute, adminDeletesRoute, adminChangesLink
<1>3. CASE Crash
  <2>1. ~sound'.dns
    BY <1>3 DEF Crash, HostTypes
  <2>2. QED
    BY <1>3, <2>1, Zenon DEF Crash, FileKept
<1>4. CASE UNCHANGED hostVars
  BY <1>4, FileUntouched, Zenon DEF hostVars, host, clientVars, holdings, env
<1>5. QED
  BY <1>1, <1>2, <1>3, <1>4 DEF HostNext, Client, ClientStep

-----------------------------------------------------------------------------

(* The inductive invariant holds throughout. *)
THEOREM HostInvariantHolds == HostSpec => []HostInvariant
<1>1. HostInit => HostInvariant
  <2> SUFFICES ASSUME HostInit PROVE HostInvariant
    OBVIOUS
  <2>0. \A r \in routes : r \in RouteSet /\ r.hop # "tun"
    BY DEF HostInit, Route, RouteSet, Dests, Pushed, Hops
  <2>1. HostTypes
    <3>1. sound \in [{"bypass", "dns", "server"} -> BOOLEAN]
      BY DEF HostInit
    <3>2. routes \subseteq RouteSet
      BY <2>0
    <3>3. QED
      BY <3>1, <3>2 DEF HostInit, HostTypes, PCs, Contents
  <2>2. OwnRoutes
    BY <2>0 DEF HostInit, OwnRoutes
  <2>3. Bypassed
    BY <2>0 DEF HostInit, Bypassed, Redirected, Route
  <2>4. BackendKnown /\ FileKept
    BY DEF HostInit, BackendKnown, FileKept, HandedBack
  <2>5. QED
    BY <2>1, <2>2, <2>3, <2>4 DEF HostInvariant
<1>2. HostInvariant /\ [HostNext]_hostVars => HostInvariant'
  BY TypesStep, OwnRoutesStep, BypassedStep, BackendStep, FileKeptStep DEF HostInvariant
<1>3. QED
  BY <1>1, <1>2, PTL DEF HostSpec

(* A teardown without failures leaves no route of the client behind: the    *)
(* routes through the device go with it, and the one bypass route it        *)
(* remembers is deleted last (cleanup).                                     *)
THEOREM NoRouteLeftHolds == HostSpec => []NoRouteLeft
<1>1. HostInvariant => NoRouteLeft
  <2> SUFFICES ASSUME HostInvariant, pc = "idle", sound.bypass PROVE made = {}
    BY DEF NoRouteLeft
  <2>1. \A r \in made : r.hop \in Hops /\ r.hop # "tun"
    BY DEF HostInvariant, HostTypes, OwnRoutes, NoDevice, RouteSet
  <2>2. \A r \in made : r.hop = "none"
    BY <2>1 DEF HostInvariant, OwnRoutes, Route
  <2>3. QED
    BY <2>1, <2>2 DEF Hops
<1>2. QED
  BY <1>1, HostInvariantHolds, PTL

(* resolv.conf is handed back, whatever an administrator has made of it     *)
(* while the tunnel was up (dns.Ownership, BackupResolvConf).               *)
THEOREM ResolvConfHandedBackHolds == HostSpec => []ResolvConfHandedBack
<1>1. HostInvariant => ResolvConfHandedBack
  BY DEF HostInvariant, FileKept, NoBackend, NoDevice, HandedBack, ResolvConfHandedBack
<1>2. QED
  BY <1>1, HostInvariantHolds, PTL

(* The default route never goes through the tunnel without a route to the   *)
(* server beside it (openNativeTUN, cleanup).                               *)
THEOREM NoRoutingLoopHolds == HostSpec => []NoRoutingLoop
<1>1. HostInvariant => NoRoutingLoop
  BY DEF HostInvariant, Bypassed, Redirected, NoRoutingLoop
<1>2. QED
  BY <1>1, HostInvariantHolds, PTL

(* No step of the client removes a route that it did not put there, but for *)
(* one that has its bypass route's destination and gateway                  *)
(* (Ownership.Cleanup, DeleteBypassRoute).                                  *)
THEOREM OnlyOwnRoutesRemovedHolds == HostSpec => OnlyOwnRoutesRemoved
<1>1. HostInvariant /\ [HostNext]_hostVars =>
        [changes' = changes =>
           \A r \in routes \ routes' : r \in made \/ (r.dst = "server" /\ r.hop = bypass)]_hostVars
  <2> SUFFICES ASSUME HostInvariant, [HostNext]_hostVars, changes' = changes,
                      NEW r \in routes \ routes'
               PROVE  r.hop = "tun" \/ (r.dst = "server" /\ r.hop = bypass)
    BY DEF HostInvariant, OwnRoutes
  <2>1. CASE ClientStep
    BY <2>1, TableStep, BypassDeleted, Zenon DEF HostInvariant, delRoute
  <2>2. CASE Admin
    <3>1. changes' = changes + 1
      BY <2>2 DEF Admin, adminAddsRoute, adminDeletesRoute, adminChangesFile,
           adminChangesLink, Change
    <3>2. QED
      BY <3>1 DEF HostInvariant, HostTypes
  <2>3. CASE Crash
    BY <2>3 DEF Crash
  <2>4. CASE UNCHANGED hostVars
    BY <2>4 DEF hostVars, host
  <2>5. QED
    BY <2>1, <2>2, <2>3, <2>4 DEF HostNext, Client, ClientStep
<1>2. QED
  BY <1>1, HostInvariantHolds, PTL DEF HostSpec, OnlyOwnRoutesRemoved

=============================================================================
