-------------------------------- MODULE Routes --------------------------------
(***************************************************************************)
(* The routes of one daemon: RouteManager (diff, apply, clear), the        *)
(* cleanup manifest, and the recovery at daemon start, against the kernel  *)
(* routing table.                                                          *)
(*                                                                         *)
(* Every kernel call is a step of its own: the table may change under the  *)
(* manager (openvpn recreates the tun device), a call may fail, and the    *)
(* daemon may be killed between any two of them.  The attempts drive the   *)
(* manager: CONNECTED clears and applies, a later push reply only applies, *)
(* the end of the attempt clears.                                          *)
(*                                                                         *)
(* The routing table is external; its matching rules are those the code    *)
(* relies on and documents.  Linux keeps one route per destination and     *)
(* deletes by destination, gateway and (when given) interface; Windows     *)
(* deletes by the exact entry; macOS deletes by destination and may rebind *)
(* the routes of a dead interface to the uplink.  The host has routes of   *)
(* its own, of which those to a destination the gateway pushes matter: the *)
(* link route of a LAN, which an add takes for success on Linux and macOS, *)
(* which wins over ours, and which a delete on macOS does not spare.       *)
(***************************************************************************)
EXTENDS Naturals, FiniteSets

CONSTANTS
    Platforms,   \* platforms to consider, of "linux", "macos", "windows"
    Nets,        \* destination CIDRs the gateway may push
    Gateways,    \* route gateways the gateway may push
    Interfaces,  \* interface indexes a tun device may get
    Uplink,      \* the interface of the default route
    None,        \* no gateway, no interface index, no manifest
    MaxHostRoutes, \* model bound: how many of Nets the host has routes of its own for
    MaxFaults    \* model bound: how many kinds of call may fail in a behaviour

ASSUME RoutesAssumption ==
    /\ Platforms \subseteq {"linux", "macos", "windows"}
    /\ Uplink \notin Interfaces
    /\ MaxFaults \in Nat /\ MaxHostRoutes \in Nat
    /\ None \notin Gateways \union Interfaces \union {Uplink}
    /\ \A routes \in SUBSET [net : Nets, gw : Gateways] : routes # None

VARIABLES
    platform,
    pc,           \* where the route code is between two kernel calls
    op,           \* what a finished clear() is followed by: "apply" or "teardown"
    installed,    \* RouteManager::installed, a set of routes [net, gw]
    installedIf,  \* RouteManager::installed_ifindex
    desired,      \* the route set of the current (or last) apply
    gateway,      \* its gateway
    ifindex,      \* its resolved interface index
    todo,         \* routes the current loop has yet to delete
    deleteIf,     \* interface index the current loop deletes with
    toAdd,        \* destinations apply() has yet to add
    manifest,     \* the cleanup manifest on disk: None, or a set of routes
    up,           \* the attempt has seen CONNECTED
    kernel,       \* the routing table, our part: a set of entries [net, gw, ifx]
    hostRoutes,   \* destinations the table has a route of the host's own for
    tun,          \* the tun device of the current openvpn
    alive,        \* tun devices that exist, those of orphaned openvpns included
    fresh,        \* history: neither the tun nor the host's own routes have changed since
                  \* the last CONNECTED
    faults,       \* history: the kinds of call that have failed
    unsaved       \* history: entries no manifest has recorded

managerVars == <<op, installed, installedIf>>
jobVars == <<desired, gateway, ifindex, todo, deleteIf, toAdd>>
tableVars == <<kernel, hostRoutes, unsaved>>
deviceVars == <<tun, alive, fresh, up>>
vars == <<platform, pc, managerVars, jobVars, manifest, tableVars, deviceVars, faults>>

Fault == {"list", "add", "delete", "file"}
Route == [net : Nets, gw : Gateways]
Entry == [net : Nets, gw : Gateways \union {None}, ifx : Interfaces \union {Uplink}]

TypeOK ==
    /\ platform \in Platforms
    /\ pc \in {"idle", "clear", "apply", "save", "wait", "dead", "recover"}
    /\ op \in {"apply", "teardown"}
    /\ installed \subseteq Route
    /\ installedIf \in Interfaces \union {None}
    /\ desired \subseteq Nets
    /\ gateway \in Gateways \union {None}
    /\ ifindex \in Interfaces \union {None}
    /\ todo \subseteq Route
    /\ deleteIf \in Interfaces \union {None}
    /\ toAdd \subseteq Nets
    /\ manifest = None \/ manifest \subseteq Route
    /\ up \in BOOLEAN
    /\ kernel \subseteq Entry /\ hostRoutes \subseteq Nets
    /\ tun \in alive \union {None}
    /\ alive \subseteq Interfaces
    /\ fresh \in BOOLEAN
    /\ faults \subseteq Fault
    /\ unsaved \subseteq Entry

Init ==
    /\ platform \in Platforms
    /\ pc = "idle" /\ op = "apply"
    /\ installed = {} /\ installedIf = None
    /\ desired = {} /\ gateway = None /\ ifindex = None
    /\ todo = {} /\ deleteIf = None /\ toAdd = {}
    /\ manifest = None
    /\ up = FALSE /\ tun = None /\ alive = {} /\ fresh = FALSE
    /\ kernel = {} /\ unsaved = {}
    /\ hostRoutes \in SUBSET Nets /\ Cardinality(hostRoutes) <= MaxHostRoutes
    /\ faults = {}

-----------------------------------------------------------------------------
(* The kernel's routing table *)

\* A call of this kind fails.
Fails(kind) ==
    /\ faults' = faults \union {kind}
    /\ Cardinality(faults') <= MaxFaults

\* build_route: macOS drops the gateway when the interface is known.
BuildRoute(net, gw, ifx) ==
    [net |-> net,
     gw |-> IF platform = "macos" /\ ifx # None THEN None ELSE gw,
     ifx |-> ifx]

\* Entries a delete request selects.
Matching(r) ==
    {e \in kernel :
        /\ e.net = r.net
        /\ platform # "macos" => e.gw = r.gw
        /\ platform = "windows" => e.ifx = r.ifx
        /\ platform = "linux" => r.ifx \in {None, e.ifx}}

\* What an add request installs: without an interface index the kernel
\* resolves the interface from the gateway, which is behind the tun.
NewEntry(r) == [net |-> r.net, gw |-> r.gw, ifx |-> tun]

\* The kernel refuses a duplicate: of a route of ours, or of the host's own.
Duplicate(r) ==
    \/ \E e \in kernel : IF platform = "windows" THEN e = NewEntry(r) ELSE e.net = r.net
    \/ platform # "windows" /\ r.net \in hostRoutes

\* The kernel can install the route: there is a tun device, the interface
\* asked for is it, and on Windows one was asked for.
Installable(r) ==
    /\ tun # None
    /\ r.ifx \in {tun, None}
    /\ platform = "windows" => r.ifx # None

\* handle.delete: a missing entry is no error, and no error stops a loop.
KernelDelete(r) ==
    \/ /\ kernel' = kernel \ Matching(r)
       /\ hostRoutes' = IF platform = "macos" THEN hostRoutes \ {r.net} ELSE hostRoutes
       /\ unsaved' = unsaved \ Matching(r)
       /\ UNCHANGED faults
    \/ Fails("delete") /\ UNCHANGED tableVars

-----------------------------------------------------------------------------
(* RouteManager *)

\* Plausible slip: clear() forgets the routes without deleting them.
ClearForgets(next) ==
    /\ pc' = "clear" /\ op' = next
    /\ todo' = {} /\ deleteIf' = installedIf
    /\ installed' = {} /\ installedIf' = None

\* clear() takes the installed set and the interface index first.
Clear(next) ==
    /\ pc' = "clear" /\ op' = next
    /\ todo' = installed /\ deleteIf' = installedIf
    /\ installed' = {} /\ installedIf' = None

ClearOne(r) ==
    /\ pc = "clear" /\ r \in todo
    /\ KernelDelete(BuildRoute(r.net, r.gw, deleteIf))
    /\ todo' = todo \ {r}
    /\ UNCHANGED <<platform, pc, managerVars, desired, gateway, ifindex, deleteIf, toAdd,
                   manifest, deviceVars>>

\* diff: an installed route leaves when it is no longer desired through this
\* gateway, and a desired one arrives when it is not installed that way.
ToRemove(nets, gw) == {r \in installed : r.net \notin nets \/ r.gw # gw}

ToAdd(nets, gw) == {net \in nets : [net |-> net, gw |-> gw] \notin installed}

\* Plausible slip: without a host route the default route's interface is taken.
ResolveUplink ==
    /\ pc = "clear" /\ todo = {} /\ op = "apply" /\ gateway # None
    /\ pc' = "apply"
    /\ \/ ifindex' = tun /\ UNCHANGED faults
       \/ ifindex' = Uplink /\ Fails("list")
    /\ todo' = ToRemove(desired, gateway)
    /\ toAdd' = ToAdd(desired, gateway)
    /\ deleteIf' = installedIf
    /\ UNCHANGED <<platform, managerVars, desired, gateway, manifest, tableVars, deviceVars>>

\* apply_routes resolves the tun's interface index (the table listing may
\* fail, or the host route not be there yet), then apply() diffs.
Resolve ==
    /\ pc = "clear" /\ todo = {} /\ op = "apply" /\ gateway # None
    /\ pc' = "apply"
    /\ \/ ifindex' = tun /\ UNCHANGED faults
       \/ ifindex' = None /\ Fails("list")
    /\ todo' = ToRemove(desired, gateway)
    /\ toAdd' = ToAdd(desired, gateway)
    /\ deleteIf' = installedIf
    /\ UNCHANGED <<platform, managerVars, desired, gateway, manifest, tableVars, deviceVars>>

\* A push reply without route-gateway skips the route install.
SkipRoutes ==
    /\ pc = "clear" /\ todo = {} /\ op = "apply" /\ gateway = None
    /\ pc' = "save"
    /\ UNCHANGED <<platform, managerVars, jobVars, manifest, tableVars, deviceVars, faults>>

\* Plausible slip: the stale route is deleted with the new gateway.
DeleteGatewayLatest(r) == gateway

\* installed_gateway_for_delete: the gateway the route was added with.
DeleteGateway(r) == r.gw

RemoveOne(r) ==
    /\ pc = "apply" /\ r \in todo
    /\ KernelDelete(BuildRoute(r.net, DeleteGateway(r), deleteIf))
    /\ todo' = todo \ {r}
    /\ installed' = installed \ {r}
    /\ UNCHANGED <<platform, pc, op, installedIf, desired, gateway, ifindex, deleteIf, toAdd,
                   manifest, deviceVars>>

\* Added, or already there: either way it is ours from now on.
AddSucceeds(net) ==
    LET r == BuildRoute(net, gateway, ifindex)
    IN  /\ \/ /\ Duplicate(r)
              /\ UNCHANGED tableVars
           \/ /\ Installable(r) /\ ~Duplicate(r)
              /\ kernel' = kernel \union {NewEntry(r)}
              /\ unsaved' = unsaved \union {NewEntry(r)}
              /\ UNCHANGED hostRoutes
        /\ installed' = installed \union {[net |-> net, gw |-> gateway]}
        /\ toAdd' = toAdd \ {net}
        /\ UNCHANGED <<pc, installedIf, faults>>

\* Any other error ends apply() at once, installed_ifindex untouched.
AddFails ==
    /\ Fails("add")
    /\ pc' = "save"
    /\ toAdd' = {}
    /\ UNCHANGED <<installed, installedIf, tableVars>>

AddOne(net) ==
    /\ pc = "apply" /\ todo = {} /\ net \in toAdd
    /\ AddSucceeds(net) \/ AddFails
    /\ UNCHANGED <<platform, op, desired, gateway, ifindex, todo, deleteIf, manifest, deviceVars>>

Applied ==
    /\ pc = "apply" /\ todo = {} /\ toAdd = {}
    /\ pc' = "save"
    /\ installedIf' = ifindex
    /\ UNCHANGED <<platform, op, installed, jobVars, manifest, tableVars, deviceVars, faults>>

-----------------------------------------------------------------------------
(* The cleanup manifest *)

\* Entries a manifest of the installed routes records.
Recorded == {e \in kernel : e.ifx = tun /\ \E r \in installed : r.net = e.net}

\* record_cleanup_manifest, after every apply whatever its result; the write
\* is atomic, and a failed one keeps the previous manifest.
SaveManifest ==
    /\ pc = "save"
    /\ pc' = "idle"
    /\ \/ manifest' = installed /\ unsaved' = unsaved \ Recorded /\ UNCHANGED faults
       \/ Fails("file") /\ UNCHANGED <<manifest, unsaved>>
    /\ gateway' = None /\ ifindex' = None /\ deleteIf' = None
    /\ UNCHANGED <<platform, managerVars, desired, todo, toAdd, kernel, hostRoutes, deviceVars>>

\* The end of the attempt removes the manifest after the routes.
RemoveManifest ==
    /\ pc = "clear" /\ todo = {} /\ op = "teardown"
    /\ pc' = "wait"
    /\ \/ manifest' = None /\ UNCHANGED faults
       \/ Fails("file") /\ UNCHANGED manifest
    /\ desired' = {} /\ deleteIf' = None
    /\ UNCHANGED <<platform, managerVars, gateway, ifindex, todo, toAdd, tableVars, deviceVars>>

-----------------------------------------------------------------------------
(* The attempt that drives the manager *)

\* Plausible slip: CONNECTED applies on top of what it believes installed.
ConnectedApplies(nets, gw) ==
    /\ pc = "idle" /\ tun # None
    /\ pc' = "clear" /\ op' = "apply"
    /\ todo' = {}
    /\ desired' = (IF gw = None THEN {} ELSE nets) /\ gateway' = gw
    /\ up' = TRUE /\ fresh' = TRUE
    /\ UNCHANGED <<platform, installed, installedIf, ifindex, deleteIf, toAdd, manifest,
                   tableVars, tun, alive, faults>>

\* CONNECTED: clear, then apply the push options.
Connected(nets, gw) ==
    /\ pc = "idle" /\ tun # None
    /\ Clear("apply")
    /\ desired' = (IF gw = None THEN {} ELSE nets) /\ gateway' = gw
    /\ up' = TRUE /\ fresh' = TRUE
    /\ UNCHANGED <<platform, ifindex, toAdd, manifest, tableVars, tun, alive, faults>>

\* A push reply on a tunnel that has been up: apply only.
PushReply(nets, gw) ==
    /\ pc = "idle" /\ up
    /\ pc' = "clear" /\ op' = "apply"
    /\ desired' = (IF gw = None THEN desired ELSE nets) /\ gateway' = gw
    /\ UNCHANGED <<platform, installed, installedIf, ifindex, todo, deleteIf, toAdd, manifest,
                   tableVars, deviceVars, faults>>

\* The event loop ends.
Teardown ==
    /\ pc = "idle"
    /\ Clear("teardown")
    /\ UNCHANGED <<platform, desired, gateway, ifindex, toAdd, manifest, tableVars, deviceVars,
                   faults>>

-----------------------------------------------------------------------------
(* Devices: openvpn creates, recreates and takes down its tun *)

\* Routes of a dead interface go with it; macOS may rebind some to the uplink.
LoseInterface(ifx) ==
    \E zombies \in SUBSET {e \in kernel : e.ifx = ifx} :
        LET stay(es) == {e \in es : e.ifx # ifx}
            rebound(es) == {[e EXCEPT !.ifx = Uplink] : e \in es \intersect zombies}
        IN  /\ platform # "macos" => zombies = {}
            /\ kernel' = stay(kernel) \union rebound(kernel)
            /\ unsaved' = stay(unsaved) \union rebound(unsaved)
            /\ alive' = alive \ {ifx}
            /\ UNCHANGED hostRoutes

TunUp ==
    /\ pc \notin {"wait", "dead", "recover"} /\ tun = None
    /\ \E ifx \in Interfaces \ alive : tun' = ifx /\ alive' = alive \union {ifx}
    /\ UNCHANGED <<platform, pc, managerVars, jobVars, manifest, tableVars, up, fresh, faults>>

TunLost ==
    /\ \E ifx \in alive :
          /\ LoseInterface(ifx)
          /\ tun' = IF ifx = tun THEN None ELSE tun
    /\ fresh' = FALSE
    /\ UNCHANGED <<platform, pc, managerVars, jobVars, manifest, up, faults>>

\* The host joins or leaves a network.  On macOS a destination has one route.
HostMoves ==
    /\ \E net \in Nets :
          \/ hostRoutes' = hostRoutes \ {net}
          \/ /\ platform = "macos" => \A e \in kernel : e.net # net
             /\ hostRoutes' = hostRoutes \union {net} /\ Cardinality(hostRoutes') <= MaxHostRoutes
    /\ fresh' = FALSE
    /\ UNCHANGED <<platform, pc, managerVars, jobVars, manifest, kernel, unsaved, tun, alive, up,
                   faults>>

\* process.wait() returns: openvpn is gone and its tun with it.
OpenVpnGone ==
    /\ pc = "wait"
    /\ pc' = "idle"
    /\ up' = FALSE /\ fresh' = FALSE
    /\ tun' = None
    /\ IF tun = None THEN UNCHANGED <<tableVars, alive>> ELSE LoseInterface(tun)
    /\ UNCHANGED <<platform, managerVars, jobVars, manifest, faults>>

-----------------------------------------------------------------------------
(* Daemon death and restart *)

\* Killed: nothing runs, the child and its tun may live on.
Crash ==
    /\ pc # "dead"
    /\ pc' = "dead"
    /\ op' = "apply" /\ installed' = {} /\ installedIf' = None
    /\ desired' = {} /\ gateway' = None /\ ifindex' = None
    /\ todo' = {} /\ deleteIf' = None /\ toAdd' = {}
    /\ up' = FALSE /\ fresh' = FALSE /\ tun' = None
    /\ UNCHANGED <<platform, manifest, tableVars, alive, faults>>

\* Plausible slip: the manifest is removed before its routes are deleted.
StartRemovesManifest ==
    /\ pc = "dead"
    /\ pc' = "recover"
    /\ todo' = IF manifest = None THEN {} ELSE manifest
    /\ manifest' = None
    /\ UNCHANGED <<platform, managerVars, desired, gateway, ifindex, deleteIf, toAdd,
                   tableVars, deviceVars, faults>>

\* run_at_startup reads the manifest.
Start ==
    /\ pc = "dead"
    /\ pc' = "recover"
    /\ todo' = IF manifest = None THEN {} ELSE manifest
    /\ UNCHANGED <<platform, managerVars, desired, gateway, ifindex, deleteIf, toAdd, manifest,
                   tableVars, deviceVars, faults>>

\* clear_routes deletes by destination and gateway, with no interface index.
RecoverOne(r) ==
    /\ pc = "recover" /\ r \in todo
    /\ KernelDelete([net |-> r.net, gw |-> r.gw, ifx |-> None])
    /\ todo' = todo \ {r}
    /\ UNCHANGED <<platform, pc, managerVars, desired, gateway, ifindex, deleteIf, toAdd,
                   manifest, deviceVars>>

\* No route handle: clear_routes gives up.
NoHandle ==
    /\ pc = "recover" /\ todo # {}
    /\ todo' = {}
    /\ Fails("delete")
    /\ UNCHANGED <<platform, pc, managerVars, desired, gateway, ifindex, deleteIf, toAdd,
                   manifest, tableVars, deviceVars>>

Recovered ==
    /\ pc = "recover" /\ todo = {}
    /\ pc' = "idle"
    /\ \/ manifest' = None /\ UNCHANGED faults
       \/ Fails("file") /\ UNCHANGED manifest
    /\ UNCHANGED <<platform, managerVars, jobVars, tableVars, deviceVars>>

-----------------------------------------------------------------------------
Next ==
    \/ \E nets \in SUBSET Nets, gw \in Gateways \union {None} :
          Connected(nets, gw) \/ PushReply(nets, gw)
    \/ Teardown
    \/ \E r \in Route : ClearOne(r) \/ RemoveOne(r) \/ RecoverOne(r)
    \/ Resolve \/ SkipRoutes
    \/ \E net \in Nets : AddOne(net)
    \/ Applied
    \/ SaveManifest \/ RemoveManifest
    \/ TunUp \/ TunLost \/ HostMoves \/ OpenVpnGone
    \/ Crash \/ Start \/ NoHandle \/ Recovered

Spec == Init /\ [][Next]_vars

-----------------------------------------------------------------------------
(* Properties *)

Tracked(e) == \E r \in installed : r.net = e.net /\ (platform # "macos" => r.gw = e.gw)

\* No call failed whose failure loses track of a route: deletes everywhere,
\* and where the kernel matches interfaces also adds and listings, because
\* they decide the interface index of later deletes.
KeptTrack ==
    /\ "delete" \notin faults
    /\ platform # "macos" => faults \intersect {"add", "list"} = {}

\* Between two operations the live tun carries no route the manager does not
\* know of, through gateway changes, tun recreations, crashes and, on macOS,
\* failed adds (apply's deletes use the gateway and the interface the route
\* was added with; see KeptTrack for the failures that do lose a route).
NoStaleRoute ==
    pc \in {"idle", "wait"} /\ KeptTrack => \A e \in kernel : e.ifx = tun => Tracked(e)

\* After CONNECTED was handled, and until the tun or the host's own routes
\* change, every pushed route is in the kernel through the live tun: neither
\* the manager's own memory nor a zombie of the old tun stands in the way.
\* There are two exceptions: a destination the host has a route of its own
\* for, which keeps it (apply only warns), and a route of a killed daemon that
\* no manifest recorded (clear, then apply).
ConnectedRoutesLive ==
    pc = "idle" /\ fresh /\ faults \subseteq {"list"} =>
        \A net \in desired \ hostRoutes :
            \E e \in kernel : e.net = net /\ (e.ifx = tun \/ e \in unsaved)

\* After a restart nothing that a manifest had recorded is left in the
\* kernel, whenever the daemon was killed, during recovery included
\* (run_at_startup deletes first and removes the manifest last).  Not so on
\* Windows, where a delete that names no interface matches no entry.
RecordedRoutesAreCleared ==
    pc = "idle" /\ tun = None /\ platform # "windows" /\ KeptTrack /\ "file" \notin faults =>
        \A e \in kernel : e \in unsaved \/ Tracked(e)

=============================================================================
