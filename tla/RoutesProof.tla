----------------------------- MODULE RoutesProof -----------------------------
(***************************************************************************)
(* The route manager and the recovery of its manifest, for every set of    *)
(* destinations, gateways and interfaces, on every platform.               *)
(***************************************************************************)
EXTENDS Routes, TLAPS

-----------------------------------------------------------------------------
(* The inductive invariant *)

\* A pass of apply() has a gateway and removes installed routes only; between
\* two passes nothing is left to delete; a clear has emptied the installed set
\* before it deletes; a daemon that recovers has no tun and has installed
\* nothing.
Passes ==
    /\ pc = "apply" => gateway # None /\ todo \subseteq installed
    /\ pc \in {"idle", "save", "wait", "dead"} => todo = {}
    /\ pc = "clear" /\ (todo # {} \/ op = "teardown") => installed = {}
    /\ pc \in {"dead", "recover"} => tun = None /\ installed = {}

\* The installed routes lead through one gateway, apart from those apply() is
\* about to remove, so no destination has two.
OneGateway ==
    /\ \A r, s \in installed : r.net = s.net => r = s
    /\ pc = "apply" => \A r \in installed \ todo : r.gw = gateway

\* An entry sits on a device that exists, or on the uplink.
OnDevice == \A e \in kernel : e.ifx \in alive \union {Uplink}

\* What the last reply asks for is installed, or about to be.
Coverage ==
    "add" \notin faults =>
        /\ pc \in {"idle", "save", "wait", "dead", "recover"} =>
              \A net \in desired : \E r \in installed : r.net = net
        /\ pc = "apply" =>
              \A net \in desired \ toAdd : [net |-> net, gw |-> gateway] \in installed \ todo
        /\ pc = "clear" /\ op = "apply" /\ gateway = None =>
              \A net \in desired : \E r \in installed : r.net = net

Control == Passes /\ OneGateway /\ OnDevice /\ Coverage /\ (fresh => tun # None)

\* The kernel deletes the entry when asked for the route.
Covers(r, e) == r.net = e.net /\ (platform # "macos" => r.gw = e.gw)

\* A delete that names this interface finds the entries of the tun.
FindsTun(ifx) == platform = "macos" \/ ifx = tun \/ (platform = "linux" /\ ifx = None)

\* The failures that lose track: a listing that fails does no harm on Linux,
\* whose deletes may leave the interface out.
OnTrack ==
    /\ "delete" \notin faults
    /\ platform # "macos" => "add" \notin faults
    /\ platform = "windows" => "list" \notin faults

\* The entry is one the manager knows of and would find.
Found(e) ==
    /\ pc \in {"idle", "save", "wait"} => Tracked(e) /\ FindsTun(installedIf)
    /\ pc = "clear" => \/ (\E r \in todo : Covers(r, e)) /\ FindsTun(deleteIf)
                       \/ Tracked(e) /\ FindsTun(installedIf)
    /\ pc = "apply" => /\ Tracked(e) /\ FindsTun(ifindex)
                       /\ todo # {} => FindsTun(deleteIf)

\* In every state, so is all that is on the live tun.
Findable == OnTrack => \A e \in kernel : e.ifx = tun => Found(e)

\* Nothing but a failed write or delete keeps a recorded entry from the
\* recovery.
Recoverable == platform # "windows" /\ OnTrack /\ "file" \notin faults

\* The present manifest names the entry, so that the daemon may be killed at
\* any time; a running daemon knows it as its own; a recovering one has yet to
\* delete it.
Kept(e) ==
    /\ manifest # None /\ \E m \in manifest : Covers(m, e)
    /\ pc \notin {"dead", "recover"} =>
          IF platform = "linux" THEN e.ifx = tun
          ELSE \E r \in installed \union (IF pc = "clear" THEN todo ELSE {}) : r.net = e.net
    /\ pc = "recover" => \E r \in todo : Covers(r, e)

\* So it is with every entry that some manifest has recorded.
Recovery == Recoverable => \A e \in kernel : e \notin unsaved => Kept(e)

\* The route is in the kernel, through the tun or through the leftover of a
\* killed daemon, or the host has its own.
Live(net) ==
    net \in hostRoutes \/ \E e \in kernel : e.net = net /\ (e.ifx = tun \/ e \in unsaved)

\* The entry is no obstacle to the routes of the tun: it is on the tun, an
\* unrecorded leftover, or about to be deleted.
Harmless(e) == e.ifx = tun \/ e \in unsaved \/ (pc = "clear" /\ \E r \in todo : r.net = e.net)

\* After CONNECTED what is installed is live, and (Windows apart, where two
\* interfaces may carry the same destination) nothing stands in its way.
AfterConnected ==
    fresh /\ faults \subseteq {"list"} =>
        /\ \A r \in installed : Live(r.net)
        /\ platform # "windows" => \A e \in kernel : Harmless(e)

-----------------------------------------------------------------------------
(* The kernel's answers *)

\* A delete removes what it matches or is a fault; it never adds an entry.
LEMMA KernelDeletes ==
    ASSUME NEW r, KernelDelete(r)
    PROVE  /\ kernel' \subseteq kernel /\ unsaved' \subseteq unsaved
           /\ faults \subseteq faults' /\ faults' \subseteq faults \union {"delete"}
           /\ \A e \in kernel' : e \in unsaved => e \in unsaved'
           /\ "delete" \in faults' \/ \A e \in kernel' : e \notin Matching(r)
           /\ \A e \in kernel : e \notin Matching(r) => e \in kernel'
           /\ hostRoutes' \subseteq hostRoutes
           /\ \A net \in hostRoutes : net # r.net => net \in hostRoutes'
  BY DEF KernelDelete, Fails, tableVars

\* An entry that survives the loss of an interface was on another one, or is
\* its macOS copy on the uplink.
LEMMA InterfaceLost ==
    ASSUME TypeOK, NEW ifx, LoseInterface(ifx)
    PROVE  /\ kernel' \subseteq Entry /\ unsaved' \subseteq Entry
           /\ alive' = alive \ {ifx} /\ hostRoutes' = hostRoutes
           /\ \A e \in kernel : e.ifx # ifx => e \in kernel'
           /\ \A e \in kernel' :
                 \/ e \in kernel /\ e.ifx # ifx /\ (e \in unsaved => e \in unsaved')
                 \/ /\ platform = "macos" /\ e.ifx = Uplink
                    /\ \E f \in kernel : /\ f.ifx = ifx /\ f.net = e.net /\ f.gw = e.gw
                                         /\ f \in unsaved => e \in unsaved'
  <1>1. PICK zombies \in SUBSET {e \in kernel : e.ifx = ifx} :
           /\ platform # "macos" => zombies = {}
           /\ kernel' = {e \in kernel : e.ifx # ifx}
                           \union {[e EXCEPT !.ifx = Uplink] : e \in kernel \intersect zombies}
           /\ unsaved' = {e \in unsaved : e.ifx # ifx}
                           \union {[e EXCEPT !.ifx = Uplink] : e \in unsaved \intersect zombies}
           /\ alive' = alive \ {ifx} /\ hostRoutes' = hostRoutes
    BY DEF LoseInterface
  <1>2. \A e \in Entry : /\ [e EXCEPT !.ifx = Uplink] \in Entry
                        /\ [e EXCEPT !.ifx = Uplink].ifx = Uplink
                        /\ [e EXCEPT !.ifx = Uplink].net = e.net
                        /\ [e EXCEPT !.ifx = Uplink].gw = e.gw
    BY DEF Entry
  <1>3. kernel \subseteq Entry /\ unsaved \subseteq Entry
    BY DEF TypeOK
  <1>4. kernel' \subseteq Entry /\ unsaved' \subseteq Entry
    BY <1>1, <1>2, <1>3
  <1>5. ASSUME NEW e \in kernel'
        PROVE  \/ e \in kernel /\ e.ifx # ifx /\ (e \in unsaved => e \in unsaved')
               \/ /\ platform = "macos" /\ e.ifx = Uplink
                  /\ \E f \in kernel : /\ f.ifx = ifx /\ f.net = e.net /\ f.gw = e.gw
                                       /\ f \in unsaved => e \in unsaved'
    <2>1. CASE e \in {g \in kernel : g.ifx # ifx}
      BY <1>1, <2>1
    <2>2. CASE e \in {[g EXCEPT !.ifx = Uplink] : g \in kernel \intersect zombies}
      <3>1. PICK f \in kernel \intersect zombies : e = [f EXCEPT !.ifx = Uplink]
        BY <2>2
      <3>2. f \in Entry /\ f.ifx = ifx
        BY <1>1, <1>3, <3>1
      <3>3. f \in unsaved => e \in unsaved'
        BY <1>1, <3>1
      <3>4. platform = "macos"
        BY <1>1, <3>1
      <3> QED
        BY <1>2, <3>1, <3>2, <3>3, <3>4
    <2> QED
      BY <1>1, <1>5, <2>1, <2>2
  <1> QED
    BY <1>1, <1>4, <1>5

\* The records the manager asks with.
LEMMA Requests ==
    ASSUME NEW net, NEW gw, NEW ifx
    PROVE  /\ BuildRoute(net, gw, ifx).net = net
           /\ BuildRoute(net, gw, ifx).ifx = ifx
           /\ BuildRoute(net, gw, ifx).gw \in {gw, None}
           /\ platform # "macos" => BuildRoute(net, gw, ifx).gw = gw
           /\ NewEntry(BuildRoute(net, gw, ifx)).net = net
           /\ NewEntry(BuildRoute(net, gw, ifx)).gw = BuildRoute(net, gw, ifx).gw
           /\ NewEntry(BuildRoute(net, gw, ifx)).ifx = tun
           /\ net \in Nets /\ gw \in Gateways /\ tun \in Interfaces
                 => NewEntry(BuildRoute(net, gw, ifx)) \in Entry
  BY DEF BuildRoute, NewEntry, Entry

-----------------------------------------------------------------------------
(* Types and control *)

\* Every action keeps the types, given that a pass of apply() has a gateway.
LEMMA TypeStep == TypeOK /\ Control /\ [Next]_vars => TypeOK'
  <1> SUFFICES ASSUME TypeOK, Control, [Next]_vars PROVE TypeOK'
    OBVIOUS
  <1> USE RoutesAssumption
  <1>1. ASSUME NEW nets \in SUBSET Nets, NEW gw \in Gateways \union {None}, Connected(nets, gw)
        PROVE TypeOK'
    BY <1>1 DEF TypeOK, Connected, Clear, tableVars
  <1>2. ASSUME NEW nets \in SUBSET Nets, NEW gw \in Gateways \union {None}, PushReply(nets, gw)
        PROVE TypeOK'
    BY <1>2 DEF TypeOK, PushReply, tableVars, deviceVars
  <1>3. CASE Teardown
    BY <1>3 DEF TypeOK, Teardown, Clear, tableVars, deviceVars
  <1>4. ASSUME NEW r \in Route, ClearOne(r) PROVE TypeOK'
    <2>1. kernel' \subseteq kernel /\ unsaved' \subseteq unsaved /\ hostRoutes' \subseteq hostRoutes
          /\ faults' \subseteq faults \union {"delete"}
      BY <1>4, KernelDeletes DEF ClearOne
    <2> QED
      BY <1>4, <2>1 DEF TypeOK, ClearOne, managerVars, deviceVars, Fault
  <1>5. ASSUME NEW r \in Route, RemoveOne(r) PROVE TypeOK'
    <2>1. kernel' \subseteq kernel /\ unsaved' \subseteq unsaved /\ hostRoutes' \subseteq hostRoutes
          /\ faults' \subseteq faults \union {"delete"}
      BY <1>5, KernelDeletes DEF RemoveOne
    <2> QED
      BY <1>5, <2>1 DEF TypeOK, RemoveOne, managerVars, deviceVars, Fault
  <1>6. ASSUME NEW r \in Route, RecoverOne(r) PROVE TypeOK'
    <2>1. kernel' \subseteq kernel /\ unsaved' \subseteq unsaved /\ hostRoutes' \subseteq hostRoutes
          /\ faults' \subseteq faults \union {"delete"}
      BY <1>6, KernelDeletes DEF RecoverOne
    <2> QED
      BY <1>6, <2>1 DEF TypeOK, RecoverOne, managerVars, deviceVars, Fault
  <1>7. CASE Resolve
    BY <1>7 DEF TypeOK, Resolve, Fails, ToRemove, ToAdd, managerVars, tableVars, deviceVars, Fault
  <1>8. CASE SkipRoutes
    BY <1>8 DEF TypeOK, SkipRoutes, managerVars, jobVars, tableVars, deviceVars
  <1>9. ASSUME NEW net \in Nets, AddOne(net) PROVE TypeOK'
    <2>1. gateway \in Gateways
      BY <1>9 DEF AddOne, Control, Passes, TypeOK
    <2>2. kernel' \subseteq Entry /\ unsaved' \subseteq Entry /\ hostRoutes' = hostRoutes
      <3>1. CASE UNCHANGED tableVars
        BY <3>1 DEF tableVars, TypeOK
      <3>2. CASE ~UNCHANGED tableVars
        <4>1. /\ Installable(BuildRoute(net, gateway, ifindex))
              /\ kernel' = kernel \union {NewEntry(BuildRoute(net, gateway, ifindex))}
              /\ unsaved' = unsaved \union {NewEntry(BuildRoute(net, gateway, ifindex))}
              /\ UNCHANGED hostRoutes
          BY <1>9, <3>2 DEF AddOne, AddSucceeds, AddFails, tableVars
        <4>2. tun \in Interfaces
          BY <4>1 DEF Installable, TypeOK
        <4> QED
          BY <2>1, <4>1, <4>2, Requests DEF TypeOK
      <3> QED
        BY <3>1, <3>2
    <2>3. installed' \subseteq Route
      BY <1>9, <2>1 DEF AddOne, AddSucceeds, AddFails, TypeOK, Route
    <2>4. toAdd' \subseteq Nets /\ faults' \subseteq Fault /\ installedIf' = installedIf
          /\ pc' \in {pc, "save"}
      BY <1>9 DEF AddOne, AddSucceeds, AddFails, TypeOK, Fails, Fault
    <2> QED
      BY <1>9, <2>2, <2>3, <2>4 DEF TypeOK, AddOne, deviceVars
  <1>10. CASE Applied
    BY <1>10 DEF TypeOK, Applied, jobVars, tableVars, deviceVars
  <1>11. CASE SaveManifest
    BY <1>11 DEF TypeOK, SaveManifest, Fails, managerVars, deviceVars, Fault
  <1>12. CASE RemoveManifest
    BY <1>12 DEF TypeOK, RemoveManifest, Fails, managerVars, tableVars, deviceVars, Fault
  <1>13. CASE TunUp
    BY <1>13 DEF TypeOK, TunUp, managerVars, jobVars, tableVars
  <1>14. CASE TunLost
    <2>1. PICK ifx \in alive : LoseInterface(ifx) /\ tun' = IF ifx = tun THEN None ELSE tun
      BY <1>14 DEF TunLost
    <2>2. /\ kernel' \subseteq Entry /\ unsaved' \subseteq Entry /\ alive' = alive \ {ifx}
          /\ hostRoutes' = hostRoutes
      BY <2>1, InterfaceLost
    <2> QED
      BY <1>14, <2>1, <2>2 DEF TypeOK, TunLost, managerVars, jobVars
  <1>15. CASE OpenVpnGone
    <2>1. /\ kernel' \subseteq Entry /\ unsaved' \subseteq Entry /\ alive' \subseteq alive
          /\ hostRoutes' = hostRoutes
      BY <1>15, InterfaceLost DEF OpenVpnGone, tableVars, TypeOK
    <2> QED
      BY <1>15, <2>1 DEF TypeOK, OpenVpnGone, managerVars, jobVars
  <1>16. CASE Crash
    BY <1>16 DEF TypeOK, Crash, tableVars
  <1>17. CASE Start
    BY <1>17 DEF TypeOK, Start, managerVars, tableVars, deviceVars
  <1>18. CASE NoHandle
    BY <1>18 DEF TypeOK, NoHandle, Fails, managerVars, tableVars, deviceVars, Fault
  <1>19. CASE Recovered
    BY <1>19 DEF TypeOK, Recovered, Fails, managerVars, jobVars, tableVars, deviceVars, Fault
  <1>20. CASE UNCHANGED vars
    BY <1>20 DEF TypeOK, vars, managerVars, jobVars, tableVars, deviceVars
  <1>21. CASE HostMoves
    BY <1>21 DEF TypeOK, HostMoves, managerVars, jobVars
  <1> QED
    BY <1>1, <1>2, <1>3, <1>4, <1>5, <1>6, <1>7, <1>8, <1>9, <1>10, <1>11, <1>12, <1>13, <1>14,
       <1>15, <1>16, <1>17, <1>18, <1>19, <1>20, <1>21 DEF Next

\* Every action keeps the control facts.
LEMMA ControlStep == TypeOK /\ Control /\ [Next]_vars => Control'
  <1> SUFFICES ASSUME TypeOK, Control, [Next]_vars PROVE Control'
    OBVIOUS
  <1> USE RoutesAssumption DEF Passes, OneGateway, OnDevice, Coverage
  <1>1. ASSUME NEW nets \in SUBSET Nets, NEW gw \in Gateways \union {None}, Connected(nets, gw)
        PROVE Control'
    BY <1>1 DEF Control, Connected, Clear, tableVars
  <1>2. ASSUME NEW nets \in SUBSET Nets, NEW gw \in Gateways \union {None}, PushReply(nets, gw)
        PROVE Control'
    BY <1>2 DEF Control, PushReply, tableVars, deviceVars
  <1>3. CASE Teardown
    BY <1>3 DEF Control, Teardown, Clear, tableVars, deviceVars
  <1>4. ASSUME NEW r \in Route, ClearOne(r) PROVE Control'
    <2>1. kernel' \subseteq kernel /\ faults \subseteq faults'
      BY <1>4, KernelDeletes DEF ClearOne
    <2> QED
      BY <1>4, <2>1 DEF Control, ClearOne, managerVars, deviceVars
  <1>5. ASSUME NEW r \in Route, RemoveOne(r) PROVE Control'
    <2>1. kernel' \subseteq kernel /\ faults \subseteq faults'
      BY <1>5, KernelDeletes DEF RemoveOne
    <2> QED
      BY <1>5, <2>1 DEF Control, RemoveOne, deviceVars
  <1>6. ASSUME NEW r \in Route, RecoverOne(r) PROVE Control'
    <2>1. kernel' \subseteq kernel /\ faults \subseteq faults'
      BY <1>6, KernelDeletes DEF RecoverOne
    <2> QED
      BY <1>6, <2>1 DEF Control, RecoverOne, managerVars, deviceVars
  <1>7. CASE Resolve
    BY <1>7 DEF Control, Resolve, Fails, ToRemove, ToAdd, managerVars, tableVars, deviceVars
  <1>8. CASE SkipRoutes
    BY <1>8 DEF Control, SkipRoutes, managerVars, jobVars, tableVars, deviceVars
  <1>9. ASSUME NEW net \in Nets, AddOne(net) PROVE Control'
    <2>1. OnDevice'
      BY <1>9, Requests DEF Control, TypeOK, AddOne, AddSucceeds, AddFails, Installable, tableVars, deviceVars
    <2>2. CASE AddSucceeds(net)
      <3>1. /\ pc = "apply" /\ pc' = "apply" /\ todo = {} /\ todo' = {}
            /\ installed' = installed \union {[net |-> net, gw |-> gateway]}
            /\ toAdd' = toAdd \ {net}
            /\ UNCHANGED <<op, desired, gateway, fresh, tun, faults>>
        BY <1>9, <2>2 DEF AddOne, AddSucceeds, deviceVars
      <3>2. OneGateway'
        <4> DEFINE new == [net |-> net, gw |-> gateway]
        <4>1. new.net = net /\ new.gw = gateway /\ \A r \in installed : r.gw = gateway
          BY <3>1 DEF Control
        <4>2. \A r \in installed : r.net = net => r = new
          BY <4>1 DEF TypeOK, Route
        <4> QED
          BY <3>1, <4>1, <4>2 DEF Control
      <3>3. Coverage'
        BY <3>1 DEF Control
      <3> QED
        BY <2>1, <3>1, <3>2, <3>3 DEF Control
    <2>3. CASE AddFails
      BY <1>9, <2>1, <2>3 DEF Control, TypeOK, AddOne, AddFails, Fails, deviceVars
    <2> QED
      BY <1>9, <2>2, <2>3 DEF AddOne
  <1>10. CASE Applied
    <2>1. "add" \notin faults => \A net \in desired : \E r \in installed : r.net = net
      <3> SUFFICES ASSUME "add" \notin faults, NEW net \in desired
                   PROVE  \E r \in installed : r.net = net
        OBVIOUS
      <3>1. [net |-> net, gw |-> gateway] \in installed
        BY <1>10 DEF Control, Applied
      <3> QED
        BY <3>1
    <2> QED
      BY <1>10, <2>1 DEF Control, Applied, jobVars, tableVars, deviceVars
  <1>11. CASE SaveManifest
    BY <1>11 DEF Control, SaveManifest, Fails, managerVars, deviceVars
  <1>12. CASE RemoveManifest
    BY <1>12 DEF Control, RemoveManifest, Fails, managerVars, tableVars, deviceVars
  <1>13. CASE TunUp
    BY <1>13 DEF Control, TunUp, managerVars, jobVars, tableVars
  <1>14. CASE TunLost
    <2>1. PICK ifx \in alive : LoseInterface(ifx) /\ tun' = IF ifx = tun THEN None ELSE tun
      BY <1>14 DEF TunLost
    <2>2. OnDevice'
      BY <2>1, InterfaceLost DEF Control
    <2> QED
      BY <1>14, <2>1, <2>2 DEF Control, TunLost, managerVars, jobVars
  <1>15. CASE OpenVpnGone
    <2>1. OnDevice'
      BY <1>15, InterfaceLost DEF Control, OpenVpnGone, tableVars
    <2> QED
      BY <1>15, <2>1 DEF Control, OpenVpnGone, managerVars, jobVars
  <1>16. CASE Crash
    BY <1>16 DEF Control, Crash, tableVars
  <1>17. CASE Start
    BY <1>17 DEF Control, Start, managerVars, tableVars, deviceVars
  <1>18. CASE NoHandle
    BY <1>18 DEF Control, NoHandle, Fails, managerVars, tableVars, deviceVars
  <1>19. CASE Recovered
    BY <1>19 DEF Control, Recovered, Fails, managerVars, jobVars, tableVars, deviceVars
  <1>20. CASE UNCHANGED vars
    BY <1>20 DEF Control, vars, managerVars, jobVars, tableVars, deviceVars
  <1>21. CASE HostMoves
    BY <1>21 DEF Control, HostMoves, managerVars, jobVars
  <1> QED
    BY <1>1, <1>2, <1>3, <1>4, <1>5, <1>6, <1>7, <1>8, <1>9, <1>10, <1>11, <1>12, <1>13, <1>14,
       <1>15, <1>16, <1>17, <1>18, <1>19, <1>20, <1>21 DEF Next

\* They hold at the start.
LEMMA InitControl == Init => TypeOK /\ Control
  BY RoutesAssumption DEF Init, TypeOK, Control, Passes, OneGateway, OnDevice, Coverage

\* Every variable keeps its type: the manager never holds a route without a
\* gateway, and what it puts in the kernel is on a tun device.
THEOREM TypeCorrect == Spec => []TypeOK
  <1>1. TypeOK /\ Control /\ [Next]_vars => TypeOK' /\ Control'
    BY TypeStep, ControlStep
  <1> QED
    BY <1>1, InitControl, PTL DEF Spec

-----------------------------------------------------------------------------
(* No stale route *)

\* A fault is never forgotten, so a state on track was always on track.
LEMMA FaultsGrow ==
    ASSUME [Next]_vars
    PROVE  /\ platform' = platform /\ faults \subseteq faults'
           /\ OnTrack' => OnTrack
  <1>1. platform' = platform /\ faults \subseteq faults'
    BY KernelDeletes
       DEF Next, vars, Connected, Clear, PushReply, Teardown, ClearOne, RemoveOne, RecoverOne, Resolve,
           SkipRoutes, AddOne, AddSucceeds, AddFails, Applied, SaveManifest, RemoveManifest, TunUp,
           TunLost, HostMoves, OpenVpnGone, Crash, Start, NoHandle, Recovered, Fails
  <1> QED
    BY <1>1 DEF OnTrack

\* A delete that names what a covering route was added with removes the entry.
LEMMA DeleteFinds ==
    ASSUME NEW r, NEW ifx, NEW e \in kernel, Covers(r, e), e.ifx = tun, FindsTun(ifx)
    PROVE  e \in Matching(BuildRoute(r.net, r.gw, ifx))
  BY Requests DEF Covers, FindsTun, Matching

\* Every action keeps the entries of the live tun within the manager's reach.
LEMMA FindableStep == TypeOK /\ Control /\ Findable /\ [Next]_vars => Findable'
  <1> SUFFICES ASSUME TypeOK, Control, Findable, [Next]_vars, OnTrack',
                      NEW e \in kernel', e.ifx = tun'
               PROVE  Found(e)'
    BY DEF Findable
  <1>a. /\ platform' = platform /\ OnTrack /\ tun' # None /\ tun' # Uplink
    <2>1. TypeOK' 
      BY TypeStep
    <2> QED
      BY <2>1, FaultsGrow, RoutesAssumption DEF TypeOK, Entry
  <1>b. e \in kernel /\ e.ifx = tun => Found(e)
    BY <1>a DEF Findable
  <1> USE <1>a, <1>b DEF Found, Tracked, Covers, FindsTun
  <1>1. ASSUME NEW nets \in SUBSET Nets, NEW gw \in Gateways \union {None}, Connected(nets, gw)
        PROVE Found(e)'
    BY <1>1 DEF Connected, Clear, tableVars
  <1>2. ASSUME NEW nets \in SUBSET Nets, NEW gw \in Gateways \union {None}, PushReply(nets, gw)
        PROVE Found(e)'
    BY <1>2 DEF PushReply, tableVars, deviceVars
  <1>3. CASE Teardown
    BY <1>3 DEF Teardown, Clear, tableVars, deviceVars
  <1>4. ASSUME NEW r \in Route, ClearOne(r) PROVE Found(e)'
    <2>1. /\ pc = "clear" /\ r \in todo /\ todo' = todo \ {r}
          /\ UNCHANGED <<pc, installed, installedIf, deleteIf, tun>>
      BY <1>4 DEF ClearOne, managerVars, deviceVars
    <2>2. e \in kernel /\ e \notin Matching(BuildRoute(r.net, r.gw, deleteIf))
      BY <1>4, KernelDeletes DEF ClearOne, OnTrack
    <2>3. ~(Covers(r, e) /\ FindsTun(deleteIf))
      BY <2>1, <2>2, DeleteFinds
    <2> QED
      BY <2>1, <2>2, <2>3
  <1>5. ASSUME NEW r \in Route, RemoveOne(r) PROVE Found(e)'
    <2>1. /\ pc = "apply" /\ r \in todo /\ todo' = todo \ {r} /\ installed' = installed \ {r}
          /\ UNCHANGED <<pc, installedIf, ifindex, deleteIf, tun>>
      BY <1>5 DEF RemoveOne, deviceVars
    <2>2. e \in kernel /\ e \notin Matching(BuildRoute(r.net, r.gw, deleteIf))
      BY <1>5, KernelDeletes DEF RemoveOne, OnTrack, DeleteGateway
    <2>3. ~(Covers(r, e) /\ FindsTun(deleteIf))
      BY <2>1, <2>2, DeleteFinds
    <2> QED
      BY <2>1, <2>2, <2>3
  <1>6. ASSUME NEW r \in Route, RecoverOne(r) PROVE Found(e)'
    BY <1>6 DEF RecoverOne, deviceVars
  <1>7. CASE Resolve
    <2>1. /\ pc = "clear" /\ todo = {} /\ pc' = "apply" /\ deleteIf' = installedIf
          /\ ifindex' = tun \/ (ifindex' = None /\ "list" \in faults')
          /\ UNCHANGED <<installed, kernel, tun>>
      BY <1>7 DEF Resolve, Fails, managerVars, tableVars, deviceVars
    <2>2. Tracked(e) /\ FindsTun(installedIf)
      BY <2>1
    <2>3. FindsTun(ifindex)'
      <3>1. platform \in {"linux", "macos", "windows"}
        BY RoutesAssumption DEF TypeOK
      <3> QED
        BY <2>1, <3>1 DEF OnTrack
    <2> QED
      BY <2>1, <2>2, <2>3
  <1>8. CASE SkipRoutes
    BY <1>8 DEF SkipRoutes, managerVars, jobVars, tableVars, deviceVars
  <1>9. ASSUME NEW net \in Nets, AddOne(net) PROVE Found(e)'
    <2>1. pc = "apply" /\ todo = {} /\ UNCHANGED <<tun, todo, ifindex, deleteIf>>
      BY <1>9 DEF AddOne, deviceVars
    <2>2. CASE AddFails
      BY <2>1, <2>2 DEF AddFails, Fails, OnTrack, tableVars
    <2>3. CASE AddSucceeds(net)
      <3>1. /\ UNCHANGED <<pc, installedIf>>
            /\ installed' = installed \union {[net |-> net, gw |-> gateway]}
        BY <2>3 DEF AddSucceeds
      <3>2. CASE e \in kernel
        BY <2>1, <3>1, <3>2
      <3>3. CASE e \notin kernel
        <4> DEFINE r == BuildRoute(net, gateway, ifindex)
        <4>1. e = NewEntry(r) /\ Installable(r)
          BY <2>3, <3>3 DEF AddSucceeds, tableVars
        <4>2. e.net = net /\ (platform # "macos" => e.gw = gateway) /\ r.ifx = ifindex
          BY <4>1, Requests
        <4>3. FindsTun(ifindex)
          <5>1. platform \in {"linux", "macos", "windows"}
            BY RoutesAssumption DEF TypeOK
          <5> QED
            BY <4>1, <4>2, <5>1 DEF Installable
        <4>4. [net |-> net, gw |-> gateway] \in installed'
          BY <3>1
        <4>5. Tracked(e)'
          BY <4>2, <4>4
        <4> QED
          BY <2>1, <3>1, <4>3, <4>5
      <3> QED
        BY <3>2, <3>3
    <2> QED
      BY <1>9, <2>2, <2>3 DEF AddOne
  <1>10. CASE Applied
    BY <1>10 DEF Applied, jobVars, tableVars, deviceVars
  <1>11. CASE SaveManifest
    BY <1>11 DEF SaveManifest, managerVars, deviceVars
  <1>12. CASE RemoveManifest
    BY <1>12 DEF RemoveManifest, managerVars, tableVars, deviceVars
  <1>13. CASE TunUp
    BY <1>13 DEF TunUp, tableVars, Control, OnDevice
  <1>14. CASE TunLost
    <2>1. PICK ifx \in alive : LoseInterface(ifx) /\ tun' = IF ifx = tun THEN None ELSE tun
      BY <1>14 DEF TunLost
    <2>2. e \in kernel
      BY <2>1, InterfaceLost
    <2> QED
      BY <1>14, <2>1, <2>2 DEF TunLost, managerVars, jobVars
  <1>15. CASE OpenVpnGone
    BY <1>15 DEF OpenVpnGone
  <1>16. CASE Crash
    BY <1>16 DEF Crash
  <1>17. CASE Start
    BY <1>17 DEF Start
  <1>18. CASE NoHandle
    BY <1>18 DEF NoHandle
  <1>19. CASE Recovered
    BY <1>19 DEF Recovered, deviceVars, Control, Passes
  <1>20. CASE UNCHANGED vars
    BY <1>20 DEF vars, managerVars, jobVars, tableVars, deviceVars
  <1>21. CASE HostMoves
    BY <1>21 DEF HostMoves, managerVars, jobVars
  <1> QED
    BY <1>1, <1>2, <1>3, <1>4, <1>5, <1>6, <1>7, <1>8, <1>9, <1>10, <1>11, <1>12, <1>13, <1>14,
       <1>15, <1>16, <1>17, <1>18, <1>19, <1>20, <1>21 DEF Next

\* Between two operations the live tun carries no route the manager does not
\* know of: apply's deletes use the gateway and the interface the route was
\* added with, whatever tun recreation or crash came in between.
THEOREM NoStaleRouteCorrect == Spec => []NoStaleRoute
  <1>1. Init => Findable
    BY DEF Init, Findable
  <1>2. TypeOK /\ Control /\ Findable /\ [Next]_vars => TypeOK' /\ Control' /\ Findable'
    BY TypeStep, ControlStep, FindableStep
  <1>3. Findable => NoStaleRoute
    BY DEF Findable, Found, NoStaleRoute, KeptTrack, OnTrack
  <1> QED
    BY <1>1, <1>2, <1>3, InitControl, PTL DEF Spec

-----------------------------------------------------------------------------
(* Recovery *)

\* Every action keeps the recorded entries within the recovery's reach.
LEMMA RecoveryStep == TypeOK /\ Control /\ Findable /\ Recovery /\ [Next]_vars => Recovery'
  <1> SUFFICES ASSUME TypeOK, Control, Findable, Recovery, [Next]_vars, Recoverable',
                      NEW e \in kernel', e \notin unsaved'
               PROVE  Kept(e)'
    BY DEF Recovery
  <1>a. /\ platform' = platform /\ platform \in {"linux", "macos"}
        /\ Recoverable /\ "delete" \notin faults' /\ "file" \notin faults'
    BY FaultsGrow, RoutesAssumption DEF Recoverable, OnTrack, TypeOK
  <1>b. e \in kernel /\ e \notin unsaved => Kept(e)
    BY <1>a DEF Recovery
  <1>c. e \in kernel => e.ifx # None /\ (e.ifx = tun => Found(e))
    BY <1>a, RoutesAssumption DEF TypeOK, Entry, Findable, Recoverable
  <1> USE <1>a, <1>b DEF Kept, Covers
  <1>1. ASSUME NEW nets \in SUBSET Nets, NEW gw \in Gateways \union {None}, Connected(nets, gw)
        PROVE Kept(e)'
    BY <1>1 DEF Connected, Clear, tableVars
  <1>2. ASSUME NEW nets \in SUBSET Nets, NEW gw \in Gateways \union {None}, PushReply(nets, gw)
        PROVE Kept(e)'
    BY <1>2 DEF PushReply, tableVars, deviceVars
  <1>3. CASE Teardown
    BY <1>3 DEF Teardown, Clear, tableVars, deviceVars
  <1>4. ASSUME NEW r \in Route, ClearOne(r) PROVE Kept(e)'
    <2>1. /\ pc = "clear" /\ todo' = todo \ {r} /\ UNCHANGED <<pc, installed, manifest, tun>>
      BY <1>4 DEF ClearOne, managerVars, deviceVars
    <2>2. /\ e \in kernel /\ e \notin unsaved
          /\ e \notin Matching(BuildRoute(r.net, r.gw, deleteIf))
      BY <1>4, KernelDeletes DEF ClearOne
    <2>3. platform = "macos" => e.net # r.net
      BY <2>2, Requests DEF Matching
    <2> QED
      BY <2>1, <2>2, <2>3
  <1>5. ASSUME NEW r \in Route, RemoveOne(r) PROVE Kept(e)'
    <2>1. pc = "apply" /\ installed' = installed \ {r} /\ UNCHANGED <<pc, manifest, tun>>
      BY <1>5 DEF RemoveOne, deviceVars
    <2>2. /\ e \in kernel /\ e \notin unsaved
          /\ e \notin Matching(BuildRoute(r.net, r.gw, deleteIf))
      BY <1>5, KernelDeletes DEF RemoveOne, DeleteGateway
    <2>3. platform = "macos" => e.net # r.net
      BY <2>2, Requests DEF Matching
    <2> QED
      BY <2>1, <2>2, <2>3
  <1>6. ASSUME NEW r \in Route, RecoverOne(r) PROVE Kept(e)'
    <2>1. pc = "recover" /\ todo' = todo \ {r} /\ UNCHANGED <<pc, manifest>>
      BY <1>6 DEF RecoverOne
    <2>2. /\ e \in kernel /\ e \notin unsaved
          /\ e \notin Matching([net |-> r.net, gw |-> r.gw, ifx |-> None])
      BY <1>6, KernelDeletes DEF RecoverOne
    <2>3. ~Covers(r, e)
      BY <2>2 DEF Matching
    <2> QED
      BY <2>1, <2>2, <2>3
  <1>7. CASE Resolve
    BY <1>7 DEF Resolve, managerVars, tableVars, deviceVars
  <1>8. CASE SkipRoutes
    BY <1>8 DEF SkipRoutes, managerVars, jobVars, tableVars, deviceVars
  <1>9. ASSUME NEW net \in Nets, AddOne(net) PROVE Kept(e)'
    <2>1. /\ pc = "apply" /\ pc' \in {"apply", "save"} /\ installed \subseteq installed'
          /\ UNCHANGED <<manifest, tun>>
      BY <1>9 DEF AddOne, AddSucceeds, AddFails, deviceVars
    <2>2. e \in kernel /\ e \notin unsaved
      BY <1>9 DEF AddOne, AddSucceeds, AddFails, tableVars
    <2> QED
      BY <2>1, <2>2
  <1>10. CASE Applied
    BY <1>10 DEF Applied, jobVars, tableVars, deviceVars
  <1>11. CASE SaveManifest
    <2>1. /\ pc = "save" /\ pc' = "idle" /\ manifest' = installed /\ e \in kernel
          /\ e \notin unsaved \/ e \in Recorded
          /\ UNCHANGED <<installed, tun>>
      BY <1>11 DEF SaveManifest, Fails, managerVars, deviceVars
    <2>2. installed # None
      BY RoutesAssumption DEF TypeOK, Route
    <2>3. \E r \in installed : Covers(r, e)
      BY <1>c, <2>1 DEF Found, Tracked, Recorded
    <2>4. platform = "linux" => e.ifx = tun
      BY <2>1 DEF Recorded
    <2> QED
      BY <2>1, <2>2, <2>3, <2>4
  <1>12. CASE RemoveManifest
    <2>1. pc = "clear" /\ todo = {} /\ installed = {} /\ e \in kernel /\ e \notin unsaved
      BY <1>12 DEF RemoveManifest, tableVars, Control, Passes
    <2> QED
      BY <1>c, <2>1 DEF Found, Tracked
  <1>13. CASE TunUp
    BY <1>c, <1>13 DEF TunUp, managerVars, jobVars, tableVars
  <1>14. CASE TunLost
    <2>1. PICK ifx \in alive : LoseInterface(ifx) /\ tun' = IF ifx = tun THEN None ELSE tun
      BY <1>14 DEF TunLost
    <2>2. UNCHANGED <<pc, installed, todo, manifest>>
      BY <1>14 DEF TunLost, managerVars, jobVars
    <2>3. CASE e \in kernel /\ e.ifx # ifx /\ e \notin unsaved
      BY <2>1, <2>2, <2>3
    <2>4. ASSUME NEW f \in kernel, platform = "macos", f.net = e.net, f.gw = e.gw, f \notin unsaved
          PROVE  Kept(e)'
      <3>1. Kept(f)
        BY <2>4 DEF Recovery
      <3> QED
        BY <2>2, <2>4, <3>1
    <2> QED
      BY <2>1, <2>3, <2>4, InterfaceLost
  <1>15. CASE OpenVpnGone
    <2>1. pc = "wait" /\ pc' = "idle" /\ UNCHANGED <<installed, todo, manifest>>
      BY <1>15 DEF OpenVpnGone, managerVars, jobVars
    <2>2. CASE tun = None
      BY <1>c, <1>15, <2>1, <2>2 DEF OpenVpnGone, tableVars
    <2>3. CASE tun # None
      <3>1. LoseInterface(tun)
        BY <1>15, <2>3 DEF OpenVpnGone
      <3>2. CASE e \in kernel /\ e.ifx # tun /\ e \notin unsaved
        BY <2>1, <3>2
      <3>3. ASSUME NEW f \in kernel, platform = "macos", f.net = e.net, f.gw = e.gw, f \notin unsaved
            PROVE  Kept(e)'
        <4>1. Kept(f)
          BY <3>3 DEF Recovery
        <4> QED
          BY <2>1, <3>3, <4>1
      <3> QED
        BY <3>1, <3>2, <3>3, InterfaceLost
    <2> QED
      BY <2>2, <2>3
  <1>16. CASE Crash
    BY <1>16 DEF Crash, tableVars
  <1>17. CASE Start
    BY <1>17 DEF Start, tableVars
  <1>18. CASE NoHandle
    BY <1>18 DEF NoHandle, Fails
  <1>19. CASE Recovered
    BY <1>19 DEF Recovered, tableVars
  <1>20. CASE UNCHANGED vars
    BY <1>20 DEF vars, managerVars, jobVars, tableVars, deviceVars
  <1>21. CASE HostMoves
    BY <1>21 DEF HostMoves, managerVars, jobVars
  <1> QED
    BY <1>1, <1>2, <1>3, <1>4, <1>5, <1>6, <1>7, <1>8, <1>9, <1>10, <1>11, <1>12, <1>13, <1>14,
       <1>15, <1>16, <1>17, <1>18, <1>19, <1>20, <1>21 DEF Next

\* The inductive invariant of the recovery.
LEMMA RecoveryHolds == Spec => [](TypeOK /\ Control /\ Findable /\ Recovery)
  <1>1. Init => Findable /\ Recovery
    BY DEF Init, Findable, Recovery
  <1>2. TypeOK /\ Control /\ Findable /\ Recovery /\ [Next]_vars
            => TypeOK' /\ Control' /\ Findable' /\ Recovery'
    BY TypeStep, ControlStep, FindableStep, RecoveryStep
  <1> QED
    BY <1>1, <1>2, InitControl, PTL DEF Spec

\* run_at_startup deletes what the manifest names before it removes the
\* manifest, and record_cleanup_manifest only ever replaces a manifest by one
\* that names as much: whenever the daemon is killed, the restart clears
\* every route that some manifest had recorded.
THEOREM RecoveryCorrect == Spec => []RecordedRoutesAreCleared
  <1>1. TypeOK /\ Recovery => RecordedRoutesAreCleared
    <2> SUFFICES ASSUME TypeOK, Recovery, pc = "idle", tun = None, platform # "windows", KeptTrack,
                        "file" \notin faults, NEW e \in kernel, e \notin unsaved
                 PROVE  Tracked(e)
      BY DEF RecordedRoutesAreCleared
    <2>1. Kept(e)
      BY DEF Recovery, Recoverable, KeptTrack, OnTrack
    <2>2. e.ifx # None /\ platform \in {"linux", "macos"}
      BY RoutesAssumption DEF TypeOK, Entry
    <2> QED
      BY <2>1, <2>2 DEF Kept, Tracked
  <1> QED
    BY <1>1, RecoveryHolds, PTL

-----------------------------------------------------------------------------
(* The routes of a connected tunnel *)

\* Every action keeps the installed routes of a connected tunnel live.
LEMMA AfterConnectedStep ==
    TypeOK /\ Control /\ Recovery /\ AfterConnected /\ [Next]_vars => AfterConnected'
  <1> DEFINE Clean == platform # "windows" => \A e \in kernel : Harmless(e)
             InstalledLive == \A r \in installed : Live(r.net)
  <1> SUFFICES ASSUME TypeOK, Control, Recovery, AfterConnected, [Next]_vars,
                      fresh', (faults \subseteq {"list"})'
               PROVE  InstalledLive' /\ Clean'
    BY DEF AfterConnected, Harmless
  <1>a. /\ platform' = platform /\ platform \in {"linux", "macos", "windows"}
        /\ faults \subseteq {"list"} /\ "delete" \notin faults'
    BY FaultsGrow, RoutesAssumption DEF TypeOK
  <1>b. fresh => InstalledLive /\ Clean
    BY <1>a DEF AfterConnected, Harmless
  <1>c. ASSUME platform # "windows", NEW e \in kernel, e \notin unsaved PROVE Kept(e)
    BY <1>a, <1>c DEF Recovery, Recoverable, OnTrack
  <1>d. fresh => tun # None
    BY DEF Control
  <1> USE <1>a, <1>b DEF Live, Harmless
  <1>1. ASSUME NEW nets \in SUBSET Nets, NEW gw \in Gateways \union {None}, Connected(nets, gw)
        PROVE InstalledLive' /\ Clean'
    BY <1>1, <1>c DEF Connected, Clear, tableVars, Kept
  <1>2. ASSUME NEW nets \in SUBSET Nets, NEW gw \in Gateways \union {None}, PushReply(nets, gw)
        PROVE InstalledLive' /\ Clean'
    BY <1>2 DEF PushReply, tableVars, deviceVars
  <1>3. CASE Teardown
    BY <1>3 DEF Teardown, Clear, tableVars, deviceVars
  <1>4. ASSUME NEW r \in Route, ClearOne(r) PROVE InstalledLive' /\ Clean'
    <2>1. /\ pc = "clear" /\ r \in todo /\ todo' = todo \ {r} /\ installed' = {}
          /\ fresh /\ UNCHANGED <<pc, tun>>
      BY <1>4 DEF ClearOne, managerVars, deviceVars, Control, Passes
    <2>2. \A e \in kernel' : /\ e \in kernel /\ (e \notin unsaved' => e \notin unsaved)
                             /\ e \notin Matching(BuildRoute(r.net, r.gw, deleteIf))
      BY <1>4, KernelDeletes DEF ClearOne
    <2>3. platform = "macos" => \A e \in kernel' : e.net # r.net
      BY <2>2, Requests DEF Matching
    <2>4. platform = "linux" => \A e \in kernel' : e \notin unsaved' => e.ifx = tun
      BY <1>c, <2>1, <2>2 DEF Kept
    <2> QED
      BY <2>1, <2>2, <2>3, <2>4
  <1>5. ASSUME NEW r \in Route, RemoveOne(r) PROVE InstalledLive' /\ Clean'
    <2>1. /\ pc = "apply" /\ r \in todo /\ installed' = installed \ {r}
          /\ fresh /\ UNCHANGED <<pc, tun>>
      BY <1>5 DEF RemoveOne, deviceVars
    <2>2. /\ kernel' \subseteq kernel /\ \A e \in kernel' : e \in unsaved => e \in unsaved'
          /\ \A e \in kernel :
                e \notin Matching(BuildRoute(r.net, DeleteGateway(r), deleteIf)) => e \in kernel'
          /\ \A net \in hostRoutes : net # r.net => net \in hostRoutes'
      BY <1>5, KernelDeletes, Requests DEF RemoveOne
    <2>3. \A e \in kernel : e.net # r.net => e \in kernel'
      BY <2>2, Requests DEF Matching
    <2>4. \A s \in installed' : s.net # r.net
      BY <2>1 DEF Control, Passes, OneGateway
    <2> QED
      BY <2>1, <2>2, <2>3, <2>4
  <1>6. ASSUME NEW r \in Route, RecoverOne(r) PROVE FALSE
    BY <1>6, <1>d DEF RecoverOne, deviceVars, Control, Passes
  <1>7. CASE Resolve
    BY <1>7 DEF Resolve, managerVars, tableVars, deviceVars
  <1>8. CASE SkipRoutes
    BY <1>8 DEF SkipRoutes, managerVars, jobVars, tableVars, deviceVars
  <1>9. ASSUME NEW net \in Nets, AddOne(net) PROVE InstalledLive' /\ Clean'
    <2> DEFINE r == BuildRoute(net, gateway, ifindex)
    <2>1. /\ pc = "apply" /\ pc' = "apply" /\ fresh /\ UNCHANGED tun
          /\ installed' = installed \union {[net |-> net, gw |-> gateway]}
          /\ UNCHANGED hostRoutes
          /\ \/ Duplicate(r) /\ UNCHANGED <<kernel, unsaved>>
             \/ kernel' = kernel \union {NewEntry(r)} /\ unsaved' = unsaved \union {NewEntry(r)}
      BY <1>9 DEF AddOne, AddSucceeds, AddFails, Fails, tableVars, deviceVars
    <2>2. NewEntry(r).net = net /\ NewEntry(r).ifx = tun
      BY Requests
    <2>3. Live(net)'
      <3>1. CASE Duplicate(r) /\ UNCHANGED <<kernel, unsaved>>
        <4>1. CASE r.net \in hostRoutes
          BY <2>1, <4>1, Requests
        <4>2. CASE r.net \notin hostRoutes
          <5>1. PICK e \in kernel : IF platform = "windows" THEN e = NewEntry(r) ELSE e.net = r.net
            BY <3>1, <4>2 DEF Duplicate
          <5>2. e.net = net /\ (platform = "windows" => e.ifx = tun)
            BY <5>1, <2>2, Requests
          <5> QED
            BY <2>1, <3>1, <5>2
        <4> QED
          BY <4>1, <4>2
      <3>2. CASE kernel' = kernel \union {NewEntry(r)}
        BY <2>1, <2>2, <3>2
      <3> QED
        BY <2>1, <3>1, <3>2
    <2>4. Clean'
      BY <2>1, <2>2
    <2>5. \A s \in installed : Live(s.net)'
      BY <2>1
    <2> QED
      BY <2>1, <2>3, <2>4, <2>5
  <1>10. CASE Applied
    BY <1>10 DEF Applied, jobVars, tableVars, deviceVars
  <1>11. CASE SaveManifest
    BY <1>11 DEF SaveManifest, Recorded, managerVars, deviceVars
  <1>12. CASE RemoveManifest
    BY <1>12 DEF RemoveManifest, managerVars, tableVars, deviceVars
  <1>13. CASE TunUp
    BY <1>13, <1>d DEF TunUp
  <1>14. CASE TunLost \/ HostMoves \/ OpenVpnGone \/ Crash
    BY <1>14 DEF TunLost, HostMoves, OpenVpnGone, Crash
  <1>15. CASE Start \/ NoHandle \/ Recovered
    BY <1>15, <1>d DEF Start, NoHandle, Recovered, deviceVars, Control, Passes
  <1>16. CASE UNCHANGED vars
    BY <1>16 DEF vars, managerVars, jobVars, tableVars, deviceVars
  <1> QED
    BY <1>1, <1>2, <1>3, <1>4, <1>5, <1>6, <1>7, <1>8, <1>9, <1>10, <1>11, <1>12, <1>13, <1>14,
       <1>15, <1>16 DEF Next

\* CONNECTED clears before it applies: once it was handled, and until the tun
\* or the host's own routes change, every pushed route is in the kernel through
\* the live tun, unless the host has a route of its own to that destination or
\* a killed daemon's unrecorded route stands there.
THEOREM ConnectedCorrect == Spec => []ConnectedRoutesLive
  <1>1. Init => AfterConnected
    BY DEF Init, AfterConnected
  <1>2. TypeOK /\ Control /\ Recovery /\ AfterConnected /\ [Next]_vars => AfterConnected'
    BY AfterConnectedStep
  <1>3. Control /\ AfterConnected => ConnectedRoutesLive
    BY DEF Control, Coverage, AfterConnected, Live, ConnectedRoutesLive
  <1> QED
    BY <1>1, <1>2, <1>3, RecoveryHolds, PTL DEF Spec

=============================================================================
