------------------------------- MODULE DnsLinux -------------------------------
(***************************************************************************)
(* The Linux manager.  The first install of an attempt looks at who owns   *)
(* /etc/resolv.conf and at systemd-resolved, and picks one of two          *)
(* backends: settings of the tun's link, over D-Bus, or a rewritten        *)
(* resolv.conf with a snapshot to put back.                                *)
(*                                                                         *)
(* resolv.conf holds what the host's own manager writes (known by its      *)
(* comment and name server) or what a request rendered.  Settings of a     *)
(* link go with the link; openvpn may close and reopen its tun at any      *)
(* time, under a new interface index.                                      *)
(***************************************************************************)
EXTENDS Dns

CONSTANTS
    Links,     \* interface indexes the tun may get
    Host       \* model bound: what the host's manager may write, see Content

VARIABLES
    backend,   \* DnsManager::backend
    lastLink,  \* ResolvedBackend::last_ifindex
    backup,    \* DirectBackend::backup
    tun,       \* the link that carries the tunnel's address
    setting,   \* systemd-resolved: servers and route-only domains of a link
    conf,      \* /etc/resolv.conf
    bakFile    \* /var/run/azvpn/resolv.conf.bak

linuxVars == <<backend, lastLink, backup, tun, setting, conf, bakFile>>

\* "stub" and "resolved" name 127.0.0.53, the latter with systemd-resolved's
\* comment; "broken" has the comment and names another server.
Content ==
    [by : {"stub", "resolved", "broken", "NetworkManager", "resolvconf", "plain"}, view : {{}}]
Rendered == [by : {"azvpn"}, view : SUBSET ((Suffixes \union {Malformed}) \X SUBSET Servers)]
NoSetting == [servers |-> {}, domains |-> {}]

ASSUME LinuxAssumption ==
    /\ \A by \in Host : [by |-> by, view |-> {}] \in Content
    /\ None \notin Links \union {"resolved", "direct"}
    /\ None \notin Content \union Rendered

LinuxInit ==
    /\ backend = None /\ lastLink = None /\ backup = None
    /\ tun = None
    /\ setting = [l \in Links |-> NoSetting]
    /\ \E by \in Host : conf = [by |-> by, view |-> {}]
    /\ bakFile = None

LinuxTypeOK ==
    /\ backend \in {None, "resolved", "direct"}
    /\ lastLink \in Links \union {None}
    /\ backup = None \/ backup.by \in Host \union {"azvpn"}
    /\ tun \in Links \union {None}
    /\ conf \in Content \union Rendered
    /\ \A l \in Links : setting[l].servers \subseteq Servers

-----------------------------------------------------------------------------
(* Choosing a backend *)

\* The host's resolver takes per-link settings: resolv.conf points at its
\* stub, or NetworkManager may be delegating to it.
MayUseResolved == conf.by \in {"stub", "resolved", "NetworkManager"}

\* detect_backend; the probe of resolved, or of NetworkManager's mode, may fail.
DetectBackend ==
    /\ pc = "install" /\ backend = None
    /\ backend' \in IF MayUseResolved THEN {"resolved", "direct"} ELSE {"direct"}
    /\ GoOn("install", {}) /\ Smooth
    /\ UNCHANGED <<lastLink, backup, tun, setting, conf, bakFile>>

-----------------------------------------------------------------------------
(* systemd-resolved *)

\* find_ifindex_by_local_ip: the link that carries the tunnel's address.
TunnelLink == tun

\* The tun's link, if there is one, gets the servers.
SetLinkDns ==
    /\ pc = "install" /\ backend = "resolved"
    /\ \/ /\ TunnelLink = None                     \* InterfaceNotFound, MissingTunnelLocal
          /\ ReturnError /\ Smooth /\ UNCHANGED linuxVars
       \/ /\ TunnelLink # None
          /\ \/ /\ setting' = [setting EXCEPT ![TunnelLink].servers = want.servers]
                /\ GoOn("domains", {TunnelLink}) /\ Smooth
             \/ ReturnError /\ Fails({}) /\ UNCHANGED setting
          /\ UNCHANGED <<backend, lastLink, backup, tun, conf, bakFile>>

\* The link is what clear() will revert.
Remember(l) == lastLink' = l

\* The same link gets the domains, a blank one as the route-only root; only
\* then is it remembered.  The link may have gone in the meantime: the call
\* then fails and nothing is left.
SetLinkDomains ==
    /\ pc = "domains"
    /\ \E l \in todo :
        \/ /\ l = tun
           /\ setting' = [setting EXCEPT ![l].domains = Listed(want.suffixes)]
           /\ Remember(l)
           /\ ReturnOk
        \/ /\ l = tun
           /\ ReturnError /\ Fails(IF lastLink = l THEN {} ELSE {l})
           /\ UNCHANGED <<setting, lastLink>>
        \/ /\ l # tun
           /\ ReturnError /\ Smooth
           /\ UNCHANGED <<setting, lastLink>>
    /\ UNCHANGED <<backend, backup, tun, conf, bakFile>>

\* RevertLink on the remembered link, which is forgotten whatever comes back.
RevertLink ==
    /\ pc = "revert" /\ backend = "resolved"
    /\ \/ /\ lastLink = None
          /\ Smooth /\ UNCHANGED setting
       \/ /\ lastLink # None
          /\ \/ setting' = [setting EXCEPT ![lastLink] = NoSetting] /\ Smooth
             \/ Fails({lastLink}) /\ UNCHANGED setting
    /\ lastLink' = None /\ backend' = None
    /\ Reverted
    /\ UNCHANGED <<backup, tun, conf, bakFile>>

-----------------------------------------------------------------------------
(* /etc/resolv.conf *)

NeedsSnapshot == backup = None

\* The current content is snapshot, on disk and in memory, once per attempt.
Snapshot ==
    /\ pc = "install" /\ backend = "direct"
    /\ \/ /\ NeedsSnapshot
          /\ \/ bakFile' = conf /\ backup' = conf /\ GoOn("rewrite", {}) /\ Smooth
             \/ ReturnError /\ Fails({}) /\ UNCHANGED <<bakFile, backup>>
       \/ /\ ~NeedsSnapshot
          /\ GoOn("rewrite", {}) /\ Smooth
          /\ UNCHANGED <<bakFile, backup>>
    /\ UNCHANGED <<backend, lastLink, tun, setting, conf>>

\* write_atomic of the rendered file: it is there entirely, or not at all.  A
\* blank suffix is an extra space in the search line.
Rewrite ==
    /\ pc = "rewrite"
    /\ \/ conf' = [by |-> "azvpn", view |-> View(want)] /\ ReturnOk
       \/ ReturnError /\ Fails({}) /\ UNCHANGED conf
    /\ UNCHANGED <<backend, lastLink, backup, tun, setting, bakFile>>

\* The snapshot is taken out of memory, put back, and its file deleted; if it
\* cannot be put back it is lost, and only the file is left.
Restore ==
    /\ pc = "revert" /\ backend = "direct"
    /\ \/ /\ backup = None
          /\ Smooth /\ UNCHANGED <<conf, bakFile>>
       \/ /\ backup # None
          /\ \/ conf' = backup /\ bakFile' = None /\ Smooth
             \/ Fails({"resolv.conf"}) /\ UNCHANGED <<conf, bakFile>>
    /\ backup' = None /\ backend' = None
    /\ Reverted
    /\ UNCHANGED <<lastLink, tun, setting>>

-----------------------------------------------------------------------------

\* revert() with no backend: no install has been tried.
NothingToRevert ==
    /\ pc = "revert" /\ backend = None
    /\ Reverted /\ Smooth
    /\ UNCHANGED linuxVars

\* clear_orphan_dns does nothing on Linux.
LinuxCleanup ==
    /\ pc = "cleanup"
    /\ CleanedUp /\ Smooth
    /\ UNCHANGED linuxVars

\* What is in place when the daemon dies stays: an orphaned openvpn keeps the
\* link, and nobody puts resolv.conf back.
LinuxKilled ==
    /\ Killed({l \in Links : setting[l] # NoSetting}
              \union {x \in {"resolv.conf"} : conf.by = "azvpn"})
    /\ backend' = None /\ lastLink' = None /\ backup' = None
    /\ UNCHANGED <<tun, setting, conf, bakFile>>

\* openvpn opens its tun, or closes it, and the link's settings go with it.
TunUp ==
    /\ tun = None /\ attempt
    /\ tun' \in Links
    /\ Interference
    /\ UNCHANGED <<platform, profile, pc, attempt, want, todo, reported, stray, faults, crashes,
                   backend, lastLink, backup, setting, conf, bakFile>>

TunDown ==
    /\ tun # None
    /\ setting' = [setting EXCEPT ![tun] = NoSetting]
    /\ tun' = None
    /\ Interference
    /\ UNCHANGED <<platform, profile, pc, attempt, want, todo, reported, stray, faults, crashes,
                   backend, lastLink, backup, conf, bakFile>>

\* The host's manager writes resolv.conf again, whatever is in it.
HostWrites ==
    /\ \E by \in Host : conf' = [by |-> by, view |-> {}]
    /\ Interference
    /\ UNCHANGED <<platform, profile, pc, attempt, want, todo, reported, stray, faults, crashes,
                   backend, lastLink, backup, tun, setting, bakFile>>

LinuxNext ==
    \/ DnsDriver /\ UNCHANGED linuxVars
    \/ DetectBackend \/ SetLinkDns \/ SetLinkDomains \/ RevertLink
    \/ Snapshot \/ Rewrite \/ Restore
    \/ NothingToRevert \/ LinuxCleanup \/ LinuxKilled
    \/ TunUp \/ TunDown \/ HostWrites

OursLinux ==
    {l \in Links : setting[l] # NoSetting} \union {x \in {"resolv.conf"} : conf.by = "azvpn"}

\* What the resolver does with our settings.
ResolverLinux ==
    IF conf.by = "azvpn" THEN conf.view
    ELSE UNION {setting[l].domains \X {setting[l].servers} : l \in Links}

=============================================================================
