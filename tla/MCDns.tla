-------------------------------- MODULE MCDns --------------------------------
(***************************************************************************)
(* The three DNS managers in one model: the platform is chosen at the      *)
(* start and the state of the other two managers stays as it is.           *)
(***************************************************************************)
EXTENDS DnsDarwin, DnsLinux, DnsWindows, TLC

vars == <<dnsVars, darwinVars, linuxVars, windowsVars>>

Init ==
    /\ DnsInit
    /\ IF platform = "macos" THEN DarwinInit ELSE
        file = [s \in Suffixes |-> NoFile] /\ written = {} /\ kept = {}
    /\ IF platform = "linux" THEN LinuxInit ELSE
        /\ backend = None /\ lastLink = None /\ backup = None /\ tun = None
        /\ setting = [l \in Links |-> NoSetting]
        /\ conf = [by |-> "plain", view |-> {}] /\ bakFile = None
    /\ IF platform = "windows" THEN WindowsInit ELSE
        /\ local = {} /\ policy = {} /\ policyKey = FALSE /\ gpo = FALSE
        /\ owned = <<>> /\ writes = <<>> /\ newIds = <<>> /\ gpoKept = FALSE /\ withdrawn = FALSE

Next ==
    \/ platform = "macos" /\ DarwinNext /\ UNCHANGED <<linuxVars, windowsVars>>
    \/ platform = "linux" /\ LinuxNext /\ UNCHANGED <<darwinVars, windowsVars>>
    \/ platform = "windows" /\ WindowsNext /\ UNCHANGED <<darwinVars, linuxVars>>

Symmetry == Permutations(Suffixes) \union Permutations(Servers)
            \union Permutations(Links)

\* What the successors and the properties depend on.  Once something is stray,
\* the report is compared no more, and the content of a stray rule matters
\* to nobody.
Compared == exact /\ stray = {}
Blanked(table) ==
    {IF r.id \in stray \ Recorded THEN [r EXCEPT !.view = {}] ELSE r : r \in table}
Seen == <<platform, profile, pc, attempt, want, todo, stray, faults, crashes,
          Compared, quiet /\ stray = {} /\ pc # "idle", IF Compared THEN reported ELSE None,
          darwinVars, linuxVars, Blanked(local), Blanked(policy),
          policyKey, gpo, owned, writes, newIds, gpoKept, withdrawn>>

Spec == Init /\ [][Next]_vars

\* The state of the driver and of the three managers keeps its type; a rule
\* is in a table at most once, and the policy table has a key if it has rules.
TypeOK == DnsTypeOK /\ DarwinTypeOK /\ LinuxTypeOK /\ WindowsTypeOK

Ours == CASE platform = "macos" -> OursDarwin
          [] platform = "linux" -> OursLinux
          [] OTHER -> OursWindows

Resolver == CASE platform = "macos" -> ResolverDarwin
              [] platform = "linux" -> ResolverLinux
              [] OTHER -> ResolverWindows

\* Between attempts nothing of ours is left in the system's resolver
\* configuration, except what a failed call left behind or what a crash left
\* that the start-up pass cannot find: any number of applies with different
\* sets, tuns that come and go, other tools that write over our files, and
\* crashes that the start-up pass does repair.
NothingLeftBehind == pc = "idle" /\ ~attempt => Ours \subseteq stray

\* What other tools put into the shared places, and was there before a call
\* of ours began, is there when it ends: /etc/resolver files without our
\* first line, rules of a group policy.
ForeignKept ==
    /\ platform = "macos" => kept \subseteq Foreign
    /\ platform = "windows" /\ gpoKept => gpo

\* The DNS set in the status report is what the resolver does: no apply that
\* was refused, skipped or repeated with another set makes them differ, as
\* long as no call fails, nothing is left over and nobody else writes.  Two
\* things are left out.  When a group policy has taken its rules back during
\* the session the two may differ on Windows.  And a blank suffix in the
\* report, which names no domain, may be an entry for every name on Windows
\* and with systemd-resolved; it adds nothing else, and on macOS nothing.
ReportMatchesResolver ==
    pc = "idle" /\ exact /\ stray = {} /\ ~withdrawn =>
        \/ Resolver = View(reported)
        \/ platform # "macos" /\ Resolver = Asked(reported)

\* The comment on the resolv.conf snapshot: it is on disk so that, if the
\* daemon dies, the start-up pass can put it back.
CrashRestoresResolvConf ==
    pc = "idle" /\ ~attempt /\ faults = 0 => conf.by # "azvpn"

=============================================================================
