--------------------------------- MODULE Dns ---------------------------------
(***************************************************************************)
(* Split-horizon DNS, the part every platform shares: what an attempt asks *)
(* of its DnsManager (apply_dns on CONNECTED and on every later push       *)
(* reply, clear at the end), what it reports, and what the daemon does at  *)
(* start-up with what a killed predecessor left.                           *)
(*                                                                         *)
(* DnsDarwin, DnsLinux and DnsWindows are the three managers.  Each takes  *)
(* the request in want when pc is "install" and ends with ReturnOk or      *)
(* ReturnError; each takes back what it holds when pc is "revert" and ends *)
(* with Reverted; each cleans up when pc is "cleanup" and ends with        *)
(* CleanedUp.  Every file, registry or bus call is a step of its own, so   *)
(* that it can fail, the daemon can be killed before it, and other tools   *)
(* can act around it.                                                      *)
(*                                                                         *)
(* A suffix is its name without leading dots.  Servers are a set.          *)
(***************************************************************************)
EXTENDS Naturals, Sequences, FiniteSets

CONSTANTS
    Platforms,     \* platforms to consider, of "linux", "macos", "windows"
    Suffixes,      \* well-formed match domains
    Malformed,     \* a suffix that is not a DNS name
    Blank,         \* the empty suffix of an empty element of the profile
    Servers,       \* addresses of name servers
    MaxServers,    \* model bound: servers in a list
    None,          \* nothing: no domain pushed, no report yet
    MaxFaults,     \* model bound: calls that fail in a behaviour
    MaxCrashes     \* model bound: times the daemon is killed

ASSUME DnsAssumption ==
    /\ Platforms \subseteq {"linux", "macos", "windows"}
    /\ Cardinality(Suffixes \union {Malformed, Blank, None}) = Cardinality(Suffixes) + 3
    /\ MaxServers \in Nat /\ MaxFaults \in Nat /\ MaxCrashes \in Nat

VARIABLES
    platform,
    profile,    \* the suffixes and servers of the profile
    pc,         \* where the DNS code is between two calls
    attempt,    \* an attempt is in its event loop, with a manager of its own
    want,       \* the request of the current apply
    todo,       \* what the current loop has yet to process
    reported,   \* dns_suffixes and dns_servers of the metrics, or None
    quiet,      \* history: since the current apply began no call failed and nobody interfered
    exact,      \* history: likewise since the last successful apply
    stray,      \* history: what failed calls and crashes left in place
    faults,     \* history: number of failed calls
    crashes     \* history: number of times the daemon was killed

dnsVars == <<platform, profile, pc, attempt, want, todo, reported,
             quiet, exact, stray, faults, crashes>>

Name == Suffixes \union {Malformed, Blank}
ServerList == {x \in SUBSET Servers : Cardinality(x) <= MaxServers}
Request == [suffixes : UNION {[1 .. n -> Name] : n \in 0 .. 2}, servers : ServerList]

ASSUME RequestAssumption == None \notin Request

NoRequest == [suffixes |-> <<>>, servers |-> {}]

\* All the suffixes of a list.  A blank one is the root of the name space: a
\* manager that hands it on asks for every name.
Listed(seq) == {seq[i] : i \in DOMAIN seq}

\* The suffixes that name a domain.
Names(seq) == Listed(seq) \ {Blank}

\* What a request means: pairs of a suffix and its servers.
View(r) == IF r = None THEN {} ELSE Names(r.suffixes) \X {r.servers}

\* What it comes to where a blank suffix is handed on.
Asked(r) == IF r = None THEN {} ELSE Listed(r.suffixes) \X {r.servers}

DnsTypeOK ==
    /\ platform \in Platforms
    /\ profile \in Request
    /\ attempt \in BOOLEAN
    /\ want \in Request
    /\ reported \in Request \union {None}
    /\ quiet \in BOOLEAN
    /\ exact \in BOOLEAN
    /\ faults \in 0 .. MaxFaults
    /\ crashes \in 0 .. MaxCrashes

DnsInit ==
    /\ platform \in Platforms
    /\ profile \in [suffixes : {<<>>, <<Blank>>} \union {<<s>> : s \in Suffixes},
                    servers : ServerList]
    /\ pc = "idle"
    /\ attempt = FALSE
    /\ want = NoRequest
    /\ todo = {}
    /\ reported = None
    /\ quiet = FALSE
    /\ exact = FALSE
    /\ stray = {}
    /\ faults = 0
    /\ crashes = 0

\* A call fails and leaves these in place.
Fails(left) ==
    /\ faults < MaxFaults
    /\ faults' = faults + 1
    /\ stray' = stray \union left
    /\ quiet' = FALSE /\ exact' = FALSE

\* No call fails.
Smooth == UNCHANGED <<quiet, exact, stray, faults>>

\* Another program changes what the resolver reads.
Interference == quiet' = FALSE /\ exact' = FALSE

-----------------------------------------------------------------------------
(* The attempt *)

\* A new attempt: fresh managers; the metrics are the connection's and stay.
Begin ==
    /\ pc = "idle" /\ ~attempt
    /\ attempt' = TRUE
    /\ Smooth
    /\ UNCHANGED <<platform, profile, pc, want, todo, reported, crashes>>

\* collect_dns_inputs: the profile's suffixes and the pushed domain; pushed
\* servers replace the profile's.
Collect(domain, pushed) ==
    [suffixes |-> IF domain = None \/ domain \in {profile.suffixes[i] : i \in DOMAIN profile.suffixes}
                  THEN profile.suffixes
                  ELSE Append(profile.suffixes, domain),
     servers |-> IF pushed = {} THEN profile.servers ELSE pushed]

\* Only macOS tells malformed names from others.
PushedDomain == Suffixes \union {None} \union {x \in {Malformed} : platform = "macos"}

\* apply_dns: without suffixes or servers it returns and leaves what is
\* there, otherwise it calls the manager.
ApplyDns ==
    /\ pc = "idle" /\ attempt
    /\ \E domain \in PushedDomain, pushed \in ServerList :
        LET w == Collect(domain, pushed) IN
        /\ w.suffixes # <<>> /\ w.servers # {}
        /\ want' = w
    /\ pc' = "install"
    /\ quiet' = TRUE
    /\ UNCHANGED <<platform, profile, attempt, todo, reported, exact, stray, faults, crashes>>

\* Plausible slip: what was asked for is reported whether or not it was applied.
ReturnErrorReported ==
    /\ pc' = "idle"
    /\ todo' = {} /\ want' = NoRequest
    /\ reported' = want
    /\ UNCHANGED <<platform, profile, attempt, crashes>>

\* The manager returns an error: the report stays as it is.
ReturnError ==
    /\ pc' = "idle"
    /\ todo' = {} /\ want' = NoRequest
    /\ UNCHANGED <<platform, profile, attempt, reported, crashes>>

\* The manager returns Ok: what it was asked for is recorded and reported.
ReturnOk ==
    /\ pc' = "idle"
    /\ todo' = {} /\ want' = NoRequest
    /\ reported' = want
    /\ exact' = quiet
    /\ UNCHANGED <<platform, profile, attempt, quiet, stray, faults, crashes>>

\* A step in the middle of a call of the manager.
GoOn(where, rest) ==
    /\ pc' = where
    /\ todo' = rest
    /\ UNCHANGED <<platform, profile, attempt, want, reported, crashes>>

\* Teardown: dns_manager.clear().
Teardown ==
    /\ pc = "idle" /\ attempt
    /\ pc' = "revert"
    /\ Interference
    /\ UNCHANGED <<platform, profile, attempt, want, todo, reported, stray, faults, crashes>>

\* clear() returns, and the manager is dropped with the attempt.
Reverted ==
    /\ pc' = "idle"
    /\ attempt' = FALSE
    /\ todo' = {} /\ want' = NoRequest
    /\ UNCHANGED <<platform, profile, reported, crashes>>

-----------------------------------------------------------------------------
(* The daemon *)

\* The daemon is killed; what it holds in memory is gone.  left is what no
\* start-up will find again.
Killed(left) ==
    /\ pc # "dead"
    /\ crashes < MaxCrashes
    /\ crashes' = crashes + 1
    /\ pc' = "dead"
    /\ attempt' = FALSE /\ todo' = {} /\ want' = NoRequest /\ reported' = None
    /\ Interference
    /\ stray' = stray \union left
    /\ UNCHANGED <<platform, profile, faults>>

\* run_at_startup calls clear_orphan_dns.
StartUp ==
    /\ pc = "dead"
    /\ pc' = "cleanup"
    /\ Smooth
    /\ UNCHANGED <<platform, profile, attempt, want, todo, reported, crashes>>

CleanedUp ==
    /\ pc' = "idle"
    /\ todo' = {} /\ want' = NoRequest
    /\ UNCHANGED <<platform, profile, attempt, reported, crashes>>

DnsDriver == Begin \/ ApplyDns \/ Teardown \/ StartUp

=============================================================================
