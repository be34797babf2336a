# A verification project for azvpn

azvpn is an Azure VPN client: a privileged daemon (`azvpnd`) that drives an
`openvpn` child, and a command line client that talks to it. This directory
models the daemon, its platform managers and the token caches in TLA+, checks
them with TLC and proves nearly all of the safety properties, for every value of
the constants, with TLAPS.

`PROJECT.json` lists the components, the runs, the source lines behind every
definition, the hazards and the theorems. Paths below are relative to
`src/crates/`.

## Inventory

| Part | State it keeps | Operations | Talks to |
|---|---|---|---|
| Connect lifecycle (`core/src/commands/connect/`) | retry budget, child process, management socket, status and metrics channels, watchdog phase, outcome | `run`, `attempt`, one arm per management event, teardown | openvpn, route and DNS managers, the daemon's cancel token |
| Route manager (`core/src/route.rs`) | installed routes, interface index | `apply` (diff), `clear` | kernel routing table |
| Cleanup (`core/src/cleanup.rs`) | manifest on disk | save, remove, `run_at_startup` | route manager, kernel |
| DNS managers (`core/src/dns.rs`, `tunnel-*/`) | what is installed, snapshots, owned rule ids | `apply`, `update`, `clear`, start-up cleaning | `/etc/resolver`, systemd-resolved, `resolv.conf`, NRPT |
| Daemon server (`daemon/src/server.rs`) | the slot for the active connection | `up`, `down`, `status`, `shutdown`, `start_connection` | connect task, `target.json` |
| Target (`core/src/target.rs`) | `target.json` | load, save | file system |
| Converge (`daemon/src/converge.rs`) | none | `try_converge` at boot | target, token cache, server |
| Binary watcher (`daemon/src/binary_watcher.rs`) | signature of the binary | detect, defer, restart | server, shutdown token |
| Main (`daemon/src/main.rs`) | shutdown token | boot, accept loop, grace period | all of the above |
| Bearer file, re-auth (`connect/auth.rs`) | credentials file, auth token | build, rewrite, respond | openvpn, token cache |
| Daemon cache (`auth/src/daemon_cache.rs`, `daemon/src/rt_refresh.rs`) | one refresh token in a file | stash, refresh, daily refresh | identity provider |
| User cache (`auth/src/token_cache.rs`) and sign-in flows | tokens per profile in two stores, last-used pointer, legacy blobs | load, save, migrate, acquire | keyring, files, identity provider |
| Network monitor (`core/src/netmon.rs`, `tunnel-*/`) | arming, cooldown, own addresses, wall clock, power source | `next_change`, `set_self_ips` | connect lifecycle |
| Byte counters (`connect/`, `core/src/metrics.rs`) | last sample, throughput, last rx | BYTECOUNT arm, `link_appears_healthy` | network monitor, status |
| Management client (`openvpn/src/management/`) | line buffer | startup commands, `read_event`, parsers | openvpn |
| Push policy (`openvpn/src/management/push.rs`, `connect/apply.rs`) | options in force | parse, refuse, routes | gateway, route manager |
| IPC, profile, CLI, packaging | none that outlives a call | - | - |

What is hard here is not one function but their interplay: the event loop's
`select!` against cancellation and openvpn's own life; kernel state that
changes underneath its manager; handlers of concurrent callers around one slot;
files read before an await and used after it; and a daemon that may be killed
between any two steps. The hazards in `PROJECT.json` name each place.

What makes each part correct:

- connect lifecycle: cancellation and the watchdog always end an attempt; an
  attempt leaves nothing behind; what is reported is what happened;
- routes: after CONNECTED the pushed routes are live on the current tun, no
  others are, and a killed daemon's routes are found by the next one;
- daemon: one tunnel at most, every caller is answered, the user's last
  answered wish wins;
- DNS: between attempts nothing of ours is left; what other tools put there
  stays; the status reports what the resolver does;
- credentials: openvpn finds an unexpired bearer whenever it looks, no
  credentials file outlives its attempt, no failed or interrupted write costs
  the refresh token;
- user cache: no command, failure or migration throws away a profile's last
  refresh token or puts an older one over a newer;
- management: no line is read twice or out of order; the traffic the gateway
  names, and no other, goes into the tunnel; prompts get the newest token;
- network monitor: a dead link is restarted, a flowing one is not.

This is what they are for. Where the code falls short of it, the property states
the exception, and the deviation is listed under Findings.

## Modules

`Connect` is `run()` and `attempt()`. `pc` is the place in the code: `validate`,
`attempt` (building files, spawning), `mgmt`, `subscribe`, `loop` (parked in the
`select!`), `applying` (inside `apply::tunnel_state`), `softrestart` (the token
refresh before SIGUSR1), `teardown`, `wait`, `backoff`, `refresh`, `done`. Each
arm of the `select!` and each management event that changes state is an action.
The select is biased, so every arm but the cancel arm requires that the token has
not fired (`Await`). A handler that awaits the network or the kernel is split
there, so a cancellation or an exit of openvpn can fall in between. openvpn is the
environment: it may emit any event, exit, or lose its socket at any time.
`reconnects` and `outages`, and `lateSpawns`, are compared; `outages` and
`lateSpawns` are history variables. Traffic metrics are in `NetMon`, the DNS set
in `Dns`, re-auth prompts in `Management`, the cleanup manifest in `Routes`;
events that only log are left out.

`Tunnel` is the abstract specification of the lifecycle: a bounded number of
attempts; kernel state installed only by an apply that began before anyone asked
to stop; a closed end with nothing held. `Connect` refines it (`Abstract`), with
`stage` read off `pc` and `budget` the retries left.

`Routes` is `RouteManager`, the cleanup manifest and the recovery at start, with
one kernel call per step. The routing table is external; its matching rules
(`Matching`, `Duplicate`, `Installable`) are the ones the code documents for
Linux, macOS and Windows, and `LoseInterface` has macOS rebind the routes of a
dead tun to the uplink, as the comment on CONNECTED describes. `hostRoutes` are
the destinations for which the host has a route of its own (it joins and leaves
networks, `HostMoves`): on Linux and macOS such a route answers an add with
EEXIST, and on macOS, where a delete goes by destination, a delete of ours
removes it. `Crash` may fall between any two steps and leaves openvpn and its tun
alive. `unsaved` is history: entries no manifest has recorded. `MCRoutes` adds
the symmetry.

`Daemon` is the slot, the handlers of `up` and `down`, `converge`, `target.json`,
the binary watcher, shutdown, crash and boot. A step is what happens between two
awaits, or one access to `target.json` (handlers run on several threads). The
connect task is seen through its token, its status and its return; that it
reports no Connected after its cancellation is a property of `Connect` (events
are only taken while the token has not fired). `wedged` marks a connection whose
management socket has dropped while openvpn lives on (`SocketDrops`): it may end,
but nothing makes it. `downAcked` is history. `MCDaemon` adds the symmetry.

`Dns` is what the platforms share: what an attempt asks of its manager and when,
what it reports, and the start-up pass. `DnsDarwin`, `DnsLinux` and `DnsWindows`
extend it with one manager each, one file, bus or registry call per step; `MCDns`
puts the three side by side, one platform per behaviour. Other tools may create,
replace and delete resolver files, the host may rewrite `resolv.conf`, a group
policy may come and go, the tun may change its link, any call may fail and the
daemon may be killed before any of them. `stray` is history: things of ours that
a failed call or a crash has put out of the code's reach. It grows at exactly the
steps that lose track of something, so `NothingLeftBehind` shows there are no
others. A group policy refresh is reduced to its effect on the policy table. A
blank suffix is handed on by the Windows and resolved managers, where it stands
for every name (`Asked`), and dropped by the other two (`View`).
`Seen` is the view of the run: it leaves out the history no property compares any
more.

`UserCache` is the user's side: the keyed slots in keyring and file, the legacy
blobs and their migration, the last-used pointer, and `up`, `login` and the cloud
queries as processes that run at the same time, fail and are interrupted. A
sign-in brings a refresh token or, counted against the faults, only an access
token (`bare`). A save to the keyring is one step. A save to a file goes through
the temporary path of `write_atomic_private`, which all processes share; it is
under way from the step that leads to it until its own step, and while two are
under way `mixed` and `mixedPointer` hold what the file may contain: the data of
any writer, or nothing readable. Any of it may be renamed into place, a rename
may find the file gone, and a writer may go on writing to what another has
renamed (`WriteThrough`). `hidden`, `blunt` and `raced` are history: the
situations, described with the properties, in which the code does lose a token.

`Credentials` is the daemon's side: the cache file with its single temporary
file (open, write, rename are steps; a descriptor follows its file through a
rename), the credentials file of every attempt, and the six writers. Time is
counted in units longer than a refresh. `raced` (two writers had the temporary
file open) and `late` (a refresh was under way when its attempt ended) are
history.

`Push` is the text of a push reply as tokens: parsing, the tunnel policy, the
networks to route, with mask arithmetic over `Width`-bit addresses. `Management`
extends it with openvpn's hold, the startup commands, lines that arrive in
pieces, the cut `read_event`, and the event handlers. `RoutedAsPushed` compares
the result with `SentThrough`, which reads the reply declaratively, address by
address and as OpenVPN means it: a route that names a gateway of its own is not a
tunnel route, a redirection is one whatever its sub-flags. The code differs in
both (`SentElsewhere`, `BareRedirect`), and the property leaves them out by name.
`source` is history: where the token at hand came from. `MCManagement` has the
replies.

`NetMon` is `next_change` with its sources on the three platforms, the BYTECOUNT
arm, the healthy-link gate and the restart. A push reply, also on a tunnel that is
up, and CONNECTED register an address and arm the monitor only if they bring one.
The rate is over the elapsed time and the window reported with it in whole
seconds, at least one; `Second` is the length of a second in ticks. Ages saturate
at the bound at which the code no longer tells them apart, so time itself has no
bound.

How the modules fit: `Connect` treats DNS as held or not, a network change as a
signal, a refresh as an await with two outcomes; `Dns`, `NetMon` and
`Credentials` are those parts in detail, each with the events of an attempt as
its environment. `Routes` takes the networks that `Management` derives.

`ConnectProof`, `DaemonProof`, `RoutesProof`, `DnsProof`, `UserCacheProof`,
`CredentialsProof`, `ManagementProof` and `NetMonProof` hold the theorems about
the modules they are named after.

Operators introduced as a "Plausible slip" are mutated forms of the definition
that follows them; each property is shown to fail under one of them.

## Runs

| Run | Instance | Result |
|---|---|---|
| `connect` | 2 retries, 2 outages, one handshake state, one address; 102k states | 6 invariants, 2 safety properties, 2 liveness properties hold |
| `routes` | 3 platforms, 2 destinations, 2 gateways, 2 interfaces, 1 route of the host, 1 kind of failing call; 4.5M states | 4 invariants hold |
| `daemon` | 2 clients besides converge, 1 profile, 2 connections; 967k states | 2 invariants and an action property hold |
| `daemon_live` | 1 client, 1 profile, 1 connection; 25k states | 2 liveness properties hold |
| `dns` | 3 platforms, 2 suffixes and a malformed and a blank one, 2 servers, 1 failing call, 1 crash; 988k states | 4 invariants hold |
| `user_cache` | 2 processes, 2 profiles, 2 refresh tokens, 1 failing store call or bare sign-in; 3.8M states | 3 invariants and 2 action properties hold |
| `credentials` | 2 attempts, 2 refreshes at once, interval 2, lifetime 3; 3.0M states | 3 invariants and an action property hold |
| `management` | 3-bit addresses, 5 lines, 1 piece on the way; 5.4M states | 3 invariants and an action property hold |
| `netmon` | 3 platforms, 1 subnet, settle 1, cooldown 2, a second of 2 ticks, byte counts to 2; 1.2M states | an invariant, 2 action properties and a liveness property hold |
| `connect_dropped_socket`, `daemon_converge_race`, `dns_crash_restore` | smaller instances | each refutes one statement of a comment; see the findings |

Bounds. Two retries reach a first, a middle and a last attempt; the real budget
(8) only adds middle ones, and the proofs cover every budget. Two outages let the
watchdog leave and re-enter its phases. Two destinations let an apply fail half
way; two gateways and two interfaces let both change; one route of the host lets
one of the two destinations collide with the LAN. With one kind of call failing
the properties state which kinds they survive. Two connections let an old
connection's end meet a new one; two clients besides converge let an `up`, a
`down` and a boot overlap, and the properties are proved for any number of
callers. Two suffixes and one domain per rule let a Windows update need more and
fewer rules than it has; two links let the tun move. Two processes are enough for
two saves through one file, and one fault for a sign-in without a refresh token
after one with it. Two attempts let a refresh of the first meet the second. With
`Period` 2 and `Life` 3 a refresh is due before a bearer expires and a suspend can
push it past that. Three address bits give every shape of mask, the default route,
its halves and routes inside them; five lines are a reply, CONNECTED, a second
reply or prompt and a token between. The ages of `NetMon` keep the order settle <
cooldown; a second of two ticks allows samples less than a second apart.

Fairness. In `Connect` the task is scheduled, its awaits on the host end (the
tries of `connect_management` are counted), a dead openvpn's socket closes, and
openvpn exits when it was told to or said it would. A tick of the watchdog that is
due stays ready and the biased `select!` polls it before the events, so its
fairness is strong. `EndpointAnswers` is an assumption on the token endpoint, not
on this code: `aad_http_client` sets no timeout (`auth/src/lib.rs:64`), so a
refresh that is never answered would hold the task for ever. `process.wait()`
failing and events arriving are not assumed.

Two cases are excepted from what the liveness properties promise, in their own
statements. Nothing makes a live openvpn behind a broken socket exit
(`connect_dropped_socket` shows it): `CancelEndsRun` and the second part of
`NoWedge` end at that case, and say nothing beyond it. And network changes that
never stop are polled before the watchdog, each with a refresh in the event loop:
`NoWedge` assumes that the attempt is eventually out of such refreshes for good.

In `Daemon` woken handlers and tasks are polled and the grace period ends. A
connect task that is cancelled or not connected is assumed to return only if its
connection is not wedged, which is the part that `CancelEndsRun` and `NoWedge` do
show. `EveryWaitEnds` and `CancelFreesSlot` accordingly except a caller or a slot
that stays with a wedged connection. A waiting handler needs strong fairness:
every status change wakes it and the statuses it waits for last for seconds.

In `NetMon` time passes; an interface event that stays ready is taken, because
the `select!` over the sources picks a ready one at random; and the refresh
before a restart ends, which is again assumed of the endpoint. `DeadLinkRestarted`
assumes in its own statement that the monitor is armed and that events keep
coming, and asks for nothing while the tunnel is not Connected. `Routes`, `Dns`,
`UserCache`, `Credentials` and `Management` have safety properties only.

Only the Connect run has an explicit end (`Returned`). Only `management` turns
deadlock checking off: openvpn may write nothing more, or be gone.

## Findings

1. `connect_dropped_socket`: when the management socket drops while openvpn
   lives, `attempt` sends no signal and `process.wait()` has no timeout. The
   connection can then neither be retried nor cancelled, and its slot stays
   taken until the daemon's grace period ends it.
2. `daemon_converge_race`: a `down` answered while converge waits for its token
   is overtaken by converge's tunnel.
3. `dns_crash_restore`: the snapshot of `resolv.conf` that is written for the
   start after a crash is not used by it, and the next tunnel takes the old
   tunnel's file for the host's and overwrites the snapshot.

Other deviations met while modelling, not kept as runs. Unless "not modelled"
stands beside one, its model contains the behaviour, and a property that would be
false because of it names the exception.

Lifecycle, routes and daemon:

- a network change while openvpn is reconnecting sends the SIGUSR1 that the
  comment at `core/src/commands/connect/mod.rs:864` says is deferred;
- a killed daemon's route that no manifest had recorded blocks the next
  daemon's add, which takes EEXIST for success (`core/src/route.rs:363`);
- a pushed network that the host is on keeps the host's route: apply only warns,
  and counts the route as installed (`core/src/route.rs:316`, `:363`); on macOS,
  where a delete goes by destination, the later clear removes the LAN's own route
  (`ConnectedRoutesLive` leaves out the destinations of `hostRoutes`);
- the recovery's deletes name no interface, which matches nothing on Windows
  (`RecordedRoutesAreCleared` is stated for the other platforms); a half-failed
  apply leaves `installed_ifindex` unset;
- an `up` right after a `down` joins the dying connection
  (`daemon/src/server.rs:125`), and an `up` reports the first failed attempt as
  final while retries go on (`server.rs:358`);
- an `up` on an open client connection after `shutdown()` has cancelled starts a
  tunnel nobody cancels (`server.rs:251`); the binary watcher may restart under a
  tunnel that started after it looked (`daemon/src/binary_watcher.rs:286`);
- the token requests have no timeout (`auth/src/lib.rs:64`): a silent endpoint
  holds the retry loop, or the event loop before a soft restart;
- `default_backoff` allows 8 retries, so 9 attempts, and no jitter, where
  `retry.rs` speaks of 8 attempts with jitter.

DNS:

- Windows rules are recorded after they are written, so a crash or a failed
  write in between orphans them, although `tunnel-windows/src/dns/nrpt.rs:25`
  says otherwise; failed deletes of surplus rules are forgotten; when a group
  policy withdraws its rules, our mirror in the policy table stays and keeps
  Windows off the local table;
- an empty suffix is filtered on macOS and in a rewritten `resolv.conf`; on
  Windows it becomes the rule "." and with systemd-resolved the routing domain "",
  both for every name (`nrpt.rs:263`, `tunnel-linux/src/dns.rs:350`; the second
  disjunct of `ReportMatchesResolver`);
- the Linux clear puts back a snapshot older than what the host has written
  since; a macOS update that fails half way leaves files no record names until
  the next start of the daemon; between the check for foreign files and the
  writes another tool may create one;
- the DNS set in the metrics stays after the attempt has ended, and after an apply
  that failed half way it is still that of the last one that succeeded.

Tokens:

- a migration that failed or comes late overwrites a newer keyed token with the
  legacy one; of two legacy blobs one is removed unread, and an interruption
  between the two removals rolls the entry back; an unreadable keyring blob is
  removed unread; a legacy blob without a refresh token, copied late, drops the
  one in the slot;
- an interactive sign-in that returns an access token only is saved over an entry
  with a refresh token (`cli/src/auth_flow.rs:199`), and that `up` hands over none;
  `ipc/src/lib.rs:130` and `daemon/src/server.rs:444` foresee it;
- two commands that save the same entry or pointer to files share one temporary
  path (`auth/src/cache_shared.rs:84`): the entry may be torn, and the pointer may
  then name an entry that cannot be read;
- the timeout of the loopback callback covers the accept only, and one
  connection is accepted (`auth/src/auth_code.rs:148`); the cloud queries drop
  rotated refresh tokens; the two stores may hold different tokens;
- two writers of the daemon cache share one temporary file and can leave a torn
  or empty cache; a refresh that ends after its attempt recreates the deleted
  credentials file, and a crash leaves the file in the temporary directory; the
  first bearer may be a cached one that expires before the first periodic
  refresh; `up` may stash a refresh token older than the daemon's.

Management and push:

- a line cut because another arm of the `select!` won is lost; if it was the
  PUSH_REPLY the tunnel comes up without routes and DNS
  (`openvpn/src/management/client.rs:82`);
- the profile's include and exclude routes are written to the configuration, but
  under `route-noexec` nobody installs them; the gateway of a single pushed
  route, `net_gateway` included, is parsed (`push.rs:356`) and goes nowhere, so an
  exclusion becomes a tunnel route (`SentElsewhere`); a bare `redirect-gateway`
  counts as no full tunnel, where `push.rs:98` calls it full replacement mode
  (`BareRedirect`); its `ipv6` flag adds routes without an IPv6
  address; a later reply without a route gateway leaves the old routes;
- the comment on `absorb_push` (`auth.rs:53`) says that the notification is
  authoritative when both arrive, and a push reply after it wins; it adds that the
  two come at the same time (`AnswersWithNewest` leaves out the behaviours where a
  reply brings another token after a notification).

Network monitor:

- events queued before arming are measured against the settle window when they
  are read; when CONNECTED or its apply comes more than a second after the push
  reply they pass it, and the fresh tunnel may be restarted (`netmon.rs:240`);
- a byte received within the last minute of an unsuspended clock makes the gate
  skip the restart for an active link right after a handoff or a wake, and no
  trailing edge makes up for it; while openvpn is reconnecting every event that
  passes sends another SIGUSR1 (`mod.rs:863`); the gate's inputs are read before
  the refresh is awaited;
- once `self_ips` has moved, the Down of our own tun's old network is taken for a
  change; a power thread is started by every attempt and outlives it.

## Proofs

Every theorem is about all behaviours of its module for every value of the
constants that satisfies the module's ASSUME. Most of these say only that bounds
are naturals and that `None` is none of the values it is compared with; the
others are named below. Each proof has one step per action. What the runs'
properties say is rarely inductive; the strengthened invariants below were
checked with TLC before they were proved.

`ConnectProof`:

- `TypeCorrect`, by one step per action;
- `IInv`: the safety invariants of the run plus `Announced` (between the
  announcement and the event loop the status is Connecting) and
  `LateSpawnIsLast` (a launch after cancellation happens in the last attempt).
  The first is what makes `WatchdogTracksStatus` inductive when the loop starts
  with a fresh watchdog and a status channel that outlives attempts; the second
  turns "at most one" into something a step preserves, because a cancelled
  attempt never returns to the retry loop. `WatchdogCorrect`,
  `NoResidueCorrect`, `LateSpawnCorrect`, `HealthyCorrect` and `ReportCorrect`
  follow from it;
- `RefinesTunnel`: every step is a step of `Tunnel` or leaves it unchanged;
  `NoResidue` supplies that nothing is held when an attempt is settled. The
  action property `NoApplyAfterCancelCorrect` is read off the abstract steps.

`DaemonProof`: `TypeCorrect` and `OneTunnelCorrect` (a connection that is running
or has returned is in the slot, and the slot is refilled only when empty).
`NoReconvergeCorrect` rests on `DownInForce`: while an answered down counts, and
from the moment a down has written, `target.json` says disconnected, because only
a persistent up writes otherwise and it takes the mark off every down. The attempt to
prove it showed that the history variable was wrong for two callers (an `up` that
overtakes a `down` between its write and its answer); the history was corrected,
and the run now has two clients.

`RoutesProof`:

- `Control`: what each pass of `apply`, `clear` and the recovery may assume
  (the deletes of a pass are installed routes, one gateway per destination, an
  entry sits on a live device or the uplink);
- `NoStaleRouteCorrect` from `Findable`: in every state, in the middle of a pass
  too, an entry on the live tun is one the manager knows of *and* its next delete
  would match, by gateway and by interface;
- `RecoveryCorrect` from `Recovery`: the manifest present at any moment covers
  every entry some manifest has recorded, because the code saves before it forgets
  and removes the manifest last;
- `ConnectedCorrect` from `AfterConnected`: what is installed is live, and no entry
  that would make the kernel refuse or shadow it is left, except to a destination
  of `hostRoutes`, where an add that found the host's route changed nothing.

`DnsProof` is about the three managers as `MCDns` composes them. `Held` says for
each platform, at every place of the code, where a thing of ours is known:
`DarwinHeld` (in the record, just written, next to be removed), `LinuxHeld` (the
remembered link or the one being set up; a rewritten `resolv.conf` has its
snapshot in memory), `WindowsHeld` (recorded, or among the identifiers that will
be). `NothingLeftCorrect` is `Held` between attempts. `ForeignCorrect` is from
`Spared`: the files the writes have yet to replace are none of the foreign ones
the check saw, and the policy key is dropped only if the policy had no rules when
the call began.
`TypeCorrect` is from `Typed`; its hard parts are that what a profile and a push
are collected into is always a request, and that a rule is in a table at most
once although identifiers are used again (`AssignedDistinct`). `ReportCorrect` is
from `Exact`, one invariant per platform on what has been put in place of the set
being applied: `DarwinExact` (what is written has its servers, what is pruned is
not of the set), `LinuxExact` (while a link has servers but no domains it is the
tun's), `WindowsExact` with `Progress` (every rule is in its table or among the
writes to come). Two lemmas carry Windows: `ChunksCover`, the rules together have
every suffix of the request, a blank one too, for any number of domains per rule, and
`TableComplete`, a table that has every new rule and only new identifiers has no
other content. Identifiers are drawn from `Guids`; `Install` needs enough unused
ones, the bound of the model (in the run there always are enough). `None` is
assumed to be no request, and `MaxServers` a natural.

`UserCacheProof`:

- `TypeCorrect` with `Well` (a migrating command has a whole blob; what is saved
  or handed over has a refresh token, or this command's sign-in brought none),
  which gives `HandOverCorrect`, and with `Noted` (an entry that several commands
  write is among `raced`);
- `Moves` says once, for all actions, where a command may arrive from and what
  the stores look like then; the other proofs use it instead of the actions;
- `PointerCorrect` from `Made` and `Named`: the entry is there before the pointer
  moves, and every key the shared file of the pointer may hold is that of such an
  entry, so it does not matter whose pointer is renamed into place;
- `CredentialCorrect` from `Kept`: there is one legacy blob, in the store and in
  the hands of commands, or its key is among the hidden ones, and whoever is about
  to remove it has copied it, or the file it copied to was written by several;
- `NoRollbackCorrect` from `Ordered`: while commands follow one another, no file
  is written by two (`Unmixed`), an entry beside a legacy blob of its key is a copy
  of that blob, a command that loads or saves works on a store whose blob is gone,
  and what it saves is no older than the entry, since the provider numbers what it
  issues, unless its sign-in brought none.

`CredentialsProof`, with `Period < Life` (the refresh interval is shorter than the
lifetime of a bearer): `LeftoverCorrect` from `Tasks` (a task is busy after its
attempt only if it was when the attempt ended); `BearerCorrect` from `Paced` (the
bearer is no older than the sleep of the periodic task, or the calm is no longer
than it); `CacheCorrect` from `OneWriter` (a writer alone holds the temporary
file, and the file holds what it has written so far).

`ManagementProof`: `EventsCorrect` from `InOrder` (the numbers on the wire and in
the buffer ascend, and only the two pieces of one line share one);
`AnswersCorrect` from `Chain`, `Uncut` and `Newest` (each piece carries the token
told of before it, and the token at hand is the one the next piece expects).
`RoutedCorrect` joins what a reply means with how it travels.

- The data: the library's induction theorems take an operator, which the provers
  cannot instantiate. Its theorem on well-founded relations takes a *set*
  (`WFMin`), so `LeastNatural`, `Induction` and `Recursion` are stated with sets:
  a counterexample would have a least one, and a recursion has a solution because
  its beginnings fit together. From there `Powers` (`Pow2` is what its recursion
  says), `Bits` and `SamePrefix` (an address is its bits), `MaskPrefix`
  (`ipv4_mask_to_prefix` accepts exactly the masks without a hole),
  `MaskRoundTrip` (it undoes `ipv4_prefix_to_mask`; a longer prefix comes back
  clamped) and `ConfigRoutesAsIncluded` (the route lines of the configuration).
  `ParseTokenEffect` says what one token does, `ParseSummary` what all of them
  have done, `DesiredTaken` what the networks then hold, and `DesiredAsPushed`
  that these are exactly the addresses of `SentThrough`, but for the two forms
  that the code reads otherwise. `PolicyDecidesOnLast` reads the policy the same
  way: `parse_token` overwrites, so the last cipher and the last compression
  decide.
- The protocol: `RInv` extends the invariant with `Latest` (the last push line on
  the wire holds the last reply), `InForce` (with none on the wire and none cut,
  the options are the parse of that reply), `Asked` (once connected, what is
  routed is what the options ask for) and `Received` (openvpn is up only after a
  reply). TLC checked `RInv` before it was proved.

`ManagementAssumption` and `PushAssumption` say only that bounds are naturals,
that replies are sequences of tokens whose auth-token values are tokens, that
`None` is no value, and that an address has at least one bit. That what is applied
are networks (`DesiredNets`) is by the prefix check of `route_for_apply`.

`NetMonProof`: `RateCorrect` from `Bounded` (the counter has not outgrown the last
sample by more than was received) and the rounding down of the division by the
elapsed time; `FlowingCorrect` from `InSession` and
`Advanced` (the second sample in a row with new bytes has refreshed the age of the
last received byte). The types need a queue of at least one event, since opening
the watcher queues one.

Only model-checked: the liveness properties `CancelEndsRun`, `NoWedge`,
`EveryWaitEnds`, `CancelFreesSlot` and `DeadLinkRestarted`, since fairness and
ENABLED are outside the prover's reach. Every invariant and every other action
property of the passing runs has a theorem.

## Not modelled

- IPC transport, wire types and operating-system identity: system calls; the
  admin gate refuses a call before it changes anything.
- Profile XML and most of the generated openvpn configuration: text conversion
  without state. The directives the event loop relies on are in `Management`.
- The route view of `status`, which reads the routing table and changes nothing.
- The temporary file of `target.json`: a save is one step that may fail. Two
  savers through one temporary path have the shape that `Credentials` models
  for the daemon cache.
- The command line client beyond the token cache and the requests of up and
  down; installation, update and packaging; release tooling; logging.
- Deadlines of the watchdog, and the ages of the daily refresh (60 and 90 days):
  "may fire". The cloud queries of the CLI beyond their reading of the cache.

## Plan

What could come next:

1. The hazards without a property that `PROJECT.json` lists, each with the reason
   given there; three of them need a finer grain of the daemon's shutdown.
2. The composition of `Routes` with `Management`: the networks of a reply as the
   requests of `apply`, so that `RoutedCorrect` and `ConnectedCorrect` meet at the
   kernel's table.

None of the modules uses a RECURSIVE operator: recursion is a recursive function,
so that the modules stay within the prover's reach.
