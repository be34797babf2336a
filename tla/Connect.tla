------------------------------- MODULE Connect -------------------------------
(***************************************************************************)
(* The connect lifecycle of one tunnel: connect::run, the retry loop, and  *)
(* connect::attempt, which spawns openvpn, drives its management           *)
(* interface, installs DNS and routes, and tears everything down again.    *)
(*                                                                         *)
(* Kept: every early return, every arm of the event loop's biased select!, *)
(* the order of the post-loop teardown, the classification of outcomes and *)
(* the retry budget.  Abstracted: messages and addresses to small sets;    *)
(* the kernel state to the set `held' of what the managers believe they    *)
(* have installed (module Routes has the kernel); time to "the watchdog    *)
(* may fire in this phase" (its deadlines are constants of watchdog.rs);   *)
(* push options to acceptable / unacceptable.  Events that only log, and   *)
(* byte counters and re-auth prompts, change nothing kept here.            *)
(*                                                                         *)
(* openvpn itself, the gateway and the user are the environment: openvpn   *)
(* may emit any event at any time, exit at any time and lose its           *)
(* management socket at any time.                                          *)
(***************************************************************************)
EXTENDS Integers

CONSTANTS
    MaxRetries,   \* delays default_backoff() yields before None (8 in the code)
    Handshake,    \* VpnStates other than Connected, Reconnecting and Exiting
    Ips,          \* tunnel-local addresses the gateway may assign
    NoIp,         \* local_ip = None
    MaxOutages    \* model bound: how often the tunnel may leave Connected

SpecialState == {"Connected", "Reconnecting", "Exiting"}
Synthetic == {"Idle", "Connecting", "Exited", "Failed"}
VpnState == Handshake \union SpecialState

ASSUME ConnectAssumption ==
    /\ MaxRetries \in Nat
    /\ MaxOutages \in Nat
    /\ NoIp \notin Ips
    /\ Handshake \intersect (SpecialState \union Synthetic) = {}

VARIABLES
    pc,            \* where the connect task is
    cancel,        \* the connection's CancellationToken has fired
    result,        \* what run() returned
    retries,       \* backoff delays consumed
    authType,      \* profile.clientauth.auth_type
    status,        \* the status watch: a synthetic value or a VpnState
    localIp,       \* local_ip carried by the status
    proc,          \* the openvpn child as the OS sees it
    mgmtUp,        \* the management socket works
    signal,        \* last signal openvpn got in this attempt
    quitting,      \* openvpn announced its own exit (FATAL or EXITING)
    haveConnected, \* attempt()'s have_connected
    phase,         \* Watchdog::phase
    outcome,       \* attempt()'s outcome; "none" is None
    held,          \* kernel state the route and DNS managers hold
    lastError,     \* metrics.last_error is Some
    reconnects,    \* metrics.reconnects
    outages,       \* history: how often the status left Connected
    lateSpawns     \* history: openvpn children launched after cancellation

runVars == <<pc, cancel, result, retries>>
reportVars == <<status, localIp, lastError, reconnects, outages>>
childVars == <<proc, mgmtUp, signal, quitting, lateSpawns>>
loopVars == <<haveConnected, phase, outcome>>
vars == <<runVars, reportVars, childVars, loopVars, held, authType>>

InLoop == pc \in {"loop", "applying", "softrestart"}
InAttempt == InLoop \/ pc \in {"mgmt", "subscribe", "teardown", "wait"}

TypeOK ==
    /\ pc \in {"validate", "attempt", "mgmt", "subscribe", "loop", "applying",
               "softrestart", "teardown", "wait", "backoff", "refresh", "done"}
    /\ cancel \in BOOLEAN
    /\ result \in {"none", "Ok", "Err"}
    /\ retries \in 0..MaxRetries
    /\ authType \in {"Aad", "UsernamePass", "Certificate"}
    /\ status \in Synthetic \union VpnState
    /\ localIp \in Ips \union {NoIp}
    /\ proc \in {"none", "running", "exited"}
    /\ mgmtUp \in BOOLEAN
    /\ signal \in {"none", "SIGUSR1", "SIGTERM"}
    /\ quitting \in BOOLEAN
    /\ haveConnected \in BOOLEAN
    /\ phase \in {"PreConnect", "Connected", "LeftConnected"}
    /\ outcome \in {"none", "Completed", "Transient", "Fatal"}
    /\ held \subseteq {"routes", "dns"}
    /\ lastError \in BOOLEAN
    /\ reconnects \in Nat
    /\ outages \in Nat
    /\ lateSpawns \in Nat

Init ==
    /\ pc = "validate" /\ cancel = FALSE /\ result = "none" /\ retries = 0
    /\ authType \in {"Aad", "UsernamePass", "Certificate"}
    /\ status = "Idle" /\ localIp = NoIp
    /\ proc = "none" /\ mgmtUp = FALSE /\ signal = "none" /\ quitting = FALSE
    /\ haveConnected = FALSE /\ phase = "PreConnect" /\ outcome = "none"
    /\ held = {} /\ lastError = FALSE
    /\ reconnects = 0 /\ outages = 0 /\ lateSpawns = 0

-----------------------------------------------------------------------------
(* run(): the retry loop around attempt() *)

\* Plausible slip: the retry budget is checked after the user's cancellation
\* is forgotten, so a cancelled connection keeps retrying.
SettleForgetsCancel(o) ==
    \/ /\ o = "Transient" /\ retries < MaxRetries
       /\ pc' = "backoff"
       /\ retries' = retries + 1
       /\ UNCHANGED <<cancel, result>>
    \/ /\ o # "Transient" \/ retries = MaxRetries
       /\ pc' = "done"
       /\ cancel' = TRUE
       /\ result' = IF o = "Completed" THEN "Ok" ELSE "Err"
       /\ UNCHANGED retries

\* Plausible slip: one delay more than default_backoff() has.
SettleOffByOne(o) ==
    \/ /\ o = "Transient" /\ ~cancel /\ retries <= MaxRetries
       /\ pc' = "backoff"
       /\ retries' = retries + 1
       /\ UNCHANGED <<cancel, result>>
    \/ /\ o # "Transient" \/ cancel \/ retries > MaxRetries
       /\ pc' = "done"
       /\ cancel' = TRUE
       /\ result' = IF o = "Completed" THEN "Ok" ELSE "Err"
       /\ UNCHANGED retries

\* run() acts on the attempt's outcome: retry after a transient failure while
\* there is budget and nobody cancelled, otherwise cancel and return.
Settle(o) ==
    \/ /\ o = "Transient" /\ ~cancel /\ retries < MaxRetries
       /\ pc' = "backoff"
       /\ retries' = retries + 1
       /\ UNCHANGED <<cancel, result>>
    \/ /\ o # "Transient" \/ cancel \/ retries = MaxRetries
       /\ pc' = "done"
       /\ cancel' = TRUE
       /\ result' = IF o = "Completed" THEN "Ok" ELSE "Err"
       /\ UNCHANGED retries

\* bundled_root_matches: a mismatch returns before anything is announced.
Validate ==
    /\ pc = "validate"
    /\ \/ pc' = "attempt" /\ UNCHANGED result
       \/ pc' = "done" /\ result' = "Err"
    /\ UNCHANGED <<cancel, retries, reportVars, childVars, loopVars, held, authType>>

\* The backoff delay elapses; AAD profiles refresh the bearer next.
SleepElapsed ==
    /\ pc = "backoff"
    /\ pc' = IF authType = "Aad" THEN "refresh" ELSE "attempt"
    /\ UNCHANGED <<cancel, result, retries, reportVars, childVars, loopVars, held, authType>>

BackoffCancelled ==
    /\ pc = "backoff" /\ cancel
    /\ pc' = "done" /\ result' = "Err"
    /\ UNCHANGED <<cancel, retries, reportVars, childVars, loopVars, held, authType>>

\* refresh().await ends, with a new token or not; it does not watch cancel.
RefreshReturns ==
    /\ pc = "refresh"
    /\ pc' = "attempt"
    /\ UNCHANGED <<cancel, result, retries, reportVars, childVars, loopVars, held, authType>>

Retry == SleepElapsed \/ BackoffCancelled \/ RefreshReturns

-----------------------------------------------------------------------------
(* attempt(): bring-up *)

\* Plausible slip: attempt() leaves the previous attempt's status in place.
AnnounceNothing == UNCHANGED <<status, localIp>>

Announce == status' = "Connecting" /\ localIp' = NoIp

\* OpenVpnProcess::start succeeded.
Launch ==
    /\ pc' = "mgmt"
    /\ proc' = "running" /\ mgmtUp' = TRUE /\ signal' = "none" /\ quitting' = FALSE
    /\ lateSpawns' = IF cancel THEN lateSpawns + 1 ELSE lateSpawns
    /\ UNCHANGED <<cancel, result, retries>>

\* Everything up to the spawn: no server or no credentials is fatal (client
\* certificates always are), a failed tempfile or spawn is transient.
BeginAttempt ==
    /\ pc = "attempt"
    /\ Announce
    /\ \/ authType # "Certificate" /\ Launch
       \/ Settle("Fatal") /\ UNCHANGED childVars
       \/ authType # "Certificate" /\ Settle("Transient") /\ UNCHANGED childVars
    /\ UNCHANGED <<lastError, reconnects, outages, loopVars, held, authType>>

\* Plausible slip: an early return forgets the child (no kill on drop).
EndEarlyKeepsChild(o) ==
    /\ Settle(o)
    /\ UNCHANGED childVars

\* An early return from attempt() drops the child, which kills it.
EndEarly(o) ==
    /\ Settle(o)
    /\ proc' = "none"
    /\ UNCHANGED <<mgmtUp, signal, quitting, lateSpawns>>

\* connect_management: 20 tries, then a transient failure.
ConnectManagement ==
    /\ pc = "mgmt"
    /\ \/ pc' = "subscribe" /\ UNCHANGED <<cancel, result, retries, childVars>>
       \/ EndEarly("Transient")
    /\ UNCHANGED <<reportVars, loopVars, held, authType>>

\* state on, log on, bytecount, hold off, hold release, then the loop's
\* locals.  A broken socket is transient; a clock before the epoch or no
\* route handle is fatal.
Subscribe ==
    /\ pc = "subscribe"
    /\ \/ /\ mgmtUp
          /\ pc' = "loop"
          /\ haveConnected' = FALSE /\ phase' = "PreConnect" /\ outcome' = "none"
          /\ UNCHANGED <<cancel, result, retries, childVars>>
       \/ ~mgmtUp /\ EndEarly("Transient") /\ UNCHANGED loopVars
       \/ EndEarly("Fatal") /\ UNCHANGED loopVars
    /\ UNCHANGED <<reportVars, held, authType>>

BringUp == BeginAttempt \/ ConnectManagement \/ Subscribe

-----------------------------------------------------------------------------
(* attempt(): the event loop.  The select! is biased with the cancel arm   *)
(* first, so every other arm runs only while the token has not fired.      *)

\* Plausible slip: the other arms are polled before the cancel arm.
AwaitUnbiased == pc = "loop"

Await == pc = "loop" /\ ~cancel

\* A send on a broken socket is an error the callers ignore.
SendSignal(s) == signal' = IF mgmtUp THEN s ELSE signal

\* Leave the loop with outcome o.
Break(o) ==
    /\ pc' = "teardown"
    /\ outcome' = o
    /\ UNCHANGED <<cancel, result, retries, haveConnected, phase>>

\* Plausible slip: the cancel arm leaves the loop without stopping openvpn.
CancelArmSilent ==
    /\ pc = "loop" /\ cancel
    /\ Break("Completed")
    /\ UNCHANGED <<reportVars, childVars, held, authType>>

CancelArm ==
    /\ pc = "loop" /\ cancel
    /\ SendSignal("SIGTERM")
    /\ Break("Completed")
    /\ UNCHANGED <<reportVars, proc, mgmtUp, quitting, lateSpawns, held, authType>>

\* link_appears_healthy: connected, and traffic seen lately.
LooksHealthy(trafficFresh) == status = "Connected" /\ trafficFresh

\* A netmon signal after the first CONNECTED; a healthy link is left alone.
NetChange ==
    /\ Await /\ haveConnected
    /\ \E trafficFresh \in BOOLEAN : ~LooksHealthy(trafficFresh)
    /\ pc' = "softrestart"
    /\ UNCHANGED <<cancel, result, retries, reportVars, childVars, loopVars, held, authType>>

\* The bearer refresh ahead of the restart has ended; restart openvpn softly.
SoftRestart ==
    /\ pc = "softrestart"
    /\ pc' = "loop"
    /\ SendSignal("SIGUSR1")
    /\ UNCHANGED <<cancel, result, retries, reportVars, proc, mgmtUp, quitting, lateSpawns,
                   loopVars, held, authType>>

\* Plausible slip: only the initial connect is timed.
StuckPreConnectOnly(p) == p = "PreConnect"

\* Phases in which on_tick can return a stuck verdict.
Stuck(p) == p \in {"PreConnect", "LeftConnected"}

WatchdogFires ==
    /\ Await /\ Stuck(phase)
    /\ lastError' = TRUE
    /\ SendSignal("SIGTERM")
    /\ Break("Transient")
    /\ UNCHANGED <<status, localIp, reconnects, outages,
                   proc, mgmtUp, quitting, lateSpawns, held, authType>>

\* read_event fails: the socket dropped.  openvpn is not signalled.
ReadFails ==
    /\ Await /\ ~mgmtUp
    /\ lastError' = TRUE
    /\ Break("Transient")
    /\ UNCHANGED <<status, localIp, reconnects, outages, childVars, held, authType>>

\* A >HOLD whose release cannot be sent.
HoldReleaseFails ==
    /\ Await /\ mgmtUp
    /\ mgmtUp' = FALSE
    /\ lastError' = TRUE
    /\ Break("Transient")
    /\ UNCHANGED <<status, localIp, reconnects, outages,
                   proc, signal, quitting, lateSpawns, held, authType>>

\* Watchdog::on_state_change.
OnStateChange(p, s) ==
    IF s = "Connected" THEN "Connected"
    ELSE IF p = "Connected" THEN "LeftConnected"
    ELSE p

\* Plausible slip: every entry into Reconnecting counts (the churn of a
\* single recovery included).
IsReconnectTransition(s) == s = "Reconnecting"

\* is_real_reconnect_edge, with the status before the event.
IsRealReconnectEdge(s) == status = "Connected" /\ s = "Reconnecting"

\* The part of a >STATE: event every state shares: publish it, and only when
\* it changed tell the watchdog and count a reconnect.
RecordState(s, ip) ==
    LET changed == ~(status = s /\ localIp = ip) IN
    /\ Await /\ mgmtUp
    /\ status = "Connected" /\ s # "Connected" => outages < MaxOutages
    /\ status' = s /\ localIp' = ip
    /\ phase' = IF changed THEN OnStateChange(phase, s) ELSE phase
    /\ reconnects' = IF changed /\ IsRealReconnectEdge(s) THEN reconnects + 1 ELSE reconnects
    /\ outages' = IF status = "Connected" /\ s # "Connected" THEN outages + 1 ELSE outages

StateEvent(s, ip) ==
    /\ s \in Handshake \union {"Reconnecting"}
    /\ RecordState(s, ip)
    /\ UNCHANGED <<runVars, lastError, childVars, haveConnected, outcome,
                   held, authType>>

\* apply::tunnel_state, which a cancellation does not interrupt.  DNS: skipped
\* or failed leaves it as it was.  Routes: any set may be installed afterwards,
\* the empty one included.  (The cleanup manifest is in module Routes.)
TunnelState ==
    /\ pc = "applying"
    /\ pc' = "loop"
    /\ \E new \in SUBSET {"dns", "routes"} : held' = (held \intersect {"dns"}) \union new
    /\ UNCHANGED <<cancel, result, retries, reportVars, childVars, loopVars, authType>>

\* Plausible slip: CONNECTED leaves the error of an earlier failure behind.
KeepLastError == UNCHANGED lastError

ClearLastError == lastError' = FALSE

\* CONNECTED: routes are cleared, then everything is applied again.
StateConnected(ip) ==
    /\ RecordState("Connected", ip)
    /\ haveConnected' = TRUE
    /\ ClearLastError
    /\ held' = held \ {"routes"}
    /\ pc' = "applying"
    /\ UNCHANGED <<cancel, result, retries, childVars, outcome, authType>>

\* EXITING leaves the loop without an outcome.
StateExiting(ip) ==
    /\ RecordState("Exiting", ip)
    /\ pc' = "teardown"
    /\ quitting' = TRUE
    /\ UNCHANGED <<cancel, result, retries, lastError, proc, mgmtUp, signal,
                   lateSpawns, haveConnected, outcome, held, authType>>

\* Publish Failed and remember the error.
Fail ==
    /\ status' = "Failed" /\ localIp' = NoIp
    /\ lastError' = TRUE
    /\ UNCHANGED <<reconnects, outages>>

\* Credentials rejected, or a push reply refused on crypto policy.
FatalEvent ==
    /\ Await /\ mgmtUp
    /\ Fail
    /\ SendSignal("SIGTERM")
    /\ Break("Fatal")
    /\ UNCHANGED <<proc, mgmtUp, quitting, lateSpawns, held, authType>>

\* >FATAL: openvpn exits on its own, and the attempt is retried.
OpenVpnFatal ==
    /\ Await /\ mgmtUp
    /\ Fail
    /\ quitting' = TRUE
    /\ Break("Transient")
    /\ UNCHANGED <<proc, mgmtUp, signal, lateSpawns, held, authType>>

\* An acceptable push reply for a tunnel that is already up is applied at
\* once; before the first CONNECTED it is only stored.
PushReply ==
    /\ Await /\ mgmtUp /\ haveConnected
    /\ pc' = "applying"
    /\ UNCHANGED <<cancel, result, retries, reportVars, childVars, loopVars, held, authType>>

EventLoop ==
    \/ CancelArm \/ NetChange \/ SoftRestart \/ WatchdogFires \/ ReadFails \/ HoldReleaseFails
    \/ \E ip \in Ips \union {NoIp} :
          \/ \E s \in Handshake \union {"Reconnecting"} : StateEvent(s, ip)
          \/ StateConnected(ip)
          \/ StateExiting(ip)
    \/ TunnelState \/ FatalEvent \/ OpenVpnFatal \/ PushReply

-----------------------------------------------------------------------------
(* attempt(): after the loop *)

\* Plausible slip: only the routes are cleared.
ReleaseRoutesOnly == held' = held \ {"routes"}

Release == held' = {}

\* Routes, then DNS, then the manifest.
Teardown ==
    /\ pc = "teardown"
    /\ pc' = "wait"
    /\ Release
    /\ UNCHANGED <<cancel, result, retries, reportVars, childVars, loopVars, authType>>

\* The event loop's outcome wins; the exit code decides when there is none.
Classify(code) ==
    IF outcome # "none" THEN outcome
    ELSE IF code = "zero" THEN "Completed" ELSE "Transient"

\* process.wait() returns the exit code ("zero" is 0 or killed by a signal).
\* It has no timeout: while openvpn runs, attempt() does not return.
WaitReturns(code) ==
    /\ pc = "wait" /\ proc = "exited"
    /\ proc' = "none"
    /\ status' = "Exited" /\ localIp' = NoIp
    /\ Settle(Classify(code))
    /\ UNCHANGED <<lastError, reconnects, outages, mgmtUp, signal, quitting,
                   lateSpawns, loopVars, held, authType>>

\* process.wait() itself fails: transient, and the status keeps its value.
WaitFails ==
    /\ pc = "wait"
    /\ EndEarly("Transient")
    /\ UNCHANGED <<reportVars, loopVars, held, authType>>

WindDown == Teardown \/ WaitFails \/ \E code \in {"zero", "nonzero"} : WaitReturns(code)

-----------------------------------------------------------------------------
(* The environment *)

\* The user disconnects, or the daemon shuts down.
Cancel ==
    /\ ~cancel /\ pc # "done"
    /\ cancel' = TRUE
    /\ UNCHANGED <<pc, result, retries, reportVars, childVars, loopVars, held, authType>>

\* openvpn ends, asked to or not.
OpenVpnExits ==
    /\ proc = "running"
    /\ proc' = "exited"
    /\ UNCHANGED <<runVars, reportVars, mgmtUp, signal, quitting, lateSpawns, loopVars,
                   held, authType>>

\* The management socket stops working; the child may live on.
ManagementDrops ==
    /\ mgmtUp /\ proc # "none"
    /\ mgmtUp' = FALSE
    /\ UNCHANGED <<runVars, reportVars, proc, signal, quitting, lateSpawns, loopVars,
                   held, authType>>

\* openvpn has handled SIGUSR1.
OpenVpnRestarts ==
    /\ proc = "running" /\ signal = "SIGUSR1"
    /\ signal' = "none"
    /\ UNCHANGED <<runVars, reportVars, proc, mgmtUp, quitting, lateSpawns, loopVars,
                   held, authType>>

Environment == Cancel \/ OpenVpnExits \/ ManagementDrops \/ OpenVpnRestarts

ConnectTask == Validate \/ Retry \/ BringUp \/ EventLoop \/ WindDown

Returned == pc = "done" /\ UNCHANGED vars

Next == ConnectTask \/ Environment \/ Returned

Spec == Init /\ [][Next]_vars

\* The connect task is scheduled, and what it awaits of the host ends (the
\* tries of connect_management are counted).  A tick of the watchdog that is
\* due stays ready, and the biased select! polls it before it reads another
\* event: no flood of events keeps it from its turn, so its fairness is
\* strong.  WaitFails is not listed: nothing makes wait() fail.
TaskFairness ==
    /\ WF_vars(Validate) /\ WF_vars(SleepElapsed)
    /\ WF_vars(BeginAttempt) /\ WF_vars(ConnectManagement) /\ WF_vars(Subscribe)
    /\ WF_vars(CancelArm) /\ SF_vars(WatchdogFires)
    /\ WF_vars(ReadFails) /\ WF_vars(TunnelState) /\ WF_vars(Teardown)
    /\ WF_vars(\E code \in {"zero", "nonzero"} : WaitReturns(code))

\* Assumed of the token endpoint, not of this code: a refresh is answered, or
\* its connection breaks.  aad_http_client sets no timeout.
EndpointAnswers == WF_vars(RefreshReturns) /\ WF_vars(SoftRestart)

\* A dead openvpn closes its end of the management socket.
SocketFairness == WF_vars(proc = "exited" /\ ManagementDrops)

\* openvpn exits when told to, and after it announced its exit.
OpenVpnObeys == WF_vars((quitting \/ signal = "SIGTERM") /\ OpenVpnExits)

FairSpec == Spec /\ TaskFairness /\ EndpointAnswers /\ SocketFairness /\ OpenVpnObeys

-----------------------------------------------------------------------------
(* Properties *)

\* While the event loop runs, the watchdog's phase agrees with the published
\* status and with have_connected, although the watchdog is told only about
\* deduplicated transitions and the status outlives attempts.  If it did not,
\* a connected tunnel would be killed after 90s, or a wedged one never
\* (Watchdog::on_state_change, send_if_modified in attempt).
WatchdogTracksStatus ==
    InLoop => /\ (phase = "Connected") <=> (status = "Connected")
              /\ (phase = "PreConnect") <=> ~haveConnected

\* A tunnel reported Connected never carries the error of an earlier failure,
\* not even one of an earlier attempt (last_error, cleared on CONNECTED).
HealthyMeansNoError == InLoop /\ status = "Connected" => ~lastError

\* Kernel state is held only between bring-up and teardown of an attempt, and
\* no child outlives its attempt: early returns, retries and the final return
\* leave no route, resolver or openvpn behind (the Drop tripwire of
\* RouteManager, kill_on_drop, the post-loop teardown).
NoResidue ==
    /\ ~InLoop /\ pc # "teardown" => held = {}
    /\ ~InAttempt => proc = "none"

\* A cancellation that lands between the attempts (the token refresh does not
\* watch it) costs at most one more openvpn launch before run() returns.
AtMostOneLateSpawn == lateSpawns <= 1

\* metrics.reconnects never exceeds the number of times the tunnel really
\* went down, however openvpn churns through its states while recovering
\* (is_real_reconnect_edge).
ReconnectsAreOutages == reconnects <= outages

\* Once the connection is cancelled nothing more is installed, except by an
\* apply that was already under way: the biased select! polls the token before
\* it takes another event, and teardown only releases.
NoApplyAfterCancel ==
    [][cancel /\ pc # "applying" => pc' # "applying" /\ held' \subseteq held]_vars

\* A cancelled connection ends, whatever it was doing, unless openvpn is
\* still alive behind a management socket that no longer works (then no
\* SIGTERM reaches it and wait() has no timeout).
CancelEndsRun == cancel ~> (pc = "done" \/ (~mgmtUp /\ proc = "running"))

\* The attempt cannot stay outside Connected for ever: openvpn recovers, or
\* the watchdog takes the attempt out of the event loop, and with it the task
\* comes to Connected in another attempt or returns.  Two cases are excepted.
\* Network changes that never stop coming: their arm is polled before the
\* watchdog, and a refresh that outlasts the cooldown lets the next one in.
\* And, for the return, an openvpn that lives on behind a dead socket.
NoWedge ==
    <>[](pc # "softrestart") =>
        /\ (InLoop /\ status # "Connected") ~> (status = "Connected" \/ ~InLoop)
        /\ (status # "Connected") ~> (status = "Connected" \/ pc = "done" \/ (~mgmtUp /\ proc = "running"))

\* The lifecycle implements the abstract tunnel: attempts are bounded by the
\* retry budget, kernel state is installed only by an apply that began before
\* anybody cancelled, and a returned run() never acts again.
Abstract == INSTANCE Tunnel WITH
    Budget <- MaxRetries,
    Resources <- {"routes", "dns"},
    stage <- IF pc = "done" THEN "closed"
             ELSE IF pc = "applying" THEN "applying"
             ELSE IF InAttempt THEN "open" ELSE "idle",
    budget <- MaxRetries - retries,
    stopped <- cancel

ImplementsTunnel == Abstract!Spec

-----------------------------------------------------------------------------
(* What the repository says, and the code does not do *)

\* A dropped management socket is "transient so the retry loop gets a chance
\* to reestablish".  openvpn may be alive behind it, and wait() then blocks.
DroppedSocketIsRetried ==
    (pc = "wait" /\ outcome = "Transient" /\ ~mgmtUp /\ signal # "SIGTERM") ~> (pc # "wait")
=============================================================================
