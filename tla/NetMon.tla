------------------------------- MODULE NetMon -------------------------------
(***************************************************************************)
(* The network monitor of one attempt, the byte counters, and the soft     *)
(* restart they decide: netmon.rs with its power sources, and the netmon   *)
(* and BYTECOUNT arms of the event loop.                                   *)
(*                                                                         *)
(* Time is kept as ages: how long ago something happened, counted up to    *)
(* the bound at which the code stops telling them apart.  A tick is no     *)
(* shorter than the 100 ms below which two byte counts give no rate.  A    *)
(* suspended host stops these clocks; only the wall clock of the Windows   *)
(* heuristic goes on.  The tx counter is treated like rx and left out.  An *)
(* attempt whose monitor could not be built has none of this and is not    *)
(* modelled here.                                                          *)
(***************************************************************************)
EXTENDS Integers, Sequences

CONSTANTS
    Settle,         \* SETTLE
    Cooldown,       \* COALESCE_COOLDOWN
    ByteFresh,      \* age at which a byte count is no longer fresh
    RxFresh,        \* age at which the last received byte is no longer recent
    Poll, Jump,     \* WALL_CLOCK_POLL, WALL_CLOCK_JUMP
    Second,         \* ticks in a second
    Subnets,        \* networks the tun may be in
    None,
    MaxQueue,       \* model bound: interface events waiting
    MaxBytes        \* model bound: byte counter of an openvpn session

ASSUME NetMonAssumption ==
    /\ Settle \in Nat \ {0} /\ Cooldown \in Nat \ {0} /\ ByteFresh \in Nat \ {0}
    /\ RxFresh \in Nat \ {0} /\ Poll \in Nat \ {0} /\ Jump \in Nat \ {0} /\ Second \in Nat \ {0}
    /\ MaxQueue \in Nat \ {0} /\ MaxBytes \in Nat
    /\ None \notin Nat /\ None \notin Subnets /\ None \notin [rx : Nat, age : Nat]
    /\ None \notin [rate : Nat, window : Nat]

VARIABLES
    platform,       \* "darwin", "linux" or "windows"
    power,          \* power_rx: "open", "closed", or None
    wakes,          \* a wake waits in power_rx
    queue,          \* interface events the watcher has not handed out
    selfNet,        \* self_ips: the network that holds our address, or None
    armedAge,       \* age of armed_at, or None
    emitAge,        \* age of last_emit, or None
    wall,           \* wall-clock time since last_wall_poll; Jump also stands for a step back
    nextCheck,      \* time to next_wall_check
    status,         \* VpnState as far as the gate looks: "Connected" or "Other"
    haveConnected,
    rx,             \* openvpn's counter
    prev,           \* prev_byte_sample: None or [rx, age], in ticks up to ByteFresh
    rxAge,          \* age of last_rx_advance, or None
    throughput,     \* metrics.throughput: None or [rate, window], per second and in seconds
    busy,           \* the loop awaits the bearer refresh ahead of SIGUSR1
    link,           \* the tunnel carries bytes
    received,       \* history: bytes received since the last sample
    streak          \* history: samples in a row that found new bytes of one session, up to 2

vars == <<platform, power, wakes, queue, selfNet, armedAge, emitAge, wall, nextCheck, status,
          haveConnected, rx, prev, rxAge, throughput, busy, link, received, streak>>
monitor == <<platform, power, wakes, queue, selfNet, armedAge, emitAge, wall, nextCheck>>
counters == <<rx, prev, rxAge, throughput, received, streak>>

Smaller(a, b) == IF a < b THEN a ELSE b
Larger(a, b) == IF a > b THEN a ELSE b
Age(bound) == 0 .. bound \union {None}
Older(age, bound) == IF age = None THEN None ELSE Smaller(age + 1, bound)
IsSome(age, bound) == age # None /\ age < bound

\* An interface event is the network that came up or went down.  The stream
\* may also fail or end.
Event == Subnets \union {"lan"}

TypeOK ==
    /\ platform \in {"darwin", "linux", "windows"} /\ wakes \in BOOLEAN
    /\ power \in {"open", "closed", None}
    /\ queue \in Seq(Event \union {"error", "end"}) /\ Len(queue) <= MaxQueue
    /\ selfNet \in Subnets \union {None}
    /\ armedAge \in Age(Settle) /\ emitAge \in Age(Cooldown)
    /\ (selfNet = None) = (armedAge = None)
    /\ wall \in 0 .. Jump /\ nextCheck \in 0 .. Poll
    /\ status \in {"Connected", "Other"} /\ haveConnected \in BOOLEAN
    /\ rx \in 0 .. MaxBytes /\ received \in 0 .. MaxBytes
    /\ prev = None \/ prev \in [rx : 0 .. MaxBytes, age : 0 .. ByteFresh]
    /\ rxAge \in Age(RxFresh)
    /\ throughput = None \/ throughput \in [rate : 0 .. MaxBytes * Second, window : 1 .. ByteFresh]
    /\ busy \in BOOLEAN /\ link \in BOOLEAN /\ streak \in 0 .. 2

windows == platform = "windows"     \* where the wall clock is polled

\* watch of each platform: the thread may not start, or end at once because
\* IOKit refuses; the bus may not be reachable; Windows has a closed channel.
WatchDarwin == {"open", "closed", None}
WatchLinux == {"open", None}
WatchWindows == {"closed"}
OpenPowerSource ==
    CASE platform = "darwin" -> WatchDarwin
      [] platform = "linux" -> WatchLinux
      [] platform = "windows" -> WatchWindows

\* NetMon::new, with the addresses the interfaces already have in the queue.
Init ==
    /\ platform \in {"darwin", "linux", "windows"}
    /\ power \in OpenPowerSource
    /\ wakes = FALSE
    /\ queue \in {<<>>, <<"lan">>}
    /\ selfNet = None /\ armedAge = None /\ emitAge = None
    /\ wall = 0 /\ nextCheck = Poll
    /\ status = "Other" /\ haveConnected = FALSE
    /\ rx = 0 /\ prev = None /\ rxAge = None /\ throughput = None
    /\ busy = FALSE /\ link = FALSE
    /\ received = 0 /\ streak = 0

-----------------------------------------------------------------------------
(* The environment *)

Tick ==
    /\ armedAge' = Older(armedAge, Settle)
    /\ emitAge' = Older(emitAge, Cooldown)
    /\ rxAge' = Older(rxAge, RxFresh)
    /\ prev' = IF prev = None THEN None ELSE [prev EXCEPT !.age = Older(@, ByteFresh)]
    /\ wall' = IF windows THEN Smaller(wall + 1, Jump) ELSE wall
    /\ nextCheck' = IF windows /\ nextCheck > 0 THEN nextCheck - 1 ELSE nextCheck
    /\ UNCHANGED <<platform, power, wakes, queue, selfNet, status, haveConnected, rx, throughput,
                   busy, link, received, streak>>

\* An interface event, or trouble with the stream.
Interface ==
    /\ Len(queue) < MaxQueue
    /\ \A i \in DOMAIN queue : queue[i] # "end"
    /\ \E event \in Event \union {"error", "end"} : queue' = Append(queue, event)
    /\ UNCHANGED <<platform, power, wakes, selfNet, armedAge, emitAge, wall, nextCheck, status,
                   haveConnected, counters, busy, link>>

\* Messages of the power source that stand for a resume; the others (about to
\* sleep, about to power on) are acknowledged or ignored.
IsWake(message) ==
    CASE platform = "darwin" -> message = "HasPoweredOn"
      [] platform = "linux" -> message = "PrepareForSleep(false)"
      [] OTHER -> FALSE

\* A message of the power source.  Wakes that wait are counted as one: the
\* cooldown makes one of them.
PowerMessage ==
    /\ power = "open"
    /\ \E message \in {"WillSleep", "WillPowerOn", "HasPoweredOn", "PrepareForSleep(true)",
                       "PrepareForSleep(false)"} :
        wakes' = (wakes \/ IsWake(message))
    /\ UNCHANGED <<platform, power, queue, selfNet, armedAge, emitAge, wall, nextCheck, status,
                   haveConnected, counters, busy, link>>

\* The wall clock jumps: the host was suspended, or the clock was set.
WallClockJumps ==
    /\ windows
    /\ wall' = Jump
    /\ UNCHANGED <<platform, power, wakes, queue, selfNet, armedAge, emitAge, nextCheck, status,
                   haveConnected, counters, busy, link>>

\* The listener gives up: the bus connection ends, or a signal does not decode.
PowerSourceEnds ==
    /\ platform = "linux" /\ power = "open" /\ ~wakes
    /\ power' = "closed"
    /\ UNCHANGED <<platform, wakes, queue, selfNet, armedAge, emitAge, wall, nextCheck, status,
                   haveConnected, counters, busy, link>>

Bytes ==
    /\ link /\ rx < MaxBytes /\ received < MaxBytes
    /\ rx' = rx + 1 /\ received' = received + 1
    /\ UNCHANGED <<monitor, status, haveConnected, prev, rxAge, throughput, busy, link, streak>>

LinkDies ==
    /\ link
    /\ link' = FALSE
    /\ UNCHANGED <<monitor, status, haveConnected, counters, busy>>

-----------------------------------------------------------------------------
(* The monitor *)

\* Plausible slip: the addresses are registered but the watcher is not armed.
SetSelfIpsUnarmed(net) == selfNet' = net /\ UNCHANGED <<armedAge, emitAge, wall, nextCheck>>

\* set_self_ips: the first call arms the watcher.
SetSelfIps(net) ==
    IF net = selfNet /\ armedAge # None
    THEN UNCHANGED <<selfNet, armedAge, emitAge, wall, nextCheck>>
    ELSE /\ selfNet' = net
         /\ IF armedAge = None
            THEN armedAge' = 0 /\ emitAge' = None /\ wall' = 0 /\ nextCheck' = Poll
            ELSE UNCHANGED <<armedAge, emitAge, wall, nextCheck>>

\* The gate: link_appears_healthy.
LinkAppearsHealthy ==
    /\ status = "Connected"
    /\ prev # None /\ prev.age < ByteFresh
    /\ IsSome(rxAge, RxFresh)

\* The tests of next_change after a source has fired.
Passes(event) ==
    /\ armedAge # None /\ ~IsSome(armedAge, Settle)
    /\ event # selfNet
    /\ ~IsSome(emitAge, Cooldown)

\* Plausible slip: an event that is coalesced starts the cooldown anew.
DecideCooldownAnew(event) ==
    IF Passes(event)
    THEN /\ emitAge' = 0
         /\ IF LinkAppearsHealthy THEN UNCHANGED busy
            ELSE busy' = TRUE
    ELSE emitAge' = 0 /\ UNCHANGED busy

\* The netmon arm for one event of a source: emitted or not, then the gate,
\* then the refresh that precedes the restart.
Decide(event) ==
    IF Passes(event)
    THEN /\ emitAge' = 0
         /\ IF LinkAppearsHealthy THEN UNCHANGED busy
            ELSE busy' = TRUE
    ELSE UNCHANGED <<emitAge, busy>>

\* The arm is polled once the tunnel has been connected, and not while the
\* loop is elsewhere.
Polled == haveConnected /\ ~busy

MonitorUnchanged == UNCHANGED <<platform, selfNet, armedAge, status, haveConnected, counters, link>>

\* An error is skipped; the end of the stream parks the arm, until another
\* arm of the loop wins and next_change is called again.
IfEvent ==
    /\ Polled /\ queue # <<>> /\ Head(queue) # "end"
    /\ queue' = Tail(queue)
    /\ IF Head(queue) = "error" THEN UNCHANGED <<emitAge, busy>> ELSE Decide(Head(queue))
    /\ MonitorUnchanged /\ UNCHANGED <<power, wakes, wall, nextCheck>>

Wake ==
    /\ Polled /\ wakes
    /\ wakes' = FALSE
    /\ Decide("wake")
    /\ MonitorUnchanged /\ UNCHANGED <<power, queue, wall, nextCheck>>

\* A closed channel is dropped, so that it is not asked again.
PowerClosed ==
    /\ Polled /\ power = "closed"
    /\ power' = None
    /\ MonitorUnchanged /\ UNCHANGED <<wakes, queue, wall, nextCheck, emitAge, busy>>

\* evaluate_wall_clock
WallClockTick ==
    /\ Polled /\ windows /\ nextCheck = 0
    /\ wall' = 0 /\ nextCheck' = Poll
    /\ IF wall >= Jump THEN Decide("jump") ELSE UNCHANGED <<emitAge, busy>>
    /\ MonitorUnchanged /\ UNCHANGED <<power, wakes, queue>>

-----------------------------------------------------------------------------
(* The other arms of the loop *)

\* The refresh is over and SIGUSR1 is sent: the session's counters restart.
SoftRestart ==
    /\ busy
    /\ busy' = FALSE
    /\ status' = "Other"
    /\ link' = FALSE
    /\ rx' = 0 /\ streak' = 0
    /\ UNCHANGED <<monitor, haveConnected, prev, rxAge, throughput, received>>

\* The address an event brings is registered, if it brings one.
Register(net) ==
    IF net = None THEN UNCHANGED <<selfNet, armedAge, emitAge, wall, nextCheck>> ELSE SetSelfIps(net)

\* A push reply, of a new session or on a tunnel that is up; its ifconfig,
\* when it has one, is registered before the tun has the address.
PushReply ==
    /\ ~busy
    /\ \E net \in Subnets \union {None} : Register(net)
    /\ UNCHANGED <<platform, power, wakes, queue, status, haveConnected, counters, busy, link>>

\* CONNECTED, with or without the address of the tun.
Connected ==
    /\ ~busy /\ status = "Other"
    /\ status' = "Connected" /\ haveConnected' = TRUE /\ link' = TRUE
    /\ \E net \in Subnets \union {None} : Register(net)
    /\ UNCHANGED <<platform, power, wakes, queue, counters, busy>>

\* openvpn's own restart.
Reconnecting ==
    /\ ~busy /\ status = "Connected"
    /\ status' = "Other" /\ link' = FALSE
    /\ rx' = 0 /\ streak' = 0
    /\ UNCHANGED <<monitor, haveConnected, prev, rxAge, throughput, received, busy>>

\* Plausible slip: the difference of two counters is taken without its sign.
ThroughputBetweenWrong(p) ==
    IF p.age = 0 THEN None
    ELSE [rate |-> ((IF rx > p.rx THEN rx - p.rx ELSE p.rx - rx) * Second) \div p.age,
          window |-> Larger(p.age \div Second, 1)]

\* throughput_between: none for samples too close together or for a counter
\* that went back.  The rate is over the time elapsed; the window reported
\* with it is in whole seconds, and never 0.
ThroughputBetween(p) ==
    IF p.age = 0 \/ rx < p.rx THEN None
    ELSE [rate |-> ((rx - p.rx) * Second) \div p.age, window |-> Larger(p.age \div Second, 1)]

\* Plausible slip: a counter that went back leaves the old sample in place.
NextSampleLargest ==
    IF prev # None /\ prev.rx > rx THEN [prev EXCEPT !.age = 0] ELSE [rx |-> rx, age |-> 0]

NextSample == [rx |-> rx, age |-> 0]

ByteCount ==
    /\ ~busy
    /\ throughput' = IF prev = None THEN None ELSE ThroughputBetween(prev)
    /\ rxAge' = IF prev # None /\ rx > prev.rx THEN 0 ELSE rxAge
    /\ prev' = NextSample
    /\ received' = 0
    /\ streak' = IF received = 0 THEN 0 ELSE Smaller(streak + 1, 2)
    /\ UNCHANGED <<monitor, status, haveConnected, rx, busy, link>>

-----------------------------------------------------------------------------

Next ==
    \/ Tick \/ Interface \/ PowerMessage \/ WallClockJumps \/ PowerSourceEnds \/ Bytes \/ LinkDies
    \/ IfEvent \/ Wake \/ PowerClosed \/ WallClockTick
    \/ SoftRestart \/ PushReply \/ Connected \/ Reconnecting \/ ByteCount

\* Time passes; the sources are raced by a select! that picks a ready one at
\* random, so one that stays ready is taken.  That the refresh ends is assumed
\* of the token endpoint (the request has no timeout).
Fairness == WF_vars(Tick) /\ WF_vars(IfEvent) /\ WF_vars(SoftRestart)

Spec == Init /\ [][Next]_vars
LiveSpec == Spec /\ Fairness

-----------------------------------------------------------------------------
(* Properties *)

\* The reported rate, over the time that really elapsed between its two
\* samples (not over the window reported with it, which is rounded to whole
\* seconds), never claims more bytes than were received in that time, although
\* the counters start again with every session and a new session may overtake
\* the sample of the old one.
RateNotInflated ==
    [][ByteCount /\ throughput' # None => throughput'.rate * prev.age <= received * Second]_vars

\* A tunnel that carries traffic is not restarted for a network event: not
\* when it is connected and the last two byte counts, the newest of them
\* fresh, both found new bytes of the current session.
FlowingLinkNotRestarted ==
    [][~busy /\ busy' => ~(status = "Connected" /\ streak = 2 /\ prev.age < ByteFresh /\ prev.age < RxFresh)]_vars

\* A tunnel that openvpn still calls connected but that no longer carries
\* bytes gets its SIGUSR1, unless openvpn itself leaves CONNECTED, if the
\* monitor is armed and interface events that are not of our own tun keep
\* coming: neither the cooldown nor the gate, which bytes of just before may
\* still satisfy, nor a dead power source keeps the monitor from it for ever.
\* It asks for nothing while the tunnel is not connected, and of a monitor
\* that never learned an address.
DeadLinkRestarted ==
    []<>(queue # <<>> /\ Head(queue) = "lan") =>
        ((status = "Connected" /\ ~link /\ armedAge # None) ~> status # "Connected")

=============================================================================
