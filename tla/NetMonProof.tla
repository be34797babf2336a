---------------------------- MODULE NetMonProof ----------------------------
(***************************************************************************)
(* The network monitor and the byte counters, for every settle window,     *)
(* cooldown and freshness bound, any number of networks, queued events and *)
(* bytes.                                                                  *)
(***************************************************************************)
EXTENDS NetMon, TLAPS

-----------------------------------------------------------------------------
(* The inductive invariant *)

\* The counter has not grown past the last sample by more than was received.
Bounded == prev # None => rx <= prev.rx + received

\* Once a sample has found new bytes, and until the session ends, the counter
\* and the bytes since that sample go together.
InSession == streak > 0 => prev # None /\ rx = prev.rx + received

\* The second such sample in a row has seen the counter advance: the advance
\* is as old as the sample, as long as both are told apart.
Advanced ==
    streak = 2 => /\ rxAge # None
                  /\ prev.age < ByteFresh /\ prev.age < RxFresh => rxAge <= prev.age

Inv == TypeOK /\ Bounded /\ InSession /\ Advanced

-----------------------------------------------------------------------------
(* Ages, sequences and rates *)

LEMMA OlderFacts ==
    ASSUME NEW bound \in Nat, NEW age \in Age(bound)
    PROVE  /\ Older(age, bound) \in Age(bound)
           /\ (Older(age, bound) = None) = (age = None)
           /\ age # None => /\ age \in 0 .. bound
                            /\ Older(age, bound) \in 0 .. bound
                            /\ Older(age, bound) <= age + 1
                            /\ Older(age, bound) < bound => Older(age, bound) = age + 1
  BY NetMonAssumption DEF Age, Older, Smaller

LEMMA QueueFacts ==
    ASSUME NEW S, NEW s \in Seq(S)
    PROVE  /\ \A e \in S : Append(s, e) \in Seq(S) /\ Len(Append(s, e)) = Len(s) + 1
           /\ s # <<>> => /\ Head(s) \in S /\ Tail(s) \in Seq(S)
                          /\ Len(Tail(s)) = Len(s) - 1
           /\ Len(s) \in Nat
  OBVIOUS

\* A rate over a window is no more than what the window holds.
LEMMA Division ==
    ASSUME NEW n \in Nat, NEW d \in Nat \ {0}
    PROVE  n \div d \in 0 .. n /\ (n \div d) * d <= n
  <1>1. n \div d \in Nat /\ n % d \in 0 .. d - 1 /\ n = d * (n \div d) + (n % d)
    OBVIOUS
  <1>2. (n \div d) * d <= n
    BY <1>1
  <1>3. n \div d <= (n \div d) * d
    BY <1>1
  <1> QED
    BY <1>1, <1>2, <1>3

\* Multiplying by the ticks of a second keeps an order.
LEMMA Products ==
    ASSUME NEW n \in Nat, NEW m \in Nat, n <= m, NEW d \in Nat
    PROVE  n * d \in 0 .. m * d
  <1>1. m = n + (m - n) /\ m - n \in Nat
    OBVIOUS
  <1>2. m * d = n * d + (m - n) * d
    BY <1>1
  <1>3. n * d \in Nat /\ (m - n) * d \in Nat
    BY <1>1
  <1> QED
    BY <1>2, <1>3

-----------------------------------------------------------------------------
(* Types *)

TypeStep ==
    /\ (selfNet' = None) = (armedAge' = None)
    /\ selfNet' \in Subnets \union {None}
    /\ armedAge' \in Age(Settle) /\ emitAge' \in Age(Cooldown)
    /\ wall' \in 0 .. Jump /\ nextCheck' \in 0 .. Poll

LEMMA SetSelfIpsTyped ==
    ASSUME TypeOK, NEW net \in Subnets, SetSelfIps(net)
    PROVE  TypeStep
  BY NetMonAssumption DEF TypeOK, TypeStep, SetSelfIps, Age

LEMMA RegisterTyped ==
    ASSUME TypeOK, NEW net \in Subnets \union {None}, Register(net)
    PROVE  TypeStep
  <1>1. CASE net = None
    BY <1>1 DEF Register, TypeOK, TypeStep
  <1>2. CASE net # None
    BY <1>2, SetSelfIpsTyped DEF Register
  <1> QED
    BY <1>1, <1>2

LEMMA DecideTyped ==
    ASSUME TypeOK, NEW event, Decide(event)
    PROVE  emitAge' \in Age(Cooldown) /\ busy' \in BOOLEAN
  <1>1. emitAge' \in Age(Cooldown)
    BY NetMonAssumption DEF TypeOK, Decide, Age
  <1>2. busy' \in BOOLEAN
    BY Zenon DEF TypeOK, Decide
  <1> QED
    BY <1>1, <1>2

LEMMA ByteCountTyped ==
    ASSUME TypeOK, ByteCount
    PROVE  /\ prev' = [rx |-> rx, age |-> 0]
           /\ prev' # None
           /\ prev' \in [rx : 0 .. MaxBytes, age : 0 .. ByteFresh]
           /\ rxAge' \in Age(RxFresh)
           /\ throughput' = None \/ throughput' \in [rate : 0 .. MaxBytes * Second, window : 1 .. ByteFresh]
           /\ received' = 0 /\ streak' \in 0 .. 2
  <1>1. prev' = [rx |-> rx, age |-> 0]
    BY DEF ByteCount, NextSample
  <1>2. prev' \in [rx : 0 .. MaxBytes, age : 0 .. ByteFresh] /\ prev' \in [rx : Nat, age : Nat]
    BY <1>1, NetMonAssumption DEF TypeOK
  <1>3. rxAge' \in Age(RxFresh) /\ received' = 0 /\ streak' \in 0 .. 2
    BY NetMonAssumption DEF TypeOK, ByteCount, Age, Smaller
  <1>4. ASSUME throughput' # None
        PROVE  throughput' \in [rate : 0 .. MaxBytes * Second, window : 1 .. ByteFresh]
    <2>1. prev # None /\ throughput' = ThroughputBetween(prev)
      BY <1>4 DEF ByteCount
    <2>2. prev \in [rx : 0 .. MaxBytes, age : 0 .. ByteFresh]
      BY <2>1 DEF TypeOK
    <2>3. /\ prev.age \in 1 .. ByteFresh /\ rx - prev.rx \in 0 .. MaxBytes
          /\ throughput' = [rate |-> ((rx - prev.rx) * Second) \div prev.age,
                            window |-> Larger(prev.age \div Second, 1)]
      BY <1>4, <2>1, <2>2, NetMonAssumption DEF ThroughputBetween, TypeOK
    <2>4. ((rx - prev.rx) * Second) \div prev.age \in 0 .. MaxBytes * Second
      <3>1. (rx - prev.rx) * Second \in 0 .. MaxBytes * Second
        BY <2>3, Products, NetMonAssumption
      <3>2. ((rx - prev.rx) * Second) \div prev.age \in 0 .. ((rx - prev.rx) * Second)
        BY <2>3, <3>1, Division, NetMonAssumption
      <3> QED
        BY <3>1, <3>2, NetMonAssumption
    <2>5. Larger(prev.age \div Second, 1) \in 1 .. ByteFresh
      <3>1. prev.age \div Second \in 0 .. prev.age
        BY <2>3, Division, NetMonAssumption
      <3> QED
        BY <2>3, <3>1, NetMonAssumption DEF Larger
    <2> QED
      BY <2>3, <2>4, <2>5
  <1> QED
    BY <1>1, <1>2, <1>3, <1>4, NetMonAssumption

LEMMA TickTyped ==
    ASSUME TypeOK, Tick
    PROVE  /\ armedAge' \in Age(Settle) /\ emitAge' \in Age(Cooldown) /\ rxAge' \in Age(RxFresh)
           /\ (selfNet' = None) = (armedAge' = None)
           /\ prev' = None \/ prev' \in [rx : 0 .. MaxBytes, age : 0 .. ByteFresh]
           /\ (prev' = None) = (prev = None)
           /\ prev # None => /\ prev'.rx = prev.rx
                             /\ prev'.age < ByteFresh => prev'.age = prev.age + 1
           /\ (rxAge' = None) = (rxAge = None)
           /\ rxAge # None => rxAge \in Nat /\ rxAge' \in Nat /\ rxAge' <= rxAge + 1
           /\ wall' \in 0 .. Jump /\ nextCheck' \in 0 .. Poll
  <1>1. /\ armedAge' \in Age(Settle) /\ emitAge' \in Age(Cooldown) /\ rxAge' \in Age(RxFresh)
        /\ (selfNet' = None) = (armedAge' = None)
        /\ (rxAge' = None) = (rxAge = None)
        /\ rxAge # None => rxAge \in Nat /\ rxAge' \in Nat /\ rxAge' <= rxAge + 1
    BY OlderFacts, NetMonAssumption DEF TypeOK, Tick
  <1>2. wall' \in 0 .. Jump /\ nextCheck' \in 0 .. Poll
    BY NetMonAssumption DEF TypeOK, Tick, Smaller
  <1>3. ASSUME prev # None
        PROVE  /\ prev' \in [rx : 0 .. MaxBytes, age : 0 .. ByteFresh] /\ prev' # None
               /\ prev'.rx = prev.rx
               /\ prev'.age < ByteFresh => prev'.age = prev.age + 1
    <2>1. prev \in [rx : 0 .. MaxBytes, age : 0 .. ByteFresh]
      BY <1>3 DEF TypeOK
    <2>2. prev.age \in 0 .. ByteFresh /\ prev.age \in Age(ByteFresh) /\ prev.age # None
      BY <2>1, NetMonAssumption DEF Age
    <2>3. /\ Older(prev.age, ByteFresh) \in 0 .. ByteFresh
          /\ Older(prev.age, ByteFresh) < ByteFresh => Older(prev.age, ByteFresh) = prev.age + 1
      BY <2>2, OlderFacts, NetMonAssumption
    <2>4. prev' = [prev EXCEPT !.age = Older(prev.age, ByteFresh)]
      BY <1>3 DEF Tick
    <2>5. /\ prev' \in [rx : 0 .. MaxBytes, age : 0 .. ByteFresh] /\ prev' \in [rx : Nat, age : Nat]
          /\ prev'.rx = prev.rx /\ prev'.age = Older(prev.age, ByteFresh)
      BY <2>1, <2>3, <2>4, NetMonAssumption
    <2> QED
      BY <2>3, <2>5, NetMonAssumption
  <1>4. prev = None => prev' = None
    BY DEF Tick
  <1> QED
    BY <1>1, <1>2, <1>3, <1>4

\* The parts of the type invariant.
TypePlatform == platform \in {"darwin", "linux", "windows"} /\ power \in {"open", "closed", None}
TypeFlags == wakes \in BOOLEAN /\ haveConnected \in BOOLEAN /\ busy \in BOOLEAN /\ link \in BOOLEAN
TypeQueue == queue \in Seq(Event \union {"error", "end"}) /\ Len(queue) <= MaxQueue
TypeMonitor ==
    /\ selfNet \in Subnets \union {None}
    /\ armedAge \in Age(Settle) /\ emitAge \in Age(Cooldown)
    /\ (selfNet = None) = (armedAge = None)
    /\ wall \in 0 .. Jump /\ nextCheck \in 0 .. Poll
TypeCounters ==
    /\ status \in {"Connected", "Other"}
    /\ rx \in 0 .. MaxBytes /\ received \in 0 .. MaxBytes
    /\ prev = None \/ prev \in [rx : 0 .. MaxBytes, age : 0 .. ByteFresh]
    /\ rxAge \in Age(RxFresh)
    /\ throughput = None \/ throughput \in [rate : 0 .. MaxBytes * Second, window : 1 .. ByteFresh]
    /\ streak \in 0 .. 2

LEMMA TypeParts == TypeOK <=> TypePlatform /\ TypeFlags /\ TypeQueue /\ TypeMonitor /\ TypeCounters
  BY Zenon DEF TypeOK, TypePlatform, TypeFlags, TypeQueue, TypeMonitor, TypeCounters

LEMMA TypeInit == Init => TypeOK
  <1> SUFFICES ASSUME Init PROVE TypeOK
    OBVIOUS
  <1>1. TypePlatform
    BY DEF Init, TypePlatform, OpenPowerSource, WatchDarwin, WatchLinux, WatchWindows
  <1>2. TypeFlags
    BY DEF Init, TypeFlags
  <1>3. TypeQueue
    <2>1. <<>> \in Seq(Event \union {"error", "end"}) /\ Len(<<>>) = 0
      OBVIOUS
    <2>2. "lan" \in Event \union {"error", "end"}
      BY DEF Event
    <2>3. <<"lan">> \in Seq(Event \union {"error", "end"}) /\ Len(<<"lan">>) = 1
      BY <2>2
    <2>4. Len(queue) <= MaxQueue
      <3>1. CASE queue = <<>>
        BY <2>1, <3>1, NetMonAssumption
      <3>2. CASE queue = <<"lan">>
        BY <2>3, <3>2, NetMonAssumption
      <3> QED
        BY <3>1, <3>2 DEF Init
    <2> QED
      BY <2>1, <2>3, <2>4 DEF Init, TypeQueue
  <1>4. TypeMonitor
    BY NetMonAssumption DEF Init, TypeMonitor, Age
  <1>5. TypeCounters
    BY NetMonAssumption DEF Init, TypeCounters, Age
  <1> QED
    BY <1>1, <1>2, <1>3, <1>4, <1>5, TypeParts

LEMMA TypeNext == TypeOK /\ [Next]_vars => TypeOK'
  <1> SUFFICES ASSUME TypeOK, [Next]_vars PROVE TypeOK'
    OBVIOUS
  <1>0. TypePlatform /\ TypeFlags /\ TypeQueue /\ TypeMonitor /\ TypeCounters
    BY TypeParts
  <1>1. TypePlatform'
    BY <1>0 DEF TypePlatform, Next, vars, monitor, counters, MonitorUnchanged, Tick, Interface,
           PowerMessage, WallClockJumps, PowerSourceEnds, Bytes, LinkDies, IfEvent, Wake,
           PowerClosed, WallClockTick, SoftRestart, PushReply, Connected, Reconnecting, ByteCount
  <1>2. TypeFlags'
    <2>1. CASE IfEvent \/ Wake \/ WallClockTick
      BY <1>0, <2>1, DecideTyped DEF TypeFlags, IfEvent, Wake, WallClockTick, MonitorUnchanged
    <2>2. CASE [Next /\ ~(IfEvent \/ Wake \/ WallClockTick)]_vars
      BY <1>0, <2>2 DEF TypeFlags, Next, vars, monitor, counters, MonitorUnchanged, Tick,
             Interface, PowerMessage, WallClockJumps, PowerSourceEnds, Bytes, LinkDies,
             PowerClosed, SoftRestart, PushReply, Connected, Reconnecting, ByteCount
    <2> QED
      BY <2>1, <2>2
  <1>3. TypeQueue'
    <2>1. CASE Interface
      BY <1>0, <2>1, QueueFacts, NetMonAssumption DEF TypeQueue, Interface
    <2>2. CASE IfEvent
      BY <1>0, <2>2, QueueFacts, NetMonAssumption DEF TypeQueue, IfEvent
    <2>3. CASE UNCHANGED queue
      BY <1>0, <2>3 DEF TypeQueue
    <2>4. UNCHANGED queue \/ Interface \/ IfEvent
      BY DEF Next, vars, monitor, counters, MonitorUnchanged, Tick, PowerMessage, WallClockJumps,
             PowerSourceEnds, Bytes, LinkDies, Wake, PowerClosed, WallClockTick, SoftRestart,
             PushReply, Connected, Reconnecting, ByteCount
    <2> QED
      BY <2>1, <2>2, <2>3, <2>4
  <1>4. TypeMonitor'
    <2>1. CASE Tick
      BY <1>0, <2>1, TickTyped DEF TypeMonitor, Tick
    <2>2. CASE PushReply \/ Connected
      BY <2>2, RegisterTyped DEF TypeMonitor, TypeStep, PushReply, Connected
    <2>3. CASE IfEvent \/ Wake \/ WallClockTick
      BY <1>0, <2>3, DecideTyped, NetMonAssumption DEF TypeMonitor, IfEvent, Wake, WallClockTick, MonitorUnchanged
    <2>4. CASE WallClockJumps
      BY <1>0, <2>4, NetMonAssumption DEF TypeMonitor, WallClockJumps
    <2>5. CASE UNCHANGED <<selfNet, armedAge, emitAge, wall, nextCheck>>
      BY <1>0, <2>5 DEF TypeMonitor
    <2>6. \/ UNCHANGED <<selfNet, armedAge, emitAge, wall, nextCheck>>
          \/ Tick \/ PushReply \/ Connected \/ IfEvent \/ Wake \/ WallClockTick \/ WallClockJumps
      BY DEF Next, vars, monitor, counters, MonitorUnchanged, Interface, PowerMessage,
             PowerSourceEnds, Bytes, LinkDies, PowerClosed, SoftRestart, Reconnecting, ByteCount
    <2> QED
      BY <2>1, <2>2, <2>3, <2>4, <2>5, <2>6
  <1>5. TypeCounters'
    <2>1. CASE Tick
      BY <1>0, <2>1, TickTyped DEF TypeCounters, Tick
    <2>2. CASE Bytes
      BY <1>0, <2>2, NetMonAssumption DEF TypeCounters, Bytes
    <2>3. CASE SoftRestart \/ Reconnecting \/ Connected
      BY <1>0, <2>3, NetMonAssumption DEF TypeCounters, SoftRestart, Reconnecting, Connected, counters
    <2>4. CASE ByteCount
      BY <1>0, <2>4, ByteCountTyped, NetMonAssumption DEF TypeCounters, ByteCount
    <2>5. CASE UNCHANGED <<status, counters>>
      BY <1>0, <2>5 DEF TypeCounters, counters
    <2>6. \/ UNCHANGED <<status, counters>>
          \/ Tick \/ Bytes \/ SoftRestart \/ Reconnecting \/ Connected \/ ByteCount
      BY DEF Next, vars, counters, MonitorUnchanged, Interface, PowerMessage, WallClockJumps,
             PowerSourceEnds, LinkDies, IfEvent, Wake, PowerClosed, WallClockTick, PushReply
    <2> QED
      BY <2>1, <2>2, <2>3, <2>4, <2>5, <2>6
  <1>6. TypeOK' <=> TypePlatform' /\ TypeFlags' /\ TypeQueue' /\ TypeMonitor' /\ TypeCounters'
    BY Zenon DEF TypeOK, TypePlatform, TypeFlags, TypeQueue, TypeMonitor, TypeCounters
  <1> QED
    BY <1>1, <1>2, <1>3, <1>4, <1>5, <1>6

\* Every variable of the monitor keeps its type: the ages stay within the
\* bounds at which netmon.rs stops telling them apart, the watcher is armed
\* exactly when it knows our address, and a reported rate has a window.
THEOREM TypeCorrect == Spec => []TypeOK
  BY TypeInit, TypeNext, PTL DEF Spec

-----------------------------------------------------------------------------
(* The counters *)

LEMMA InvInit == Init => Inv
  BY TypeInit DEF Init, Inv, Bounded, InSession, Advanced

\* The counters change only with time, traffic, samples and a new session.
LEMMA Quiet ==
    ASSUME [Next]_vars
    PROVE  \/ UNCHANGED counters
           \/ Tick \/ Bytes \/ SoftRestart \/ Reconnecting \/ ByteCount
  BY DEF Next, vars, counters, MonitorUnchanged, Interface, PowerMessage, WallClockJumps,
         PowerSourceEnds, LinkDies, IfEvent, Wake, PowerClosed, WallClockTick, PushReply, Connected

LEMMA InvNext == Inv /\ [Next]_vars => Inv'
  <1> SUFFICES ASSUME Inv, [Next]_vars PROVE Inv'
    OBVIOUS
  <1>0. TypeOK /\ Bounded /\ InSession /\ Advanced
    BY DEF Inv
  <1>t. TypeOK'
    BY <1>0, TypeNext
  <1>1. CASE Tick
    <2>1. UNCHANGED <<rx, received, streak>>
      BY <1>1 DEF Tick
    <2>2. Bounded' /\ InSession'
      BY <1>0, <1>1, <2>1, TickTyped DEF Bounded, InSession
    <2>3. Advanced'
      <3> SUFFICES ASSUME streak = 2, prev'.age < ByteFresh, prev'.age < RxFresh
                   PROVE  rxAge' <= prev'.age
        BY <1>0, <1>1, <2>1, TickTyped DEF Advanced
      <3>1. prev # None /\ rxAge # None
        BY <1>0 DEF InSession, Advanced
      <3>2. prev.age \in 0 .. ByteFresh
        BY <1>0, <3>1 DEF TypeOK
      <3>3. prev'.age = prev.age + 1 /\ rxAge \in Nat /\ rxAge' \in Nat /\ rxAge' <= rxAge + 1
        BY <1>0, <1>1, <3>1, TickTyped
      <3> QED
        BY <1>0, <3>2, <3>3, NetMonAssumption DEF Advanced
    <2> QED
      BY <1>t, <2>2, <2>3 DEF Inv
  <1>2. CASE Bytes
    <2>1. prev # None => prev.rx \in Nat
      BY <1>0, NetMonAssumption DEF TypeOK
    <2>2. Bounded' /\ InSession' /\ Advanced'
      BY <1>0, <1>2, <2>1, NetMonAssumption DEF Bytes, TypeOK, Bounded, InSession, Advanced
    <2> QED
      BY <1>t, <2>2 DEF Inv
  <1>3. CASE SoftRestart \/ Reconnecting
    <2>1. prev # None => prev.rx \in Nat
      BY <1>0, NetMonAssumption DEF TypeOK
    <2>2. Bounded' /\ InSession' /\ Advanced'
      BY <1>0, <1>3, <2>1, NetMonAssumption
         DEF SoftRestart, Reconnecting, TypeOK, Bounded, InSession, Advanced
    <2> QED
      BY <1>t, <2>2 DEF Inv
  <1>4. CASE ByteCount
    <2>1. prev' # None /\ prev'.rx = rx /\ prev'.age = 0 /\ received' = 0 /\ rx' = rx /\ rx \in Nat
      BY <1>0, <1>4, ByteCountTyped DEF ByteCount, TypeOK
    <2>2. Bounded' /\ InSession'
      BY <2>1 DEF Bounded, InSession
    <2>3. ASSUME streak' = 2 PROVE rxAge' = 0
      <3>1. received # 0 /\ streak > 0
        BY <1>0, <1>4, <2>3 DEF ByteCount, TypeOK, Smaller
      <3>2. prev # None /\ rx = prev.rx + received
        BY <1>0, <3>1 DEF InSession
      <3>3. prev.rx \in Nat /\ received \in Nat
        BY <1>0, <3>2 DEF TypeOK
      <3>4. rx > prev.rx
        BY <3>1, <3>2, <3>3
      <3> QED
        BY <1>4, <3>2, <3>4 DEF ByteCount
    <2>4. Advanced'
      BY <2>1, <2>3, NetMonAssumption DEF Advanced
    <2> QED
      BY <1>t, <2>2, <2>4 DEF Inv
  <1>5. CASE UNCHANGED counters
    BY <1>0, <1>t, <1>5 DEF Inv, Bounded, InSession, Advanced, counters
  <1> QED
    BY <1>1, <1>2, <1>3, <1>4, <1>5, Quiet

LEMMA Always == Spec => []Inv
  BY InvInit, InvNext, PTL DEF Spec

\* The reported rate, over the time elapsed between its two samples, never
\* claims more bytes than were received in it: throughput_between with a
\* counter that starts again with every session of openvpn.
THEOREM RateCorrect == Spec => RateNotInflated
  <1>1. ASSUME Inv, ByteCount, throughput' # None
        PROVE  throughput'.rate * prev.age <= received * Second
    <2>1. prev # None /\ throughput' = ThroughputBetween(prev)
      BY <1>1 DEF ByteCount
    <2>2. /\ prev \in [rx : 0 .. MaxBytes, age : 0 .. ByteFresh] /\ rx \in Nat /\ received \in Nat
          /\ rx <= prev.rx + received
      BY <1>1, <2>1 DEF Inv, TypeOK, Bounded
    <2>3. /\ prev.age \in Nat \ {0} /\ rx - prev.rx \in Nat /\ rx - prev.rx <= received
          /\ throughput'.rate = ((rx - prev.rx) * Second) \div prev.age
      BY <1>1, <2>1, <2>2, NetMonAssumption DEF ThroughputBetween
    <2>4. (rx - prev.rx) * Second \in 0 .. received * Second
      BY <2>2, <2>3, Products, NetMonAssumption
    <2>5. /\ throughput'.rate \in Nat
          /\ throughput'.rate * prev.age <= (rx - prev.rx) * Second
      BY <2>3, <2>4, Division
    <2>6. throughput'.rate * prev.age \in Nat /\ received * Second \in Nat
      BY <2>2, <2>3, <2>5, NetMonAssumption
    <2> QED
      BY <2>4, <2>5, <2>6
  <1>2. Inv /\ [Next]_vars =>
            [ByteCount /\ throughput' # None => throughput'.rate * prev.age <= received * Second]_vars
    BY <1>1
  <1> QED
    BY <1>2, Always, PTL DEF Spec, RateNotInflated

\* A tunnel that carries traffic is not restarted for a network event: the
\* gate of the event loop lets no SIGUSR1 through while the last two byte
\* counts found new bytes of the session and the newest is fresh.
THEOREM FlowingCorrect == Spec => FlowingLinkNotRestarted
  <1>1. ASSUME Inv, [Next]_vars, ~busy, busy'
        PROVE  ~(status = "Connected" /\ streak = 2 /\ prev.age < ByteFresh /\ prev.age < RxFresh)
    <2>1. \/ IfEvent \/ Wake \/ WallClockTick
      BY <1>1 DEF Next, vars, MonitorUnchanged, Tick, Interface, PowerMessage, WallClockJumps,
             PowerSourceEnds, Bytes, LinkDies, PowerClosed, SoftRestart, PushReply, Connected,
             Reconnecting, ByteCount
    <2>2. ~LinkAppearsHealthy
      BY <1>1, <2>1 DEF IfEvent, Wake, WallClockTick, Decide
    <2>3. ASSUME status = "Connected", streak = 2, prev.age < ByteFresh, prev.age < RxFresh
          PROVE  LinkAppearsHealthy
      <3>1. prev # None /\ rxAge # None /\ rxAge <= prev.age
        BY <1>1, <2>3 DEF Inv, TypeOK, InSession, Advanced
      <3>2. prev.age \in Nat /\ rxAge \in Nat
        BY <1>1, <3>1, NetMonAssumption DEF Inv, TypeOK, Age
      <3>3. rxAge < RxFresh
        BY <2>3, <3>1, <3>2, NetMonAssumption
      <3> QED
        BY <2>3, <3>1, <3>3 DEF LinkAppearsHealthy, IsSome
    <2> QED
      BY <2>2, <2>3
  <1>2. Inv /\ [Next]_vars =>
          [~busy /\ busy' => ~(status = "Connected" /\ streak = 2 /\ prev.age < ByteFresh /\ prev.age < RxFresh)]_vars
    BY <1>1
  <1> QED
    BY <1>2, Always, PTL DEF Spec, FlowingLinkNotRestarted

=============================================================================
