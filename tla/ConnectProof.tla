----------------------------- MODULE ConnectProof -----------------------------
(***************************************************************************)
(* Safety of the connect lifecycle, and its refinement of the abstract     *)
(* tunnel, for every retry budget, every set of handshake states and every *)
(* set of addresses.                                                       *)
(***************************************************************************)
EXTENDS Connect, TLAPS

-----------------------------------------------------------------------------
(* Type correctness *)

\* Settle returns to the retry loop or ends run(), within the retry budget.
LEMMA SettleType ==
  ASSUME TypeOK, NEW o, Settle(o)
  PROVE  /\ pc' \in {"backoff", "done"}
         /\ cancel' \in BOOLEAN
         /\ result' \in {"none", "Ok", "Err"}
         /\ retries' \in 0..MaxRetries
<1>1. CASE /\ retries < MaxRetries /\ retries' = retries + 1
           /\ pc' = "backoff" /\ UNCHANGED <<cancel, result>>
  BY <1>1, ConnectAssumption DEF TypeOK
<1>2. CASE /\ retries' = retries /\ pc' = "done" /\ cancel' = TRUE
           /\ result' = IF o = "Completed" THEN "Ok" ELSE "Err"
  BY <1>2 DEF TypeOK
<1>3. QED
  BY <1>1, <1>2 DEF Settle

\* Every action of the connect task and of its environment keeps the types.
LEMMA TypeStep == TypeOK /\ [Next]_vars => TypeOK'
<1> SUFFICES ASSUME TypeOK, [Next]_vars PROVE TypeOK'
  OBVIOUS
<1> USE DEF TypeOK, runVars, reportVars, childVars, loopVars
<1>1. CASE Validate
  BY <1>1 DEF Validate
<1>2. CASE SleepElapsed
  BY <1>2 DEF SleepElapsed
<1>3. CASE BackoffCancelled
  BY <1>3 DEF BackoffCancelled
<1>4. CASE RefreshReturns
  BY <1>4 DEF RefreshReturns
<1>5. CASE BeginAttempt
  <2>1. CASE Launch
    <3>1. quitting' \in BOOLEAN
      BY <2>1, Zenon DEF Launch
    <3>2. QED
      BY <1>5, <2>1, <3>1 DEF BeginAttempt, Announce, Launch, Synthetic
  <2>2. CASE \E o \in {"Fatal", "Transient"} : Settle(o) /\ UNCHANGED childVars
    BY <1>5, <2>2, SettleType DEF BeginAttempt, Announce, Synthetic
  <2>3. QED
    BY <1>5, <2>1, <2>2 DEF BeginAttempt
<1>6. CASE ConnectManagement
  BY <1>6, SettleType DEF ConnectManagement, EndEarly
<1>7. CASE Subscribe
  <2>1. haveConnected' \in BOOLEAN
    BY <1>7, Zenon DEF Subscribe
  <2>2. QED
    BY <1>7, <2>1, SettleType DEF Subscribe, EndEarly
<1>8. CASE CancelArm
  BY <1>8 DEF CancelArm, SendSignal, Break
<1>9. CASE NetChange
  BY <1>9 DEF NetChange, Await
<1>10. CASE SoftRestart
  BY <1>10 DEF SoftRestart, SendSignal
<1>11. CASE WatchdogFires
  BY <1>11 DEF WatchdogFires, Await, SendSignal, Break
<1>12. CASE ReadFails
  BY <1>12 DEF ReadFails, Await, Break
<1>13. CASE HoldReleaseFails
  <2>1. mgmtUp' \in BOOLEAN
    BY <1>13, Zenon DEF HoldReleaseFails
  <2>2. QED
    BY <1>13, <2>1 DEF HoldReleaseFails, Break
<1>14. ASSUME NEW ip \in Ips \union {NoIp}, NEW s \in Handshake \union {"Reconnecting"}, StateEvent(s, ip)
       PROVE  TypeOK'
  BY <1>14 DEF StateEvent, RecordState, OnStateChange, IsRealReconnectEdge, VpnState,
     SpecialState
<1>15. ASSUME NEW ip \in Ips \union {NoIp}, StateConnected(ip)
       PROVE  TypeOK'
  <2>1. lastError' \in BOOLEAN
    BY <1>15, Zenon DEF StateConnected, ClearLastError
  <2>2. QED
    BY <1>15, <2>1 DEF StateConnected, RecordState, OnStateChange, IsRealReconnectEdge,
                       VpnState, SpecialState
<1>16. ASSUME NEW ip \in Ips \union {NoIp}, StateExiting(ip)
       PROVE  TypeOK'
  BY <1>16 DEF StateExiting, RecordState, Await, OnStateChange, IsRealReconnectEdge,
     VpnState, SpecialState
<1>17. CASE FatalEvent
  BY <1>17 DEF FatalEvent, Await, Fail, SendSignal, Break, Synthetic
<1>18. CASE OpenVpnFatal
  BY <1>18 DEF OpenVpnFatal, Await, Fail, Break, Synthetic
<1>19. CASE PushReply
  BY <1>19 DEF PushReply, Await
<1>20. CASE Teardown
  BY <1>20 DEF Teardown, Release
<1>21. ASSUME NEW code \in {"zero", "nonzero"}, WaitReturns(code)
       PROVE  TypeOK'
  BY <1>21, SettleType DEF WaitReturns, Synthetic
<1>22. CASE WaitFails
  BY <1>22, SettleType DEF WaitFails, EndEarly
<1>23. CASE Cancel
  BY <1>23 DEF Cancel
<1>24. CASE OpenVpnExits
  BY <1>24 DEF OpenVpnExits
<1>25. CASE ManagementDrops
  <2>1. mgmtUp' \in BOOLEAN
    BY <1>25, Zenon DEF ManagementDrops
  <2>2. QED
    BY <1>25, <2>1 DEF ManagementDrops
<1>26. CASE OpenVpnRestarts
  BY <1>26 DEF OpenVpnRestarts
<1>27. CASE TunnelState
  BY <1>27 DEF TunnelState
<1>28. CASE UNCHANGED vars
  BY <1>28 DEF vars
<1>29. QED
  BY <1>1, <1>2, <1>3, <1>4, <1>5, <1>6, <1>7, <1>8, <1>9, <1>10, <1>11, <1>12, <1>13,
     <1>14, <1>15, <1>16, <1>17, <1>18, <1>19, <1>20, <1>21, <1>22, <1>23, <1>24, <1>25,
     <1>26, <1>27, <1>28
     DEF Next, ConnectTask, Retry, BringUp, EventLoop, WindDown, Environment, Returned

\* Every variable of the connect lifecycle keeps its type.
THEOREM TypeCorrect == Spec => []TypeOK
<1>1. Init => TypeOK
  <2> SUFFICES ASSUME Init PROVE TypeOK
    OBVIOUS
  <2>1. /\ cancel \in BOOLEAN /\ mgmtUp \in BOOLEAN /\ quitting \in BOOLEAN
        /\ haveConnected \in BOOLEAN /\ lastError \in BOOLEAN
    BY Zenon DEF Init
  <2>2. QED
    BY <2>1, ConnectAssumption DEF Init, TypeOK, Synthetic
<1>2. QED
  BY <1>1, TypeStep, PTL DEF Spec

-----------------------------------------------------------------------------
(* The safety invariants *)

\* An attempt has announced itself before the event loop starts; without it a
\* Connected status could survive into the next attempt.
Announced == pc \in {"mgmt", "subscribe"} => status = "Connecting"

\* A launch after cancellation is in the last attempt.
LateSpawnIsLast ==
    /\ lateSpawns <= 1
    /\ lateSpawns > 0 => cancel /\ pc \notin {"validate", "attempt", "backoff", "refresh"}

\* The inductive invariant.
IInv ==
    /\ Announced
    /\ WatchdogTracksStatus
    /\ HealthyMeansNoError
    /\ NoResidue
    /\ LateSpawnIsLast
    /\ ReconnectsAreOutages

\* Every step keeps the inductive invariant.
LEMMA InvStep == TypeOK /\ TypeOK' /\ IInv /\ [Next]_vars => IInv'
<1> SUFFICES ASSUME TypeOK, TypeOK', IInv, [Next]_vars PROVE IInv'
  OBVIOUS
<1> USE ConnectAssumption
    DEF TypeOK, runVars, reportVars, childVars, loopVars, InLoop, InAttempt,
        IInv, Announced, WatchdogTracksStatus, HealthyMeansNoError, NoResidue,
        LateSpawnIsLast, ReconnectsAreOutages, SpecialState, Synthetic
<1>1. CASE Validate
  BY <1>1 DEF Validate
<1>2. CASE SleepElapsed
  BY <1>2 DEF SleepElapsed
<1>3. CASE BackoffCancelled
  BY <1>3 DEF BackoffCancelled
<1>4. CASE RefreshReturns
  BY <1>4 DEF RefreshReturns
<1>5. CASE BeginAttempt
  BY <1>5 DEF BeginAttempt, Announce, Launch, Settle
<1>6. CASE ConnectManagement
  BY <1>6 DEF ConnectManagement, EndEarly, Settle
<1>7. CASE Subscribe
  BY <1>7 DEF Subscribe, EndEarly, Settle
<1>8. CASE CancelArm
  BY <1>8 DEF CancelArm, SendSignal, Break
<1>9. CASE NetChange
  BY <1>9 DEF NetChange, Await
<1>10. CASE SoftRestart
  BY <1>10 DEF SoftRestart, SendSignal
<1>11. CASE WatchdogFires
  BY <1>11 DEF WatchdogFires, Await, SendSignal, Break
<1>12. CASE ReadFails
  BY <1>12 DEF ReadFails, Await, Break
<1>13. CASE HoldReleaseFails
  BY <1>13 DEF HoldReleaseFails, Await, Break
<1>14. ASSUME NEW ip \in Ips \union {NoIp}, NEW s \in Handshake \union {"Reconnecting"}, StateEvent(s, ip)
       PROVE  IInv'
  BY <1>14 DEF StateEvent, RecordState, Await, OnStateChange, IsRealReconnectEdge
<1>15. ASSUME NEW ip \in Ips \union {NoIp}, StateConnected(ip)
       PROVE  IInv'
  BY <1>15 DEF StateConnected, RecordState, Await, OnStateChange, IsRealReconnectEdge,
     ClearLastError
<1>16. ASSUME NEW ip \in Ips \union {NoIp}, StateExiting(ip)
       PROVE  IInv'
  BY <1>16 DEF StateExiting, RecordState, Await, OnStateChange, IsRealReconnectEdge
<1>17. CASE FatalEvent
  BY <1>17 DEF FatalEvent, Await, Fail, SendSignal, Break
<1>18. CASE OpenVpnFatal
  BY <1>18 DEF OpenVpnFatal, Await, Fail, Break
<1>19. CASE PushReply
  BY <1>19 DEF PushReply, Await
<1>20. CASE Teardown
  BY <1>20 DEF Teardown, Release
<1>21. ASSUME NEW code \in {"zero", "nonzero"}, WaitReturns(code)
       PROVE  IInv'
  BY <1>21 DEF WaitReturns, Settle, Classify
<1>22. CASE WaitFails
  BY <1>22 DEF WaitFails, EndEarly, Settle
<1>23. CASE Cancel
  BY <1>23 DEF Cancel
<1>24. CASE OpenVpnExits
  BY <1>24 DEF OpenVpnExits
<1>25. CASE ManagementDrops
  BY <1>25 DEF ManagementDrops
<1>26. CASE OpenVpnRestarts
  BY <1>26 DEF OpenVpnRestarts
<1>27. CASE TunnelState
  BY <1>27 DEF TunnelState
<1>28. CASE UNCHANGED vars
  BY <1>28 DEF vars
<1>29. QED
  BY <1>1, <1>2, <1>3, <1>4, <1>5, <1>6, <1>7, <1>8, <1>9, <1>10, <1>11, <1>12, <1>13,
     <1>14, <1>15, <1>16, <1>17, <1>18, <1>19, <1>20, <1>21, <1>22, <1>23, <1>24, <1>25,
     <1>26, <1>27, <1>28
     DEF Next, ConnectTask, Retry, BringUp, EventLoop, WindDown, Environment, Returned

\* The inductive invariant holds of every reachable state.
LEMMA InvCorrect == Spec => []IInv
<1>1. Init => IInv
  BY DEF Init, IInv, Announced, WatchdogTracksStatus, HealthyMeansNoError, NoResidue,
         LateSpawnIsLast, ReconnectsAreOutages, InLoop, InAttempt
<1>2. QED
  BY <1>1, InvStep, TypeCorrect, PTL DEF Spec

\* The watchdog's phase, the published status and have_connected agree
\* throughout the event loop, in every attempt.
THEOREM WatchdogCorrect == Spec => []WatchdogTracksStatus
<1>1. IInv => WatchdogTracksStatus
  BY DEF IInv
<1>2. QED
  BY <1>1, InvCorrect, PTL

\* No route, resolver or openvpn child outlives the attempt it belongs to, on
\* any of the paths out of attempt().
THEOREM NoResidueCorrect == Spec => []NoResidue
<1>1. IInv => NoResidue
  BY DEF IInv
<1>2. QED
  BY <1>1, InvCorrect, PTL

\* A cancelled connection launches openvpn at most once more.
THEOREM LateSpawnCorrect == Spec => []AtMostOneLateSpawn
<1>1. IInv => AtMostOneLateSpawn
  BY DEF IInv, LateSpawnIsLast, AtMostOneLateSpawn
<1>2. QED
  BY <1>1, InvCorrect, PTL

\* A tunnel reported Connected shows no error of an earlier failure.
THEOREM HealthyCorrect == Spec => []HealthyMeansNoError
<1>1. IInv => HealthyMeansNoError
  BY DEF IInv
<1>2. QED
  BY <1>1, InvCorrect, PTL

\* The reconnects in the status report do not exceed the outages.
THEOREM ReportCorrect == Spec => []ReconnectsAreOutages
<1>1. IInv => ReconnectsAreOutages
  BY DEF IInv
<1>2. QED
  BY <1>1, InvCorrect, PTL

-----------------------------------------------------------------------------
(* Refinement, and the action property that follows from it *)

\* How run() settles an attempt's outcome is the abstract tunnel's Fail or
\* its Close, once nothing is held.
LEMMA SettleRefines ==
  ASSUME TypeOK, NEW o, Settle(o), pc \notin {"done", "applying"}, held = {}, held' = held
  PROVE  Abstract!Fail \/ Abstract!Close
<1>1. CASE /\ ~cancel /\ retries < MaxRetries /\ retries' = retries + 1
           /\ pc' = "backoff" /\ UNCHANGED cancel
  BY <1>1, ConnectAssumption DEF TypeOK, InAttempt, InLoop, Abstract!Fail
<1>2. CASE retries' = retries /\ pc' = "done" /\ cancel' = TRUE
  BY <1>2, ConnectAssumption DEF TypeOK, InAttempt, InLoop, Abstract!Close
<1>3. QED
  BY <1>1, <1>2 DEF Settle

\* Every step of the connect lifecycle is a step of the abstract tunnel or
\* leaves it unchanged.
LEMMA TunnelStep ==
  TypeOK /\ TypeOK' /\ NoResidue /\ [Next]_vars => [Abstract!Next]_(Abstract!tunnelVars)
<1> SUFFICES ASSUME TypeOK, TypeOK', NoResidue, [Next]_vars
             PROVE  [Abstract!Next]_(Abstract!tunnelVars)
  OBVIOUS
<1> USE ConnectAssumption
    DEF TypeOK, runVars, reportVars, childVars, loopVars, InLoop, InAttempt,
        NoResidue
<1>1. CASE Validate
  BY <1>1 DEF Validate, Abstract!Next, Abstract!Close, Abstract!tunnelVars
<1>2. CASE SleepElapsed
  BY <1>2 DEF SleepElapsed, Abstract!tunnelVars
<1>3. CASE BackoffCancelled
  BY <1>3 DEF BackoffCancelled, Abstract!Next, Abstract!Close
<1>4. CASE RefreshReturns
  BY <1>4 DEF RefreshReturns, Abstract!tunnelVars
<1>5. CASE BeginAttempt
  <2>1. CASE Launch
    BY <1>5, <2>1 DEF BeginAttempt, Launch, Abstract!Next, Abstract!Open
  <2>2. CASE \E o : Settle(o)
    BY <1>5, <2>2, SettleRefines DEF BeginAttempt, Abstract!Next
  <2>3. QED
    BY <1>5, <2>1, <2>2 DEF BeginAttempt
<1>6. CASE ConnectManagement
  BY <1>6, SettleRefines
     DEF ConnectManagement, EndEarly, Abstract!Next, Abstract!tunnelVars
<1>7. CASE Subscribe
  BY <1>7, SettleRefines DEF Subscribe, EndEarly, Abstract!Next, Abstract!tunnelVars
<1>8. CASE CancelArm
  BY <1>8 DEF CancelArm, Break, Abstract!tunnelVars
<1>9. CASE NetChange
  BY <1>9 DEF NetChange, Await, Abstract!tunnelVars
<1>10. CASE SoftRestart
  BY <1>10 DEF SoftRestart, Abstract!tunnelVars
<1>11. CASE WatchdogFires
  BY <1>11 DEF WatchdogFires, Await, Break, Abstract!tunnelVars
<1>12. CASE ReadFails
  BY <1>12 DEF ReadFails, Await, Break, Abstract!tunnelVars
<1>13. CASE HoldReleaseFails
  BY <1>13 DEF HoldReleaseFails, Await, Break, Abstract!tunnelVars
<1>14. ASSUME NEW ip \in Ips \union {NoIp}, NEW s \in Handshake \union {"Reconnecting"}, StateEvent(s, ip)
       PROVE  [Abstract!Next]_(Abstract!tunnelVars)
  BY <1>14 DEF StateEvent, RecordState, Await, Abstract!tunnelVars
<1>15. ASSUME NEW ip \in Ips \union {NoIp}, StateConnected(ip)
       PROVE  [Abstract!Next]_(Abstract!tunnelVars)
  BY <1>15 DEF StateConnected, RecordState, Await, Abstract!Next, Abstract!Begin
<1>16. ASSUME NEW ip \in Ips \union {NoIp}, StateExiting(ip)
       PROVE  [Abstract!Next]_(Abstract!tunnelVars)
  BY <1>16 DEF StateExiting, RecordState, Await, Abstract!tunnelVars
<1>17. CASE FatalEvent
  BY <1>17 DEF FatalEvent, Await, Break, Abstract!tunnelVars
<1>18. CASE OpenVpnFatal
  BY <1>18 DEF OpenVpnFatal, Await, Break, Abstract!tunnelVars
<1>19. CASE PushReply
  BY <1>19 DEF PushReply, Await, Abstract!Next, Abstract!Begin
<1>20. CASE Teardown
  BY <1>20 DEF Teardown, Release, Abstract!Next, Abstract!Release
<1>21. ASSUME NEW code \in {"zero", "nonzero"}, WaitReturns(code)
       PROVE  [Abstract!Next]_(Abstract!tunnelVars)
  BY <1>21, SettleRefines DEF WaitReturns, Abstract!Next
<1>22. CASE WaitFails
  BY <1>22, SettleRefines DEF WaitFails, EndEarly, Abstract!Next
<1>23. CASE Cancel
  BY <1>23 DEF Cancel, Abstract!Next, Abstract!Stop
<1>24. CASE OpenVpnExits
  BY <1>24 DEF OpenVpnExits, Abstract!tunnelVars
<1>25. CASE ManagementDrops
  BY <1>25 DEF ManagementDrops, Abstract!tunnelVars
<1>26. CASE OpenVpnRestarts
  BY <1>26 DEF OpenVpnRestarts, Abstract!tunnelVars
<1>27. CASE TunnelState
  BY <1>27 DEF TunnelState, Abstract!Next, Abstract!Apply
<1>28. CASE UNCHANGED vars
  BY <1>28 DEF vars, Abstract!tunnelVars
<1>29. QED
  BY <1>1, <1>2, <1>3, <1>4, <1>5, <1>6, <1>7, <1>8, <1>9, <1>10, <1>11, <1>12, <1>13,
     <1>14, <1>15, <1>16, <1>17, <1>18, <1>19, <1>20, <1>21, <1>22, <1>23, <1>24, <1>25,
     <1>26, <1>27, <1>28
     DEF Next, ConnectTask, Retry, BringUp, EventLoop, WindDown, Environment, Returned

\* The connect lifecycle implements the abstract tunnel its owner relies on.
THEOREM RefinesTunnel == Spec => ImplementsTunnel
<1>1. Init => Abstract!Init
  BY ConnectAssumption DEF Init, Abstract!Init, InAttempt, InLoop
<1>2. QED
  BY <1>1, TunnelStep, TypeCorrect, NoResidueCorrect, PTL
     DEF Spec, ImplementsTunnel, Abstract!Spec

\* After a cancellation no apply begins, and only one already under way
\* installs anything.
THEOREM NoApplyAfterCancelCorrect == Spec => NoApplyAfterCancel
<1>1. ASSUME [Abstract!Next]_(Abstract!tunnelVars), TypeOK, TypeOK'
      PROVE  [cancel /\ pc # "applying" => pc' # "applying" /\ held' \subseteq held]_vars
  BY <1>1 DEF TypeOK, InAttempt, InLoop, Abstract!Next, Abstract!tunnelVars, Abstract!Open,
              Abstract!Begin, Abstract!Apply, Abstract!Release, Abstract!Fail,
              Abstract!Close, Abstract!Stop
<1>2. QED
  BY <1>1, TunnelStep, TypeCorrect, NoResidueCorrect, PTL DEF Spec, NoApplyAfterCancel

=============================================================================
