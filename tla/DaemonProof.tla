----------------------------- MODULE DaemonProof -----------------------------
(***************************************************************************)
(* The daemon runs one tunnel at most, for every number of clients,        *)
(* profiles and connections.                                               *)
(***************************************************************************)
EXTENDS Daemon, TLAPS

-----------------------------------------------------------------------------
(* Types of the records the actions build *)

\* The constant records have their types.
LEMMA Constants ==
  /\ NoTarget \in Target
  /\ NoCall \in Call
  /\ NoConnection \in Connection
  /\ \A s \in Status : Gone(s) \in Connection
BY DEF NoTarget, Target, NoCall, Call, NoConnection, Connection, Gone, Status

\* What TypeOK says of the handlers.
CallsOK ==
    /\ calls \in [Callers -> Call]
    /\ \A k \in Callers : calls[k].pc = "wait" => calls[k].conn \in Conn

\* A handler that waits for a connection has a well-typed record.
LEMMA AwaitType ==
  ASSUME TypeOK, NEW k \in Callers, NEW c \in Conn, Await(k, c)
  PROVE  CallsOK'
<1>1. [NoCall EXCEPT !.pc = "wait", !.conn = c] \in Call
  BY Constants DEF NoCall, Call
<1>2. QED
  BY <1>1 DEF TypeOK, Await, CallsOK, NoCall

\* So has one that is over.
LEMMA FinishType ==
  ASSUME TypeOK, NEW k \in Callers, Finish(k)
  PROVE  CallsOK'
BY Constants DEF TypeOK, Finish, CallsOK, NoCall

\* Every step keeps the types.
LEMMA TypeStep == TypeOK /\ [Next]_vars => TypeOK'
<1> SUFFICES ASSUME TypeOK, [Next]_vars PROVE TypeOK'
  OBVIOUS
<1> USE Constants DEF TypeOK, CallsOK
<1>1. ASSUME NEW k \in Callers, StartConnection(k) PROVE TypeOK'
  <2>1. CASE Join(k)
    BY <1>1, <2>1, AwaitType DEF StartConnection, Join
  <2>2. CASE Refuse(k)
    BY <1>1, <2>2, FinishType DEF StartConnection, Refuse
  <2>3. CASE Fill(k)
    <3>1. PICK c \in Conn :
            /\ conns' = [conns EXCEPT ![c] = [NoConnection EXCEPT !.task = "running",
                                                                 !.label = calls[k].label]]
            /\ slot' = c
            /\ Await(k, c)
      BY <2>3 DEF Fill
    <3>2. [NoConnection EXCEPT !.task = "running", !.label = calls[k].label] \in Connection
      BY DEF NoConnection, Connection, Call
    <3>3. conns' \in [Conn -> Connection]
      BY <3>1, <3>2
    <3>4. QED
      BY <1>1, <3>1, <3>3, AwaitType DEF StartConnection
  <2>4. QED
    BY <1>1, <2>1, <2>2, <2>3 DEF StartConnection
<1>2. ASSUME NEW k \in Callers, WaitEnds(k) PROVE TypeOK'
  BY <1>2, FinishType DEF WaitEnds
<1>3. ASSUME NEW k \in Clients, NEW l \in Labels, NEW e \in BOOLEAN, Up(k, l, e) PROVE TypeOK'
  <2>1. [NoCall EXCEPT !.pc = "lock", !.label = l] \in Call
    BY DEF NoCall, Call
  <2>2. CallsOK'
    <3>1. \A j \in Callers : [calls[j] EXCEPT !.persisted = @ /\ e] \in Call
      BY DEF Call
    <3>2. \A j \in Callers : calls'[j] \in Call
      BY <1>3, <2>1, <3>1 DEF Up
    <3>3. ASSUME NEW j \in Callers, calls'[j].pc = "wait" PROVE calls'[j].conn \in Conn
      <4>1. j # k
        BY <1>3, <3>3 DEF Up, NoCall
      <4>2. calls'[j].pc = calls[j].pc /\ calls'[j].conn = calls[j].conn
        BY <1>3, <4>1 DEF Up, Call
      <4>3. QED
        BY <3>3, <4>2
    <3>4. calls' \in [Callers -> Call]
      BY <1>3, <3>2 DEF Up
    <3>5. QED
      BY <3>3, <3>4
  <2>3. target' \in Target
    BY <1>3 DEF Up, Save, Target
  <2>4. downAcked' \in BOOLEAN
    BY <1>3, Zenon DEF Up
  <2>5. QED
    BY <1>3, <2>2, <2>3, <2>4 DEF Up
<1>4. ASSUME NEW k \in Clients, NEW e \in BOOLEAN, Down(k, e) PROVE TypeOK'
  BY <1>4 DEF Down, Callers, NoCall, Call
<1>5. ASSUME NEW k \in Clients, DownSave(k) PROVE TypeOK'
  BY <1>5 DEF DownSave, Save, Disconnected, Callers, NoCall, Call, Target
<1>6. ASSUME NEW k \in Clients, DownLock(k) PROVE TypeOK'
  <2>1. CallsOK'
    BY <1>6, FinishType DEF DownLock, Callers
  <2>2. conns' \in [Conn -> Connection]
    BY <1>6 DEF DownLock, CancelActive, Connection
  <2>3. downAcked' \in BOOLEAN
    BY <1>6 DEF DownLock, Callers, Call
  <2>4. QED
    BY <1>6, <2>1, <2>2, <2>3 DEF DownLock
<1>7. ASSUME NEW k \in Clients, Abort(k) PROVE TypeOK'
  BY <1>7, FinishType DEF Abort, Callers
<1>8. CASE ConvergeLoad
  BY <1>8 DEF ConvergeLoad, Callers, NoCall, Call, Target
<1>9. CASE ConvergeToken
  BY <1>9, FinishType DEF ConvergeToken, Callers, Call
<1>10. ASSUME NEW c \in Conn, RunReturns(c) PROVE TypeOK'
  BY <1>10 DEF RunReturns, Connection
<1>11. ASSUME NEW c \in Conn, TaskClears(c) PROVE TypeOK'
  BY <1>11 DEF TaskClears, Connection
<1>12. ASSUME NEW c \in Conn, NEW s \in Status, Report(c, s) PROVE TypeOK'
  <2>1. [conns[c] EXCEPT !.status = s, !.wedged = FALSE] \in Connection
    BY DEF Connection
  <2>2. conns' = [conns EXCEPT ![c] = [conns[c] EXCEPT !.status = s, !.wedged = FALSE]]
    BY <1>12 DEF Report
  <2>3. conns' \in [Conn -> Connection]
    BY <2>1, <2>2
  <2>4. QED
    BY <1>12, <2>3 DEF Report
<1>19. ASSUME NEW c \in Conn, SocketDrops(c) PROVE TypeOK'
  BY <1>19 DEF SocketDrops, Connection
<1>13. CASE SwapSeen \/ WaitForIdle \/ TriggerRestart
  BY <1>13 DEF SwapSeen, WaitForIdle, TriggerRestart
<1>14. CASE ShutdownSignal
  BY <1>14 DEF ShutdownSignal
<1>15. CASE Shutdown
  BY <1>15 DEF Shutdown, CancelActive, Connection
<1>16. CASE ProcessEnds
  <2>1. CallsOK'
    BY <1>16 DEF ProcessEnds, NoCall
  <2>2. conns' \in [Conn -> Connection]
    BY <1>16 DEF ProcessEnds, Status
  <2>3. QED
    BY <1>16, <2>1, <2>2 DEF ProcessEnds
<1>17. CASE Boot
  BY <1>17 DEF Boot, Callers, Call
<1>18. CASE UNCHANGED vars
  BY <1>18 DEF vars
<1>20. QED
  BY <1>1, <1>2, <1>3, <1>4, <1>5, <1>6, <1>7, <1>8, <1>9, <1>10, <1>11, <1>12, <1>13, <1>14,
     <1>15, <1>16, <1>17, <1>18, <1>19
     DEF Next, Handlers, Tasks, Lifecycle, Drained, GraceElapsed, Crash

\* Every variable of the daemon keeps its type.
THEOREM TypeCorrect == Spec => []TypeOK
<1>1. Init => TypeOK
  <2> SUFFICES ASSUME Init PROVE TypeOK
    OBVIOUS
  <2>1. downAcked \in BOOLEAN
    BY Zenon DEF Init
  <2>2. \A p \in {"boot", "idle"} : [NoCall EXCEPT !.pc = p] \in Call
    BY Constants DEF NoCall, Call
  <2>3. CallsOK
    BY <2>2 DEF Init, CallsOK, NoCall
  <2>4. target \in Target
    BY Constants DEF Init, Target
  <2>5. QED
    BY <2>1, <2>3, <2>4, Constants DEF Init, TypeOK, CallsOK
<1>2. QED
  BY <1>1, TypeStep, PTL DEF Spec

-----------------------------------------------------------------------------
(* One tunnel *)

\* A connect task exists exactly while the slot holds its connection.
THEOREM OneTunnelCorrect == Spec => []OneTunnel
<1>1. Init => OneTunnel
  BY DaemonAssumption DEF Init, OneTunnel, NoConnection, Conn
<1>2. TypeOK /\ OneTunnel /\ [Next]_vars => OneTunnel'
  <2> SUFFICES ASSUME TypeOK, OneTunnel, [Next]_vars PROVE OneTunnel'
    OBVIOUS
  <2>0. None \notin Conn
    BY DaemonAssumption DEF Conn
  <2> USE <2>0 DEF TypeOK, OneTunnel
  <2>1. ASSUME NEW k \in Callers, StartConnection(k) PROVE OneTunnel'
    <3>1. CASE UNCHANGED <<slot, conns>>
      BY <3>1
    <3>2. CASE Fill(k)
      <4>1. PICK c \in Conn :
              /\ conns' = [conns EXCEPT ![c] = [NoConnection EXCEPT !.task = "running",
                                                                   !.label = calls[k].label]]
              /\ slot' = c
        BY <3>2 DEF Fill
      <4>2. conns'[c].task = "running" /\ \A d \in Conn \ {c} : conns'[d] = conns[d]
        BY <4>1 DEF NoConnection
      <4>3. slot = None
        BY <3>2 DEF Fill
      <4>4. QED
        BY <4>1, <4>2, <4>3
    <3>3. QED
      BY <2>1, <3>1, <3>2 DEF StartConnection, Join, Refuse
  <2>2. ASSUME NEW k \in Callers, WaitEnds(k) PROVE OneTunnel'
    BY <2>2 DEF WaitEnds
  <2>3. ASSUME NEW k \in Clients,
               \/ \E l \in Labels, e \in BOOLEAN : Up(k, l, e)
               \/ \E e \in BOOLEAN : Down(k, e)
               \/ DownSave(k) \/ Abort(k)
        PROVE  OneTunnel'
    BY <2>3 DEF Up, Down, DownSave, Abort
  <2>4. ASSUME NEW k \in Clients, DownLock(k) PROVE OneTunnel'
    BY <2>4 DEF DownLock, CancelActive, Connection
  <2>5. CASE ConvergeLoad \/ ConvergeToken
    BY <2>5 DEF ConvergeLoad, ConvergeToken
  <2>6. ASSUME NEW c \in Conn, RunReturns(c) PROVE OneTunnel'
    BY <2>6 DEF RunReturns, Connection
  <2>7. ASSUME NEW c \in Conn, TaskClears(c) PROVE OneTunnel'
    <3>1. slot = c
      BY <2>7 DEF TaskClears
    <3>2. QED
      BY <2>7, <3>1 DEF TaskClears, Gone, NoConnection, Connection
  <2>8. ASSUME NEW c \in Conn, SocketDrops(c) \/ \E s \in Status : Report(c, s) PROVE OneTunnel'
    <3>0. conns \in [Conn -> Connection] /\ conns[c] \in Connection
      OBVIOUS
    <3>1. ASSUME NEW s \in Status, Report(c, s)
          PROVE  conns' = [conns EXCEPT ![c] = [conns[c] EXCEPT !.status = s, !.wedged = FALSE]]
      BY <3>1 DEF Report
    <3>2. \A s \in Status : [conns[c] EXCEPT !.status = s, !.wedged = FALSE].task = conns[c].task
      BY <3>0 DEF Connection
    <3>3. ASSUME SocketDrops(c) PROVE conns' = [conns EXCEPT ![c] = [conns[c] EXCEPT !.wedged = TRUE]]
      BY <3>3 DEF SocketDrops
    <3>4. [conns[c] EXCEPT !.wedged = TRUE].task = conns[c].task
      BY <3>0 DEF Connection
    <3>5. /\ UNCHANGED slot /\ \A d \in Conn \ {c} : conns'[d] = conns[d]
          /\ conns'[c].task = conns[c].task
      BY <2>8, <3>0, <3>1, <3>2, <3>3, <3>4 DEF Report, SocketDrops
    <3>6. QED
      BY <3>5
  <2>9. CASE SwapSeen \/ WaitForIdle \/ TriggerRestart \/ ShutdownSignal \/ Boot
    BY <2>9 DEF SwapSeen, WaitForIdle, TriggerRestart, ShutdownSignal, Boot
  <2>10. CASE Shutdown
    BY <2>10 DEF Shutdown, CancelActive, Connection
  <2>11. CASE ProcessEnds
    BY <2>11 DEF ProcessEnds, Gone, NoConnection
  <2>12. CASE UNCHANGED vars
    BY <2>12 DEF vars
  <2>13. QED
    BY <2>1, <2>2, <2>3, <2>4, <2>5, <2>6, <2>7, <2>8, <2>9, <2>10, <2>11, <2>12
       DEF Next, Handlers, Tasks, Lifecycle, Drained, GraceElapsed, Crash
<1>3. QED
  BY <1>1, <1>2, TypeCorrect, PTL DEF Spec

-----------------------------------------------------------------------------
(* An answered down *)

\* What a down has written is still in target.json when the down is answered,
\* and afterwards: only a persistent up writes Connected, and it takes the
\* mark off every down.
DownInForce ==
    /\ downAcked => target.state = "Disconnected"
    /\ \A k \in Callers : calls[k].persisted => target.state = "Disconnected"

\* Every step keeps it.
LEMMA DownInForceStep == TypeOK /\ DownInForce /\ [Next]_vars => DownInForce'
<1> SUFFICES ASSUME TypeOK, DownInForce, [Next]_vars PROVE DownInForce'
  OBVIOUS
<1> USE DEF TypeOK, DownInForce
<1>0. ~NoCall.persisted
  BY DEF NoCall
<1>1. ASSUME NEW k \in Callers, StartConnection(k) PROVE DownInForce'
  <2>1. CASE Finish(k)
    BY <1>0, <1>1, <2>1 DEF StartConnection, Finish
  <2>2. ASSUME NEW c, Await(k, c) PROVE DownInForce'
    <3>1. ~[NoCall EXCEPT !.pc = "wait", !.conn = c].persisted
      BY DEF NoCall
    <3>2. QED
      BY <1>1, <2>2, <3>1 DEF StartConnection, Await
  <2>3. QED
    BY <1>1, <2>1, <2>2 DEF StartConnection, Join, Refuse, Fill
<1>2. ASSUME NEW k \in Callers, WaitEnds(k) PROVE DownInForce'
  BY <1>0, <1>2 DEF WaitEnds, Finish
<1>3. ASSUME NEW k \in Clients, NEW l \in Labels, NEW e \in BOOLEAN, Up(k, l, e)
      PROVE  DownInForce'
  <2>1. \A j \in Callers : calls'[j].persisted => calls[j].persisted /\ e
    BY <1>3 DEF Up, NoCall, Call
  <2>2. CASE e
    BY <1>3, <2>1, <2>2 DEF Up
  <2>3. CASE ~e
    BY <1>3, <2>1, <2>3 DEF Up
  <2>4. QED
    BY <2>2, <2>3
<1>4. ASSUME NEW k \in Clients, NEW e \in BOOLEAN, Down(k, e) PROVE DownInForce'
  BY <1>4 DEF Down, NoCall, Callers
<1>5. ASSUME NEW k \in Clients, DownSave(k) PROVE DownInForce'
  <2>1. Disconnected(calls[k].copy).state = "Disconnected"
    BY DEF Callers, Call, Target, Disconnected
  <2>2. target' \in {Disconnected(calls[k].copy), target}
    BY <1>5 DEF DownSave, Save
  <2>3. \A j \in Callers \ {k} : calls'[j] = calls[j]
    BY <1>5 DEF DownSave
  <2>4. calls'[k].persisted = (target' = Disconnected(calls[k].copy))
    BY <1>5 DEF DownSave, NoCall, Callers
  <2>5. QED
    BY <1>5, <2>1, <2>2, <2>3, <2>4 DEF DownSave
<1>6. ASSUME NEW k \in Clients, DownLock(k) PROVE DownInForce'
  BY <1>0, <1>6 DEF DownLock, Finish, Callers
<1>7. ASSUME NEW k \in Clients, Abort(k) PROVE DownInForce'
  BY <1>0, <1>7 DEF Abort, Finish
<1>8. CASE ConvergeLoad
  BY <1>0, <1>8 DEF ConvergeLoad, NoCall
<1>9. CASE ConvergeToken
  BY <1>0, <1>9 DEF ConvergeToken, Finish, Callers, Call
<1>10. CASE Tasks
  <2>1. UNCHANGED <<calls, target, downAcked>>
    BY <1>10 DEF Tasks, SocketDrops, RunReturns, TaskClears, Report
  <2>2. QED
    BY <2>1
<1>11. CASE SwapSeen \/ WaitForIdle \/ TriggerRestart \/ ShutdownSignal \/ Shutdown
  BY <1>11 DEF SwapSeen, WaitForIdle, TriggerRestart, ShutdownSignal, Shutdown
<1>12. CASE ProcessEnds
  BY <1>0, <1>12 DEF ProcessEnds
<1>13. CASE Boot
  BY <1>13 DEF Boot, Call
<1>14. CASE UNCHANGED vars
  BY <1>14 DEF vars
<1>15. QED
  BY <1>1, <1>2, <1>3, <1>4, <1>5, <1>6, <1>7, <1>8, <1>9, <1>10, <1>11, <1>12, <1>13, <1>14
     DEF Next, Handlers, Lifecycle, Drained, GraceElapsed, Crash

\* No boot converges to a tunnel that an answered down took away, for any
\* number of callers.
THEOREM NoReconvergeCorrect == Spec => NoReconvergeAfterDown
<1>1. Init => DownInForce
  BY DEF Init, DownInForce, NoCall
<1>2. ASSUME TypeOK, DownInForce, [Next]_vars
      PROVE  [calls[Converge].pc = "boot" /\ calls'[Converge].pc = "token" => ~downAcked]_vars
  <2> SUFFICES ASSUME calls[Converge].pc = "boot", calls'[Converge].pc = "token"
               PROVE  target.state = "Connected"
    BY <1>2 DEF DownInForce
  <2> USE <1>2 DEF TypeOK
  <2>0. Converge \in Callers /\ Converge \notin Clients
    BY DaemonAssumption DEF Callers
  <2>1. ASSUME NEW k \in Callers, StartConnection(k) \/ WaitEnds(k) PROVE FALSE
    BY <2>0, <2>1 DEF StartConnection, Join, Refuse, Fill, WaitEnds, Await, Finish, NoCall
  <2>2. ASSUME NEW k \in Clients, NEW l \in Labels, NEW e \in BOOLEAN, Up(k, l, e) PROVE FALSE
    BY <2>0, <2>2 DEF Up, Call
  <2>3. ASSUME NEW k \in Clients,
               \/ \E e \in BOOLEAN : Down(k, e)
               \/ DownSave(k) \/ DownLock(k) \/ Abort(k)
        PROVE  FALSE
    BY <2>0, <2>3 DEF Down, DownSave, DownLock, Abort, Finish
  <2>4. CASE ConvergeLoad
    BY <2>0, <2>4 DEF ConvergeLoad, NoCall
  <2>5. CASE ProcessEnds
    BY <2>0, <2>5 DEF ProcessEnds, NoCall
  <2>6. CASE ConvergeToken \/ Boot
    BY <2>0, <2>6 DEF ConvergeToken, Boot, Call
  <2>7. QED
    BY <1>2, <2>1, <2>2, <2>3, <2>4, <2>5, <2>6
       DEF Next, Handlers, Tasks, Lifecycle, Drained, GraceElapsed, Crash, SocketDrops, RunReturns,
           TaskClears, Report, SwapSeen, WaitForIdle, TriggerRestart, ShutdownSignal, Shutdown, vars
<1>3. QED
  BY <1>1, <1>2, DownInForceStep, TypeCorrect, PTL DEF Spec, NoReconvergeAfterDown

=============================================================================
