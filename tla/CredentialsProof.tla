--------------------------- MODULE CredentialsProof ---------------------------
(***************************************************************************)
(* The daemon's credentials, for any number of attempts and of refreshes   *)
(* under way and for every refresh interval shorter than the life of a     *)
(* bearer.                                                                 *)
(***************************************************************************)
EXTENDS Credentials, TLAPS

-----------------------------------------------------------------------------
(* The inductive invariant *)

\* A running attempt has its number and holds its credentials file.
Held == conn = "attempt" => attempt \in Attempts /\ auth[attempt] \in Age

\* A periodic task sleeps only while its attempt runs, and is busy after it
\* only if it was when the attempt ended.
Tasks ==
    \A a \in Attempts :
        /\ call[Task(a)].pc = "sleep" => Current(a)
        /\ call[Task(a)].pc # "off" => Current(a) \/ a \in late

\* An Aad attempt has its periodic task.
Refreshed == conn = "attempt" /\ authType = "Aad" => call[Task(attempt)].pc # "off"

\* The bearer is no older than the sleep of the periodic task, or the calm is
\* no longer than that.
Paced == conn = "attempt" /\ authType = "Aad" => calm <= timer \/ auth[attempt] <= timer

\* While writers come one at a time, the one there is has the temporary file,
\* and the file holds what it has written so far.
Writer(c) ==
    /\ call[c].fd # None =>
          /\ call[c].fd = "tmp"
          /\ \A d \in Callers : call[d].fd # None => d = c
    /\ call[c].pc = "write" => tmp = "empty"
    /\ call[c].pc = "rename" => tmp = "rt"

OneWriter == ~raced => \A c \in Callers : Writer(c)

\* Every answer carries a refresh token, its own or the previous one.
AllRt == \A c \in Callers : call[c].data = "rt"

-----------------------------------------------------------------------------
(* The records of the calls *)

States == {"off", "sleep", "load", "exchange", "open", "write", "rename", "returned", "failed"}

\* A call that holds no file.
LEMMA AtFacts ==
    /\ \A pc : At(pc).pc = pc /\ At(pc).data = "rt" /\ At(pc).fd = None
    /\ \A pc \in States : At(pc) \in Call
    /\ Off \in Call /\ Off.pc = "off" /\ Off.data = "rt" /\ Off.fd = None
    /\ [At("open") EXCEPT !.data = "rt"] = At("open")
  <1>1. /\ \A pc : At(pc).pc = pc /\ At(pc).data = "rt" /\ At(pc).fd = None
        /\ \A pc \in States : At(pc) \in Call
        /\ Off \in Call /\ Off.pc = "off" /\ Off.data = "rt" /\ Off.fd = None
    BY DEF At, Off, Call, States
  <1>2. At("open") = [pc |-> "open", data |-> "rt", fd |-> None]
    BY DEF At, Off
  <1>3. [[pc |-> "open", data |-> "rt", fd |-> None] EXCEPT !.data = "rt"]
            = [pc |-> "open", data |-> "rt", fd |-> None]
    OBVIOUS
  <1> QED
    BY <1>1, <1>2, <1>3

\* Callers differ by their kind, the tasks by their attempt.
LEMMA CallerFacts ==
    /\ Connect \in Callers /\ Converge \in Callers /\ Up \in Callers /\ Daily \in Callers
    /\ \A a \in Attempts : /\ Task(a) \in Callers
                           /\ Task(a) \notin {Connect, Converge, Up, Daily}
    /\ \A a, b \in Attempts : Task(a) = Task(b) => a = b
  BY DEF Callers, Connect, Converge, Up, Daily, Task, Attempts

-----------------------------------------------------------------------------
(* Types *)

\* The part of the type invariant about the calls and the two files.
Files ==
    /\ cache \in Content \union {None} /\ tmp \in Content \union {None}
    /\ raced \in BOOLEAN
    /\ call \in [Callers -> Call]
    /\ \A c \in Callers : call[c].fd # None <=> call[c].pc \in {"write", "rename"}
    /\ \A c \in Callers : call[c].fd = "tmp" => tmp # None

\* And about the attempts.
Counters ==
    /\ authType \in AuthTypes /\ wanted \in BOOLEAN
    /\ conn \in {"down", "attempt", "backoff"}
    /\ attempt \in 0 .. MaxAttempts
    /\ auth \in [Attempts -> Age \union {None}]
    /\ timer \in 0 .. Period /\ calm \in 0 .. Period + 1
    /\ late \subseteq Attempts

\* The two parts are the type invariant.
LEMMA TypeParts == TypeOK <=> Files /\ Counters
  BY DEF TypeOK, Files, Counters

\* A step that only moves calls to states in which they hold no file.
LEMMA Released ==
    ASSUME Files, UNCHANGED disk, call' \in [Callers -> Call],
           \A c \in Callers : call'[c] = call[c] \/ (call'[c].fd = None /\ call'[c].pc \notin {"write", "rename"})
    PROVE  Files'
  <1>1. raced' \in BOOLEAN
    BY DEF Files, disk
  <1>2. cache' = cache /\ tmp' = tmp
    BY DEF disk
  <1>3. \A c \in Callers : /\ call'[c].fd # None <=> call'[c].pc \in {"write", "rename"}
                           /\ call'[c].fd = "tmp" => tmp' # None
    BY <1>2, NoneAssumption DEF Files
  <1> QED
    BY <1>1, <1>2, <1>3 DEF Files

LEMMA FilesStep == Files /\ [Next]_vars => Files'
  <1> SUFFICES ASSUME Files, [Next]_vars PROVE Files'
    OBVIOUS
  <1> USE AtFacts, CallerFacts
  <1>1. ASSUME NEW c \in Callers, Load(c) PROVE Files'
    BY <1>1, Released DEF Load, Goto, Files, States
  <1>2. ASSUME NEW c \in Callers, Exchange(c) PROVE Files'
    BY <1>2, Released DEF Exchange, KeptRt, Goto, Files, States
  <1>3. ASSUME NEW c \in Callers, Open(c) PROVE Files'
    <2>1. CASE Opened(c)
      BY <1>3, <2>1, NoneAssumption DEF Open, Opened, Files, Call, Content
    <2>2. CASE Goto(c, "returned") /\ UNCHANGED disk
      BY <2>2, Released DEF Goto, Files, States
    <2> QED
      BY <1>3, <2>1, <2>2 DEF Open
  <1>4. ASSUME NEW c \in Callers, Write(c) PROVE Files'
    BY <1>4, NoneAssumption DEF Write, Overwritten, Files, Call, Content, States
  <1>5. ASSUME NEW c \in Callers, Rename(c) PROVE Files'
    BY <1>5, NoneAssumption DEF Rename, Goto, Moved, Files, Call, Content, States
  <1>6. ASSUME NEW c \in Callers, NEW age, NewAttempt(c, age), UNCHANGED disk PROVE Files'
    <2> DEFINE t == Task(attempt + 1)
               task == IF authType = "Aad" THEN At("sleep") ELSE Off
    <2>1. call' = [call EXCEPT ![c] = Off, ![t] = task]
      BY <1>6 DEF NewAttempt
    <2>2. task \in Call /\ task.fd = None /\ task.pc \notin {"write", "rename"}
      BY DEF States
    <2>3. \A d \in Callers : call'[d] \in {call[d], Off, task}
      BY <2>1 DEF Files
    <2>4. call' \in [Callers -> Call]
      BY <2>1, <2>2 DEF Files
    <2> QED
      BY <1>6, <2>2, <2>3, <2>4, Released
  <1>7. CASE EndAttempt
    BY <1>7, Released DEF EndAttempt, Cancelled, Files
  <1>8. CASE Retry
    BY <1>8, Released DEF Retry, Files, States
  <1>9. CASE RetryReturns
    BY <1>9, <1>6 DEF RetryReturns
  <1>10. CASE SoftRestart
    BY <1>10, Released DEF SoftRestart, Goto, Files, States
  <1>11. CASE SoftRestartReturns
    BY <1>11, Released DEF SoftRestartReturns, Files
  <1>12. ASSUME NEW a \in Attempts, TaskWakes(a) PROVE Files'
    BY <1>12, Released DEF TaskWakes, Goto, Files, States
  <1>13. ASSUME NEW a \in Attempts, TaskReturns(a) PROVE Files'
    BY <1>13, Released DEF TaskReturns, AfterFailure, Files, States
  <1>14. CASE UpRequest
    BY <1>14, Released DEF UpRequest, Goto, Files, States
  <1>15. CASE UpStarts
    BY <1>6, <1>15, Released DEF UpStarts, Files
  <1>16. CASE Down
    BY <1>16, Released DEF Down, Files
  <1>17. CASE ConvergeReturns
    BY <1>6, <1>17, Released DEF ConvergeReturns, Files
  <1>18. CASE DailyRefresh
    BY <1>18, Released DEF DailyRefresh, Goto, Files, States
  <1>19. CASE DailyReturns
    BY <1>19, Released DEF DailyReturns, Files
  <1>20. CASE Crash
    BY <1>20, Released DEF Crash, Files, States
  <1>21. CASE Tick \/ Suspend
    BY <1>21, Released DEF Tick, Suspend, Files
  <1>22. CASE UNCHANGED vars
    BY <1>22, Released DEF vars, disk, Files
  <1> QED
    BY <1>1, <1>2, <1>3, <1>4, <1>5, <1>7, <1>8, <1>9, <1>10, <1>11, <1>12, <1>13, <1>14, <1>15,
       <1>16, <1>17, <1>18, <1>19, <1>20, <1>21, <1>22 DEF Next

\* Every step keeps the types of the attempts' part.
LEMMA CountersStep == Counters /\ Held /\ [Next]_vars => Counters' /\ Held'
  <1> SUFFICES ASSUME Counters, Held, [Next]_vars PROVE Counters' /\ Held'
    OBVIOUS
  <1> USE CredentialsAssumption DEF Age, Attempts
  <1>1. ASSUME NEW c \in Callers, Load(c) \/ Exchange(c) \/ Open(c) \/ Write(c) \/ Rename(c)
        PROVE Counters' /\ Held'
    BY <1>1 DEF Load, Exchange, Open, Write, Rename, tunnel, Counters, Held
  <1>2. ASSUME NEW c \in Callers, NEW age \in Age, NewAttempt(c, age), UNCHANGED <<authType, wanted>>
        PROVE Counters' /\ Held'
    BY <1>2 DEF NewAttempt, Counters, Held
  <1>3. CASE EndAttempt
    BY <1>3 DEF EndAttempt, Counters, Held
  <1>4. CASE Retry
    BY <1>4 DEF Retry, Counters, Held
  <1>5. CASE RetryReturns
    BY <1>2, <1>5, CallerFacts DEF RetryReturns
  <1>6. CASE SoftRestart
    BY <1>6 DEF SoftRestart, tunnel, Counters, Held
  <1>7. CASE SoftRestartReturns
    BY <1>7 DEF SoftRestartReturns, Counters, Held
  <1>8. ASSUME NEW a \in Attempts, TaskWakes(a) PROVE Counters' /\ Held'
    BY <1>8 DEF TaskWakes, tunnel, Counters, Held
  <1>9. ASSUME NEW a \in Attempts, TaskReturns(a) PROVE Counters' /\ Held'
    BY <1>9 DEF TaskReturns, Counters, Held
  <1>10. CASE UpRequest
    BY <1>10 DEF UpRequest, tunnel, Counters, Held
  <1>11. CASE UpStarts
    <2>1. CASE \E age \in Age : NewAttempt(Up, age)
      <3>1. UNCHANGED <<authType, wanted>>
        BY <1>11 DEF UpStarts
      <3> QED
        BY <1>2, <2>1, <3>1, CallerFacts
    <2>2. CASE UNCHANGED tunnel
      BY <1>11, <2>2 DEF UpStarts, tunnel, Counters, Held
    <2> QED
      BY <1>11, <2>1, <2>2 DEF UpStarts
  <1>12. CASE Down
    BY <1>12 DEF Down, tunnel, Counters, Held
  <1>13. CASE ConvergeReturns
    <2>1. CASE NewAttempt(Converge, 0)
      <3>1. UNCHANGED <<authType, wanted>>
        BY <1>13 DEF ConvergeReturns
      <3> QED
        BY <1>2, <2>1, <3>1, CallerFacts
    <2>2. CASE UNCHANGED tunnel
      BY <1>13, <2>2 DEF ConvergeReturns, tunnel, Counters, Held
    <2> QED
      BY <1>13, <2>1, <2>2 DEF ConvergeReturns
  <1>14. CASE DailyRefresh \/ DailyReturns
    BY <1>14 DEF DailyRefresh, DailyReturns, tunnel, Counters, Held
  <1>15. CASE Crash
    BY <1>15 DEF Crash, Counters, Held
  <1>16. CASE Tick
    BY <1>16, NoneAssumption DEF Tick, Older, Counters, Held
  <1>17. CASE Suspend
    BY <1>17 DEF Suspend, Counters, Held
  <1>18. CASE UNCHANGED vars
    BY <1>18 DEF vars, Counters, Held
  <1> QED
    BY <1>1, <1>3, <1>4, <1>5, <1>6, <1>7, <1>8, <1>9, <1>10, <1>11, <1>12, <1>13, <1>14, <1>15,
       <1>16, <1>17, <1>18 DEF Next

\* The initial state has its types.
LEMMA InitTypes == Init => Files /\ Counters /\ Held
  <1> SUFFICES ASSUME Init PROVE Files /\ Counters /\ Held
    OBVIOUS
  <1>1. call \in [Callers -> Call] /\ \A c \in Callers : call[c].fd = None /\ call[c].pc = "off"
    BY AtFacts DEF Init
  <1>2. raced \in BOOLEAN /\ wanted \in BOOLEAN
    BY DEF Init
  <1>3. Files
    BY <1>1, <1>2, NoneAssumption DEF Init, Files
  <1>4. Counters
    BY <1>2, CredentialsAssumption DEF Init, Counters
  <1>5. Held
    BY DEF Init, Held
  <1> QED
    BY <1>3, <1>4, <1>5

\* Every variable keeps its type: a call holds a descriptor exactly while it
\* writes or renames, and no descriptor is on a temporary file that is not
\* there, however the saves of several refreshes overlap.
THEOREM TypeCorrect == Spec => []TypeOK
  <1>1. Init => Files /\ Counters /\ Held
    BY InitTypes
  <1>2. Files /\ Counters /\ Held /\ [Next]_vars => Files' /\ Counters' /\ Held'
    BY FilesStep, CountersStep
  <1> QED
    BY <1>1, <1>2, TypeParts, PTL DEF Spec

-----------------------------------------------------------------------------
(* The credentials files *)

\* No periodic task starts, ends or goes to sleep.
SameTasks ==
    \A a \in Attempts : /\ call'[Task(a)].pc = "off" <=> call[Task(a)].pc = "off"
                        /\ call'[Task(a)].pc = "sleep" => call[Task(a)].pc = "sleep"

\* The invariant of the attempts.
Attempted == Tasks /\ Refreshed /\ Paced /\ LeftoverIsLate

\* Steps of the refreshes and of the callers other than the attempts.
LEMMA SameTasksStep ==
    ASSUME Files,
           \/ \E c \in Callers : Load(c) \/ Exchange(c) \/ Open(c) \/ Write(c) \/ Rename(c)
           \/ \E a \in Attempts : TaskWakes(a)
           \/ SoftRestart \/ UpRequest \/ Down \/ DailyRefresh \/ DailyReturns
           \/ UNCHANGED vars
    PROVE  SameTasks /\ UNCHANGED tunnel /\ authType' = authType
  <1> USE AtFacts, CallerFacts DEF SameTasks, Files
  <1>1. ASSUME NEW c \in Callers, Load(c) PROVE SameTasks
    BY <1>1 DEF Load, Goto
  <1>2. ASSUME NEW c \in Callers, Exchange(c) PROVE SameTasks
    BY <1>2 DEF Exchange, KeptRt, Goto
  <1>3. ASSUME NEW c \in Callers, Open(c) PROVE SameTasks
    BY <1>3 DEF Open, Opened, Goto, Call
  <1>4. ASSUME NEW c \in Callers, Write(c) PROVE SameTasks
    BY <1>4 DEF Write, Call
  <1>5. ASSUME NEW c \in Callers, Rename(c) PROVE SameTasks
    BY <1>5 DEF Rename, Goto, Call
  <1>6. ASSUME NEW a \in Attempts, TaskWakes(a) PROVE SameTasks
    BY <1>6 DEF TaskWakes, Goto
  <1>7. ASSUME \/ SoftRestart \/ UpRequest \/ Down \/ DailyRefresh \/ DailyReturns
               \/ UNCHANGED vars
        PROVE  SameTasks
    <2>1. \A a \in Attempts : call'[Task(a)] = call[Task(a)]
      BY <1>7 DEF SoftRestart, UpRequest, Down, DailyRefresh, DailyReturns, Goto, vars
    <2> QED
      BY <2>1
  <1>8. UNCHANGED tunnel /\ authType' = authType
    BY DEF Load, Exchange, Open, Write, Rename, TaskWakes, SoftRestart, UpRequest, Down, DailyRefresh,
           DailyReturns, vars, tunnel
  <1> QED
    BY <1>1, <1>2, <1>3, <1>4, <1>5, <1>6, <1>7, <1>8

\* A new attempt takes a number whose task and file belong to it.
LEMMA NewAttemptStep ==
    ASSUME Files, Counters, Attempted, conn # "attempt", authType' = authType,
           NEW c \in {Connect, Converge, Up}, NEW age, NewAttempt(c, age)
    PROVE  Attempted'
  <1> DEFINE n == attempt + 1
  <1>1. /\ n \in Attempts /\ attempt' = n /\ conn' = "attempt" /\ timer' = 0 /\ calm' = 0
        /\ auth' = [auth EXCEPT ![n] = age] /\ late' = late
    BY CredentialsAssumption DEF NewAttempt, Counters, Attempts
  <1>2. \A a \in Attempts : a # n => call'[Task(a)] = call[Task(a)]
    BY <1>1, CallerFacts DEF NewAttempt, Files
  <1>3. /\ authType = "Aad" => call'[Task(n)].pc = "sleep"
        /\ authType # "Aad" => call'[Task(n)].pc = "off"
    BY <1>1, CallerFacts, AtFacts DEF NewAttempt, Files
  <1>4. Tasks' /\ LeftoverIsLate'
    BY <1>1, <1>2, <1>3 DEF Attempted, Tasks, LeftoverIsLate, Current, Counters
  <1>5. Refreshed' /\ Paced'
    BY <1>1, <1>3 DEF Refreshed, Paced
  <1> QED
    BY <1>4, <1>5 DEF Attempted

LEMMA AttemptedStep ==
    Files /\ Counters /\ Held /\ Attempted /\ [Next]_vars => Attempted'
  <1> SUFFICES ASSUME Files, Counters, Held, Attempted, [Next]_vars PROVE Attempted'
    OBVIOUS
  <1>1. CASE SameTasks /\ UNCHANGED tunnel /\ authType' = authType
    BY <1>1 DEF SameTasks, tunnel, Held, Attempted, Tasks, Refreshed, Paced, LeftoverIsLate, Current
  <1>2. CASE EndAttempt
    <2>1. /\ conn = "attempt" /\ conn' \in {"down", "backoff"} /\ attempt' = attempt
          /\ auth' = [auth EXCEPT ![attempt] = None]
          /\ late' = late \union {a \in {attempt} : call[Task(a)].pc \notin {"sleep", "off"}}
          /\ attempt \in Attempts
      BY <1>2 DEF EndAttempt, Held
    <2>2. /\ call[Task(attempt)].pc = "sleep" => call'[Task(attempt)].pc = "off"
          /\ call[Task(attempt)].pc # "sleep" => call'[Task(attempt)] = call[Task(attempt)]
          /\ \A a \in Attempts : a # attempt => call'[Task(a)] = call[Task(a)]
      BY <1>2, <2>1, CallerFacts, AtFacts DEF EndAttempt, Cancelled, Files
    <2>3. Tasks' /\ LeftoverIsLate'
      BY <2>1, <2>2 DEF Attempted, Tasks, LeftoverIsLate, Current, Counters
    <2> QED
      BY <2>1, <2>3 DEF Attempted, Refreshed, Paced
  <1>3. CASE Retry
    <2>1. /\ conn = "backoff" /\ conn' # "attempt" /\ UNCHANGED <<attempt, auth, late>>
          /\ \A a \in Attempts : call'[Task(a)] = call[Task(a)]
      BY <1>3, CallerFacts DEF Retry, Files
    <2> QED
      BY <2>1 DEF Attempted, Tasks, Refreshed, Paced, LeftoverIsLate, Current
  <1>4. CASE RetryReturns
    BY <1>4, NewAttemptStep DEF RetryReturns
  <1>5. CASE SoftRestartReturns
    <2>1. /\ conn = "attempt" /\ UNCHANGED <<authType, conn, attempt, timer, calm, late>>
          /\ auth' = auth \/ auth' = [auth EXCEPT ![attempt] = 0]
          /\ attempt \in Attempts
      BY <1>5 DEF SoftRestartReturns, Held
    <2>2. \A a \in Attempts : call'[Task(a)] = call[Task(a)]
      BY <1>5, CallerFacts DEF SoftRestartReturns, Files
    <2>3. Paced'
      BY <2>1 DEF Attempted, Paced, Counters
    <2> QED
      BY <2>1, <2>2, <2>3 DEF Attempted, Tasks, Refreshed, LeftoverIsLate, Current, Counters
  <1>6. ASSUME NEW a \in Attempts, TaskReturns(a) PROVE Attempted'
    <2>1. /\ UNCHANGED <<authType, conn, attempt, late>>
          /\ call[Task(a)].pc \in {"returned", "failed"}
          /\ \A b \in Attempts : b # a => call'[Task(b)] = call[Task(b)]
          /\ Current(a) => call'[Task(a)].pc = "sleep"
          /\ ~Current(a) => call'[Task(a)].pc = "off"
      BY <1>6, CallerFacts, AtFacts DEF TaskReturns, AfterFailure, Files
    <2>2. auth' = auth \/ auth' = [auth EXCEPT ![a] = 0]
      BY <1>6 DEF TaskReturns
    <2>3. Tasks' /\ Refreshed' /\ LeftoverIsLate'
      BY <2>1, <2>2 DEF Held, Attempted, Tasks, Refreshed, LeftoverIsLate, Current, Counters
    <2>4. Paced'
      <3>1. CASE Current(a)
        BY <1>6, <3>1 DEF TaskReturns, Paced, Current, Counters
      <3>2. CASE ~Current(a)
        <4>1. timer' = timer /\ calm' = calm
          BY <1>6, <3>2 DEF TaskReturns
        <4>2. conn = "attempt" => auth'[attempt] = auth[attempt]
          BY <2>2, <3>2 DEF Held, Current, Counters
        <4> QED
          BY <2>1, <4>1, <4>2 DEF Attempted, Paced
      <3> QED
        BY <3>1, <3>2
    <2> QED
      BY <2>3, <2>4 DEF Attempted
  <1>7. CASE UpStarts
    <2>1. CASE UNCHANGED tunnel /\ call' = [call EXCEPT ![Up] = Off]
      BY <1>1, <1>7, <2>1, CallerFacts DEF UpStarts, Files, SameTasks
    <2> QED
      BY <1>7, <2>1, NewAttemptStep DEF UpStarts
  <1>8. CASE ConvergeReturns
    <2>1. CASE UNCHANGED tunnel /\ call' = [call EXCEPT ![Converge] = Off]
      BY <1>1, <1>8, <2>1, CallerFacts DEF ConvergeReturns, Files, SameTasks
    <2> QED
      BY <1>8, <2>1, NewAttemptStep DEF ConvergeReturns
  <1>9. CASE Crash
    <2>1. /\ conn' = "down" /\ late' = late \union {a \in Attempts : Current(a)}
          /\ UNCHANGED auth /\ \A a \in Attempts : call'[Task(a)].pc = "off"
      BY <1>9, CallerFacts, AtFacts DEF Crash
    <2> QED
      BY <2>1 DEF Attempted, Tasks, Refreshed, Paced, LeftoverIsLate, Current
  <1>10. CASE Tick
    <2>1. /\ conn = "attempt" /\ authType = "Aad" /\ attempt \in Attempts
          /\ UNCHANGED <<authType, call, conn, attempt, late>>
          /\ auth[attempt] \in Age
          /\ auth' = [auth EXCEPT ![attempt] = Older(auth[attempt])]
      BY <1>10 DEF Tick, Held
    <2>2. timer < Period
      BY <1>10, <2>1, CallerFacts DEF Tick, Attempted, Refreshed
    <2>3. timer' = timer + 1 /\ calm' <= calm + 1
      BY <1>10, <2>2 DEF Tick, Counters
    <2>4. Paced'
      <3>1. auth'[attempt] = Older(auth[attempt])
        BY <2>1 DEF Counters
      <3>2. Older(auth[attempt]) <= auth[attempt] + 1 /\ Older(auth[attempt]) \in Nat
        BY <2>1, CredentialsAssumption DEF Older, Age
      <3>3. calm <= timer \/ auth[attempt] <= timer
        BY <2>1 DEF Attempted, Paced
      <3>4. calm' \in Nat
        BY CountersStep, CredentialsAssumption DEF Counters
      <3> QED
        BY <2>1, <2>3, <3>1, <3>2, <3>3, <3>4, CredentialsAssumption DEF Paced, Counters, Age
    <2> QED
      BY <2>1, <2>4 DEF Attempted, Tasks, Refreshed, LeftoverIsLate, Current, Counters
  <1>11. CASE Suspend
    <2>1. /\ conn = "attempt" /\ attempt \in Attempts /\ calm' = 0
          /\ UNCHANGED <<authType, call, conn, attempt, late, timer>>
          /\ auth' = [auth EXCEPT ![attempt] = Life]
      BY <1>11 DEF Suspend, Held
    <2> QED
      BY <2>1 DEF Attempted, Tasks, Refreshed, Paced, LeftoverIsLate, Current, Counters
  <1> QED
    BY <1>1, <1>2, <1>3, <1>4, <1>5, <1>6, <1>7, <1>8, <1>9, <1>10, <1>11, SameTasksStep DEF Next

\* The inductive invariant of the attempts.
LEMMA AttemptedHolds == Spec => [](Counters /\ Held /\ Attempted)
  <1>1. Init => Files /\ Counters /\ Held /\ Attempted
    <2> SUFFICES ASSUME Init PROVE Files /\ Counters /\ Held /\ Attempted
      OBVIOUS
    <2>1. Files /\ Counters /\ Held
      BY InitTypes
    <2>2. Attempted
      BY AtFacts, CallerFacts DEF Init, Attempted, Tasks, Refreshed, Paced, LeftoverIsLate
    <2> QED
      BY <2>1, <2>2
  <1>2. Files /\ Counters /\ Held /\ Attempted /\ [Next]_vars
            => Files' /\ Counters' /\ Held' /\ Attempted'
    BY FilesStep, CountersStep, AttemptedStep
  <1> QED
    BY <1>1, <1>2, PTL DEF Spec

\* The only credentials files left behind are those of attempts whose periodic
\* refresh was under way at their end, and of a killed daemon.
THEOREM LeftoverCorrect == Spec => []LeftoverIsLate
  BY AttemptedHolds, PTL DEF Attempted

\* However old the first bearer was, an attempt that has been calm for more
\* than the refresh interval has one that has not expired: the periodic task
\* replaces it before it is older than its own sleep.
THEOREM BearerCorrect == Spec => []BearerFresh
  <1>1. Counters /\ Held /\ Attempted => BearerFresh
    BY CredentialsAssumption DEF Counters, Held, Attempted, Paced, BearerFresh, Age
  <1> QED
    BY <1>1, AttemptedHolds, PTL

-----------------------------------------------------------------------------
(* The cache *)

\* A step that leaves the disk and every open descriptor's call alone.
LEMMA SameWriters ==
    ASSUME Files, OneWriter, AllRt, UNCHANGED disk,
           \A c \in Callers : \/ call'[c] = call[c]
                              \/ /\ call'[c].fd = None /\ call'[c].data = "rt"
                                 /\ call'[c].pc \notin {"write", "rename"}
    PROVE  OneWriter' /\ AllRt'
  <1>1. AllRt'
    BY DEF AllRt
  <1>2. ASSUME ~raced', NEW c \in Callers PROVE Writer(c)'
    BY <1>2 DEF OneWriter, Writer, disk
  <1> QED
    BY <1>1, <1>2 DEF OneWriter

\* Every step keeps the writers apart and the refresh tokens in the answers.
LEMMA WriterStep == Files /\ OneWriter /\ AllRt /\ [Next]_vars => OneWriter' /\ AllRt'
  <1> SUFFICES ASSUME Files, OneWriter, AllRt, [Next]_vars PROVE OneWriter' /\ AllRt'
    OBVIOUS
  <1> USE AtFacts, CallerFacts
  <1>1. ASSUME NEW c \in Callers, Load(c) PROVE OneWriter' /\ AllRt'
    BY <1>1, SameWriters DEF Load, Goto, Files
  <1>2. ASSUME NEW c \in Callers, Exchange(c) PROVE OneWriter' /\ AllRt'
    BY <1>2, SameWriters DEF Exchange, KeptRt, Goto, Files
  <1>3. ASSUME NEW c \in Callers, Open(c) PROVE OneWriter' /\ AllRt'
    <2>1. CASE Opened(c) /\ raced' = (raced \/ \E d \in Callers \ {c} : call[d].fd # None)
      <3>1. /\ call'[c].fd = "tmp" /\ call'[c].pc = "write" /\ call'[c].data = call[c].data
            /\ \A d \in Callers : d # c => call'[d] = call[d]
            /\ tmp' = "empty"
        BY <2>1 DEF Opened, Files, Call
      <3>2. AllRt'
        BY <3>1 DEF AllRt
      <3>3. ASSUME ~raced', NEW d \in Callers PROVE Writer(d)'
        <4>1. ~raced /\ \A e \in Callers : e # c => call[e].fd = None
          BY <2>1, <3>3
        <4>2. \A e \in Callers : e # c => call'[e].fd = None /\ call'[e].pc \notin {"write", "rename"}
          BY <3>1, <4>1 DEF Files
        <4> QED
          BY <3>1, <4>2 DEF Writer
      <3> QED
        BY <3>2, <3>3 DEF OneWriter
    <2>2. CASE Goto(c, "returned") /\ UNCHANGED disk
      BY <2>2, SameWriters DEF Goto, Files
    <2> QED
      BY <1>3, <2>1, <2>2 DEF Open
  <1>4. ASSUME NEW c \in Callers, Write(c) PROVE OneWriter' /\ AllRt'
    <2>1. /\ \A d \in Callers : d # c => call'[d] = call[d]
          /\ call'[c].data = "rt" /\ raced' = raced
          /\ \/ call'[c].pc = "rename" /\ call'[c].fd = call[c].fd
                /\ (call[c].fd = "tmp" /\ tmp = "empty" => tmp' = "rt")
             \/ call'[c].pc = "returned" /\ call'[c].fd = None
      BY <1>4 DEF Write, Overwritten, Files, Call, AllRt
    <2>2. AllRt'
      BY <2>1 DEF AllRt
    <2>3. ASSUME ~raced', NEW d \in Callers PROVE Writer(d)'
      <3>1. Writer(c) /\ Writer(d)
        BY <2>1, <2>3 DEF OneWriter
      <3>2. call[c].pc = "write" /\ call[c].fd # None
        BY <1>4 DEF Write, Files
      <3>3. \A e \in Callers : e # c => call[e].fd = None /\ call[e].pc \notin {"write", "rename"}
        BY <3>1, <3>2 DEF Writer, Files
      <3> QED
        BY <2>1, <3>1, <3>2, <3>3 DEF Writer
    <2> QED
      BY <2>2, <2>3 DEF OneWriter
  <1>5. ASSUME NEW c \in Callers, Rename(c) PROVE OneWriter' /\ AllRt'
    <2>1. CASE Goto(c, "returned") /\ UNCHANGED <<cache, tmp>>
      BY <1>5, <2>1, SameWriters DEF Rename, Goto, Files, disk
    <2>2. CASE call' = [d \in Callers |-> IF d = c THEN At("returned")
                                          ELSE [call[d] EXCEPT !.fd = Moved(@)]]
      <3>1. /\ call'[c].fd = None /\ call'[c].pc = "returned"
            /\ \A d \in Callers : call'[d].data = "rt"
            /\ \A d \in Callers \ {c} : /\ call'[d].fd = Moved(call[d].fd)
                                        /\ call'[d].pc = call[d].pc
        BY <2>2 DEF Files, Call, AllRt
      <3>2. AllRt'
        BY <3>1 DEF AllRt
      <3>3. ASSUME ~raced', NEW d \in Callers PROVE Writer(d)'
        <4>1. ~raced /\ call[c].pc = "rename" /\ call[c].fd # None /\ Writer(c)
          BY <1>5, <3>3 DEF Rename, Files, OneWriter
        <4>2. \A e \in Callers : e # c => call[e].fd = None /\ call[e].pc \notin {"write", "rename"}
          BY <4>1 DEF Writer, Files
        <4>3. Moved(None) = None
          BY NoneAssumption DEF Moved
        <4> QED
          BY <3>1, <4>2, <4>3 DEF Writer
      <3> QED
        BY <3>2, <3>3 DEF OneWriter
    <2> QED
      BY <1>5, <2>1, <2>2 DEF Rename
  <1>6. ASSUME NEW c \in Callers, NEW age, NewAttempt(c, age), UNCHANGED disk PROVE OneWriter' /\ AllRt'
    <2> DEFINE t == Task(attempt + 1)
               task == IF authType = "Aad" THEN At("sleep") ELSE Off
    <2>1. call' = [call EXCEPT ![c] = Off, ![t] = task]
      BY <1>6 DEF NewAttempt
    <2>2. task.fd = None /\ task.data = "rt" /\ task.pc \notin {"write", "rename"}
      OBVIOUS
    <2>3. \A d \in Callers : call'[d] \in {call[d], Off, task}
      BY <2>1 DEF Files
    <2> QED
      BY <1>6, <2>2, <2>3, SameWriters
  <1>7. CASE EndAttempt
    BY <1>7, SameWriters DEF EndAttempt, Cancelled, Files
  <1>8. CASE Retry
    BY <1>8, SameWriters DEF Retry, Files
  <1>9. CASE RetryReturns
    BY <1>6, <1>9 DEF RetryReturns
  <1>10. CASE SoftRestart
    BY <1>10, SameWriters DEF SoftRestart, Goto, Files
  <1>11. CASE SoftRestartReturns
    BY <1>11, SameWriters DEF SoftRestartReturns, Files
  <1>12. ASSUME NEW a \in Attempts, TaskWakes(a) PROVE OneWriter' /\ AllRt'
    BY <1>12, SameWriters DEF TaskWakes, Goto, Files
  <1>13. ASSUME NEW a \in Attempts, TaskReturns(a) PROVE OneWriter' /\ AllRt'
    BY <1>13, SameWriters DEF TaskReturns, AfterFailure, Files
  <1>14. CASE UpRequest
    BY <1>14, SameWriters DEF UpRequest, Goto, Files
  <1>15. CASE UpStarts
    BY <1>6, <1>15, SameWriters DEF UpStarts, Files
  <1>16. CASE Down
    BY <1>16, SameWriters DEF Down, Files
  <1>17. CASE ConvergeReturns
    BY <1>6, <1>17, SameWriters DEF ConvergeReturns, Files
  <1>18. CASE DailyRefresh
    BY <1>18, SameWriters DEF DailyRefresh, Goto, Files
  <1>19. CASE DailyReturns
    BY <1>19, SameWriters DEF DailyReturns, Files
  <1>20. CASE Crash
    BY <1>20, SameWriters DEF Crash, Files
  <1>21. CASE Tick \/ Suspend
    BY <1>21, SameWriters DEF Tick, Suspend, Files
  <1>22. CASE UNCHANGED vars
    BY <1>22, SameWriters DEF vars, disk, Files
  <1> QED
    BY <1>1, <1>2, <1>3, <1>4, <1>5, <1>7, <1>8, <1>9, <1>10, <1>11, <1>12, <1>13, <1>14, <1>15,
       <1>16, <1>17, <1>18, <1>19, <1>20, <1>21, <1>22 DEF Next

\* The temporary file and the rename keep a usable cache usable through every
\* failed or cut-off save, as long as no two writers have the temporary file
\* open at once.
THEOREM CacheCorrect == Spec => CacheStaysUsable
  <1>1. Init => Files /\ OneWriter /\ AllRt
    BY InitTypes, AtFacts DEF Init, OneWriter, Writer, AllRt
  <1>2. Files /\ OneWriter /\ AllRt /\ [Next]_vars => Files' /\ OneWriter' /\ AllRt'
    BY FilesStep, WriterStep
  <1>3. Files /\ OneWriter /\ [Next]_vars => [cache = "rt" /\ ~raced' => cache' = "rt"]_vars
    <2> SUFFICES ASSUME Files, OneWriter, Next, cache = "rt", ~raced' PROVE cache' = "rt"
      BY DEF vars
    <2>1. CASE cache' = cache
      BY <2>1
    <2>2. ASSUME NEW c \in Callers, Write(c) PROVE cache' = cache
      <3>1. call[c].fd # None /\ ~raced
        BY <2>2 DEF Write, Files
      <3>2. call[c].fd = "tmp"
        BY <3>1 DEF OneWriter, Writer
      <3> QED
        BY <2>2, <3>2 DEF Write
    <2>3. ASSUME NEW c \in Callers, Rename(c) PROVE cache' \in {cache, "rt"}
      <3>1. call[c].pc = "rename" /\ ~raced
        BY <2>3 DEF Rename
      <3>2. tmp = "rt"
        BY <3>1 DEF OneWriter, Writer
      <3> QED
        BY <2>3, <3>2 DEF Rename
    <2>4. ASSUME cache' # cache PROVE \E c \in Callers : Write(c) \/ Rename(c)
      BY <2>4 DEF Next, disk, Load, Exchange, Open, Opened, EndAttempt, Retry, RetryReturns, SoftRestart,
                  SoftRestartReturns, TaskWakes, TaskReturns, UpRequest, UpStarts, Down,
                  ConvergeReturns, DailyRefresh, DailyReturns, Crash, Tick, Suspend
    <2> QED
      BY <2>1, <2>2, <2>3, <2>4
  <1> QED
    BY <1>1, <1>2, <1>3, PTL DEF Spec, CacheStaysUsable

=============================================================================
