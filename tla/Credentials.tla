----------------------------- MODULE Credentials -----------------------------
(***************************************************************************)
(* The daemon's credentials: the cache file with the refresh token, and    *)
(* the auth-user-pass file from which openvpn reads its bearer at every    *)
(* handshake.                                                              *)
(*                                                                         *)
(* Refreshes run in the connect task (between attempts and before a soft   *)
(* restart), in the periodic task of every attempt, in the boot-time       *)
(* converge and in the daily task; up stashes a refresh token of its own.  *)
(* All of them go through one temporary file next to the cache, whose      *)
(* steps are actions here: a writer holds a descriptor, and a rename moves *)
(* the file under the descriptors of the others.                           *)
(*                                                                         *)
(* A unit of time is such that a refresh takes less than one; time passes  *)
(* only between refreshes.                                                 *)
(***************************************************************************)
EXTENDS Naturals, FiniteSets

CONSTANTS
    MaxAttempts,    \* model bound: attempts
    MaxBusy,        \* model bound: refreshes and stashes under way at once
    Period,         \* BEARER_REFRESH_INTERVAL
    Life,           \* lifetime of a bearer
    None

ASSUME CredentialsAssumption ==
    /\ MaxAttempts \in Nat \ {0} /\ MaxBusy \in Nat \ {0} /\ Period \in Nat \ {0} /\ Life \in Nat
    /\ Period < Life

AuthTypes == {"Aad", "UsernamePass", "Certificate"}
Attempts == 1 .. MaxAttempts
Age == 0 .. Life    \* of a bearer; Life is expired

Connect == <<"connect", 0>>
Converge == <<"converge", 0>>
Up == <<"up", 0>>
Daily == <<"daily", 0>>
Task(a) == <<"task", a>>
Callers == {Connect, Converge, Up, Daily} \union {Task(a) : a \in Attempts}

\* What a file can hold: a token with or without a refresh token, nothing, or
\* something that does not parse.
Content == {"rt", "plain", "empty", "torn"}

ASSUME NoneAssumption ==
    None \notin Age /\ None \notin Content /\ None \notin {"tmp", "cache", "gone"}

\* "off": no call; "sleep": the periodic task between two calls; "returned"
\* and "failed": the refresh is over.  fd: the file the writer has open, which
\* may have been renamed to the cache or replaced meanwhile.
Call == [pc : {"off", "sleep", "load", "exchange", "open", "write", "rename", "returned", "failed"},
         data : {"rt", "plain"},
         fd : {None, "tmp", "cache", "gone"}]
Off == [pc |-> "off", data |-> "rt", fd |-> None]
At(pc) == [Off EXCEPT !.pc = pc]

VARIABLES
    authType,   \* of the profile
    wanted,     \* target.json says Connected
    cache,      \* content of the cache file, or None
    tmp,        \* content of its temporary file, or None
    call,       \* the refreshes under way
    conn,       \* "down", "attempt" or "backoff"
    attempt,    \* number of the last attempt
    auth,       \* auth[a]: age of the bearer in the auth-user-pass file, or None
    timer,      \* time the current attempt's periodic task has slept
    calm,       \* history: time since the attempt began, the host slept or a
                \* periodic refresh failed
    late,       \* history: attempts that ended during a refresh of their task, or by a crash
    raced       \* history: two writers had the temporary file open at once

vars == <<authType, wanted, cache, tmp, call, conn, attempt, auth, timer, calm, late, raced>>
disk == <<cache, tmp, raced>>
tunnel == <<conn, attempt, auth, timer, calm, late>>

TypeOK ==
    /\ authType \in AuthTypes
    /\ wanted \in BOOLEAN /\ raced \in BOOLEAN
    /\ cache \in Content \union {None} /\ tmp \in Content \union {None}
    /\ call \in [Callers -> Call]
    /\ conn \in {"down", "attempt", "backoff"}
    /\ attempt \in 0 .. MaxAttempts
    /\ auth \in [Attempts -> Age \union {None}]
    /\ timer \in 0 .. Period /\ calm \in 0 .. Period + 1
    /\ late \subseteq Attempts
    /\ \A c \in Callers : call[c].fd # None <=> call[c].pc \in {"write", "rename"}
    /\ \A c \in Callers : call[c].fd = "tmp" => tmp # None

Init ==
    /\ authType \in AuthTypes
    /\ wanted = FALSE
    /\ cache = None /\ tmp = None
    /\ call = [c \in Callers |-> Off]
    /\ conn = "down" /\ attempt = 0
    /\ auth = [a \in Attempts |-> None]
    /\ timer = 0 /\ calm = 0
    /\ late = {} /\ raced = FALSE

Goto(c, pc) == call' = [call EXCEPT ![c] = At(pc)]

\* Attempt a is running and holds its credentials file.
Current(a) == conn = "attempt" /\ attempt = a

\* A caller may begin a call.
Room == Cardinality({c \in Callers : call[c].pc \notin {"off", "sleep"}}) < MaxBusy

-----------------------------------------------------------------------------
(* silent_refresh and save *)

Load(c) ==
    /\ call[c].pc = "load"
    /\ Goto(c, IF cache = "rt" THEN "exchange" ELSE "failed")
    /\ UNCHANGED <<authType, wanted, disk, tunnel>>

\* save_refresh_result: an answer without a refresh token keeps the previous one.
KeptRt(rotated) == "rt"

\* The identity provider issues a token, with or without a new refresh token,
\* or there is no answer.
Exchange(c) ==
    /\ call[c].pc = "exchange"
    /\ \/ \E rotated \in BOOLEAN :
            call' = [call EXCEPT ![c] = [At("open") EXCEPT !.data = KeptRt(rotated)]]
       \/ Goto(c, "failed")
    /\ UNCHANGED <<authType, wanted, disk, tunnel>>

\* Plausible slip: the cache itself is opened and truncated.
OpenedInPlace(c) ==
    /\ cache' = "empty"
    /\ call' = [call EXCEPT ![c].pc = "write", ![c].fd = "cache"]
    /\ UNCHANGED tmp

\* The temporary file is created or, if it is there, truncated.
Opened(c) ==
    /\ tmp' = "empty"
    /\ call' = [call EXCEPT ![c].pc = "write", ![c].fd = "tmp"]
    /\ UNCHANGED cache

\* A failed save is only logged: the caller gets its token.
Open(c) ==
    /\ call[c].pc = "open"
    /\ \/ /\ Opened(c)
          /\ raced' = (raced \/ \E d \in Callers \ {c} : call[d].fd # None)
       \/ Goto(c, "returned") /\ UNCHANGED disk
    /\ UNCHANGED <<authType, wanted, tunnel>>

\* What a file that held old may hold once data is written from its start.
Overwritten(old, data) == IF old = "empty" THEN {data} ELSE {data, "torn"}

\* write_all and sync_all, into whatever the descriptor has become.
Write(c) ==
    /\ call[c].pc = "write"
    /\ \E ok \in BOOLEAN :
        LET results(old) == IF ok THEN Overwritten(old, call[c].data) ELSE {old, "torn"} IN
        /\ IF call[c].fd = "tmp" THEN tmp' \in results(tmp) ELSE UNCHANGED tmp
        /\ IF call[c].fd = "cache" THEN cache' \in results(cache) ELSE UNCHANGED cache
        /\ call' = [call EXCEPT ![c] = IF ok THEN [@ EXCEPT !.pc = "rename"] ELSE At("returned")]
    /\ UNCHANGED <<authType, wanted, raced, tunnel>>

\* Plausible slip: the file is copied over the cache and then removed.
MovedByCopy(fd) == fd

\* What a descriptor refers to once the temporary file has been renamed.
Moved(fd) == CASE fd = "tmp" -> "cache" [] fd = "cache" -> "gone" [] OTHER -> fd

\* The rename replaces the cache by whatever the temporary file holds now; it
\* fails if another writer has renamed it already.
Rename(c) ==
    /\ call[c].pc = "rename"
    /\ \/ /\ tmp # None
          /\ cache' = tmp /\ tmp' = None
          /\ call' = [d \in Callers |-> IF d = c THEN At("returned")
                                        ELSE [call[d] EXCEPT !.fd = Moved(@)]]
       \/ Goto(c, "returned") /\ UNCHANGED <<cache, tmp>>
    /\ UNCHANGED <<authType, wanted, raced, tunnel>>

-----------------------------------------------------------------------------
(* Attempts *)

\* build_auth_file: a certificate profile, or an Aad one without a bearer, is
\* refused; a file is made otherwise, and its periodic task if there is a bearer.
NewAttempt(c, age) ==
    /\ authType # "Certificate" /\ attempt < MaxAttempts
    /\ attempt' = attempt + 1
    /\ auth' = [auth EXCEPT ![attempt + 1] = age]
    /\ conn' = "attempt" /\ timer' = 0 /\ calm' = 0
    /\ call' = [call EXCEPT ![c] = Off,
                            ![Task(attempt + 1)] = IF authType = "Aad" THEN At("sleep") ELSE Off]
    /\ UNCHANGED late

\* Plausible slip: the task goes on.
CancelledNot(c) == c

\* The guard cancels the periodic task, which notices only while it sleeps.
Cancelled(c) == IF c.pc = "sleep" THEN Off ELSE c

\* attempt() returns: the task is cancelled, then the file deleted.  The
\* refresh before a soft restart is awaited first.
EndAttempt ==
    /\ conn = "attempt" /\ call[Connect].pc = "off"
    /\ call' = [call EXCEPT ![Task(attempt)] = Cancelled(@)]
    /\ late' = late \union {a \in {attempt} : call[Task(a)].pc \notin {"sleep", "off"}}
    /\ auth' = [auth EXCEPT ![attempt] = None]
    /\ conn' \in {"down", "backoff"}
    /\ UNCHANGED <<authType, wanted, disk, attempt, timer, calm>>

\* The backoff is over: the bearer is refreshed, except when cancelled.
Retry ==
    /\ conn = "backoff" /\ call[Connect].pc = "off" /\ Room
    /\ \/ /\ call' = [call EXCEPT ![Connect] = At(IF authType = "Aad" THEN "load" ELSE "failed")]
          /\ UNCHANGED conn
       \/ conn' = "down" /\ UNCHANGED call
    /\ UNCHANGED <<authType, wanted, disk, attempt, auth, timer, calm, late>>

\* The next attempt has the new bearer or, without one, the previous.
RetryReturns ==
    /\ conn = "backoff"
    /\ \/ call[Connect].pc = "returned" /\ NewAttempt(Connect, 0)
       \/ call[Connect].pc = "failed" /\ \E age \in Age : NewAttempt(Connect, age)
    /\ UNCHANGED <<authType, wanted, disk>>

SoftRestart ==
    /\ conn = "attempt" /\ authType = "Aad" /\ call[Connect].pc = "off" /\ Room
    /\ Goto(Connect, "load")
    /\ UNCHANGED <<authType, wanted, disk, tunnel>>

\* rewrite_auth_file renames a new file over the path, whether or not there
\* is one, or fails and leaves it.
SoftRestartReturns ==
    /\ conn = "attempt" /\ call[Connect].pc \in {"returned", "failed"}
    /\ \/ call[Connect].pc = "returned" /\ auth' = [auth EXCEPT ![attempt] = 0]
       \/ UNCHANGED auth
    /\ call' = [call EXCEPT ![Connect] = Off]
    /\ UNCHANGED <<authType, wanted, disk, conn, attempt, timer, calm, late>>

-----------------------------------------------------------------------------
(* The periodic task of an attempt *)

TaskWakes(a) ==
    /\ call[Task(a)].pc = "sleep" /\ timer = Period /\ Room
    /\ Goto(Task(a), "load")
    /\ UNCHANGED <<authType, wanted, disk, tunnel>>

\* Plausible slip: the loop ends with the first error.
AfterFailureEnds == Off

\* The loop goes on after an error.
AfterFailure == At("sleep")

\* The file is rewritten, and the loop looks at its cancellation.
TaskReturns(a) ==
    /\ call[Task(a)].pc \in {"returned", "failed"}
    /\ \/ /\ call[Task(a)].pc = "returned"
          /\ auth' = [auth EXCEPT ![a] = 0]
          /\ call' = [call EXCEPT ![Task(a)] = IF Current(a) THEN At("sleep") ELSE Off]
          /\ UNCHANGED calm
       \/ /\ calm' = IF Current(a) THEN 0 ELSE calm
          /\ call' = [call EXCEPT ![Task(a)] = IF Current(a) THEN AfterFailure ELSE Off]
          /\ UNCHANGED auth
    /\ timer' = IF Current(a) THEN 0 ELSE timer
    /\ UNCHANGED <<authType, wanted, disk, conn, attempt, late>>

-----------------------------------------------------------------------------
(* The daemon *)

\* up, unless ephemeral, records the target and stashes the refresh token if
\* the request has one.
UpRequest ==
    /\ call[Up].pc = "off" /\ Room
    /\ \/ wanted' = TRUE /\ Goto(Up, IF authType = "Aad" THEN "open" ELSE "returned")
       \/ wanted' = TRUE /\ Goto(Up, "returned")
       \/ UNCHANGED wanted /\ Goto(Up, "returned")
    /\ UNCHANGED <<authType, disk, tunnel>>

\* start_connection with the caller's bearer, which may be a cached one of any
\* age.  It joins or is refused if there is a connection.
UpStarts ==
    /\ call[Up].pc = "returned"
    /\ \/ conn = "down" /\ \E age \in 0 .. Life - 1 : NewAttempt(Up, age)
       \/ /\ conn # "down" \/ authType # "UsernamePass"
          /\ call' = [call EXCEPT ![Up] = Off] /\ UNCHANGED tunnel
    /\ UNCHANGED <<authType, wanted, disk>>

Down ==
    /\ wanted /\ wanted' = FALSE
    /\ UNCHANGED <<authType, disk, call, tunnel>>

\* Converge has a bearer, or gives up.
ConvergeReturns ==
    /\ call[Converge].pc \in {"returned", "failed"}
    /\ \/ call[Converge].pc = "returned" /\ conn = "down" /\ NewAttempt(Converge, 0)
       \/ /\ call[Converge].pc = "failed" \/ conn # "down" \/ authType = "Certificate"
          /\ call' = [call EXCEPT ![Converge] = Off] /\ UNCHANGED tunnel
    /\ UNCHANGED <<authType, wanted, disk>>

\* maybe_refresh, when the cache file is old enough.
NeedsRefresh == wanted /\ authType = "Aad" /\ cache # None

DailyRefresh ==
    /\ call[Daily].pc = "off" /\ NeedsRefresh /\ Room
    /\ Goto(Daily, "load")
    /\ UNCHANGED <<authType, wanted, disk, tunnel>>

DailyReturns ==
    /\ call[Daily].pc \in {"returned", "failed"}
    /\ call' = [call EXCEPT ![Daily] = Off]
    /\ UNCHANGED <<authType, wanted, disk, tunnel>>

\* The daemon is killed and started again, and converges to its target.
Crash ==
    /\ call' = [c \in Callers |->
                    IF c = Converge /\ wanted
                    THEN At(IF authType = "Aad" THEN "load" ELSE "returned") ELSE Off]
    /\ late' = late \union {a \in Attempts : Current(a)}
    /\ conn' = "down"
    /\ UNCHANGED <<authType, wanted, disk, attempt, auth, timer, calm>>

-----------------------------------------------------------------------------
(* Time *)

Older(age) == IF age = Life THEN Life ELSE age + 1

Tick ==
    /\ conn = "attempt" /\ authType = "Aad"
    /\ \A c \in Callers : call[c].pc \in {"off", "sleep"}
    /\ call[Task(attempt)].pc = "sleep" => timer < Period
    /\ timer' = IF timer = Period THEN timer ELSE timer + 1
    /\ calm' = IF calm > Period THEN calm ELSE calm + 1
    /\ auth' = [auth EXCEPT ![attempt] = Older(@)]
    /\ UNCHANGED <<authType, wanted, disk, call, conn, attempt, late>>

\* The host sleeps: bearers age, the task's timer does not advance.
Suspend ==
    /\ conn = "attempt" /\ authType = "Aad"
    /\ auth' = [auth EXCEPT ![attempt] = Life]
    /\ calm' = 0
    /\ UNCHANGED <<authType, wanted, disk, call, conn, attempt, timer, late>>

Next ==
    \/ \E c \in Callers : Load(c) \/ Exchange(c) \/ Open(c) \/ Write(c) \/ Rename(c)
    \/ EndAttempt \/ Retry \/ RetryReturns \/ SoftRestart \/ SoftRestartReturns
    \/ \E a \in Attempts : TaskWakes(a) \/ TaskReturns(a)
    \/ UpRequest \/ UpStarts \/ Down \/ ConvergeReturns \/ DailyRefresh \/ DailyReturns \/ Crash
    \/ Tick \/ Suspend

Spec == Init /\ [][Next]_vars

-----------------------------------------------------------------------------
(* Properties *)

\* A usable cache stays usable: a save that fails or is cut off by a crash at
\* any point, a grant that does not rotate, a converge, a retry and a daily
\* refresh never leave the daemon without a refresh token, as long as no two
\* writers have the temporary file open at once.
CacheStaysUsable == [][cache = "rt" /\ ~raced' => cache' = "rt"]_vars

\* Once an attempt has run for longer than the refresh interval without a
\* failed refresh or a sleep of the host, whenever openvpn reads its
\* credentials file it finds a bearer that has not expired, however old the
\* first one was, and again one interval after a failure.
BearerFresh == conn = "attempt" /\ authType = "Aad" /\ calm > Period => auth[attempt] < Life

\* No credentials file is left behind in the temporary directory, except by a
\* refresh that was under way when its attempt ended, which recreates the
\* deleted file, and by a crash.
LeftoverIsLate == \A a \in Attempts : auth[a] # None => Current(a) \/ a \in late

=============================================================================
