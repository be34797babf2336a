-------------------------------- MODULE Daemon --------------------------------
(***************************************************************************)
(* azvpnd: the slot for the one active connection, the up and down RPCs,   *)
(* the boot-time converge, target.json, the binary watcher and the         *)
(* signal-driven shutdown.                                                 *)
(*                                                                         *)
(* Handlers run concurrently.  A step of this module is what happens       *)
(* between two await points, or one access to target.json; the mutex       *)
(* around the slot is never held across an await.  The connect task is     *)
(* seen through its cancellation token, its status channel and its return  *)
(* (module Connect has the inside): after a cancellation it never reports  *)
(* Connected again.  Tokens, profiles other than their label, and calls    *)
(* refused for lack of permission (which change nothing) are left out.     *)
(***************************************************************************)
EXTENDS Naturals

CONSTANTS
    Clients,     \* concurrent RPC callers
    Labels,      \* profile labels
    None,        \* no connection, no label
    MaxConns     \* model bound: connections ever started

Converge == "converge"

ASSUME DaemonAssumption ==
    /\ MaxConns \in Nat
    /\ None \notin Nat /\ None \notin Labels
    /\ Converge \notin Clients

Conn == 1..MaxConns
Callers == Clients \union {Converge}

VARIABLES
    phase,      \* the daemon process: running, draining, polling, exited
    slot,       \* DaemonState::active
    conns,      \* the connections: task, label, cancel token, status; wedged is history: the
                \* task waits for an openvpn that lives on behind a dead socket
    target,     \* target.json
    calls,      \* the handlers in flight, and the converge task; persisted is history: a
                \* down has written target.json and no persistent up has since
    watcher,    \* binary_watcher
    downAcked   \* history: the last persistent request was a down, now answered

vars == <<phase, slot, conns, target, calls, watcher, downAcked>>

\* "Pending" stands for Idle, Connecting and every openvpn state that is not
\* terminal, "Ended" for Exited and Failed.
Status == {"Pending", "Connected", "Ended"}
Target == [state : {"Connected", "Disconnected"}, label : Labels \union {None}]
Connection == [task : {"none", "running", "returned", "gone"}, label : Labels \union {None},
               cancel : BOOLEAN, status : Status, wedged : BOOLEAN]
Call == [pc : {"idle", "lock", "wait", "downSave", "downLock", "boot", "token"},
         label : Labels \union {None}, conn : Conn \union {None}, persisted : BOOLEAN,
         copy : Target]

NoTarget == [state |-> "Disconnected", label |-> None]
NoCall == [pc |-> "idle", label |-> None, conn |-> None, persisted |-> FALSE,
           copy |-> NoTarget]
NoConnection == [task |-> "none", label |-> None, cancel |-> FALSE, status |-> "Pending",
                 wedged |-> FALSE]

\* Nothing but the last status can be seen of a connection that is gone.
Gone(s) == [NoConnection EXCEPT !.task = "gone", !.status = s]

TypeOK ==
    /\ phase \in {"running", "draining", "polling", "exited"}
    /\ slot \in Conn \union {None}
    /\ conns \in [Conn -> Connection]
    /\ target \in Target
    /\ calls \in [Callers -> Call]
    /\ \A k \in Callers : calls[k].pc = "wait" => calls[k].conn \in Conn
    /\ watcher \in {"armed", "deferring", "idleSeen", "done"}
    /\ downAcked \in BOOLEAN

\* A daemon just booted, with whatever the last one left in target.json.
Init ==
    /\ phase = "running" /\ slot = None
    /\ conns = [c \in Conn |-> NoConnection]
    /\ \/ target = NoTarget
       \/ \E l \in Labels : target = [state |-> "Connected", label |-> l]
    /\ calls = [k \in Callers |-> [NoCall EXCEPT !.pc = IF k = Converge THEN "boot" ELSE "idle"]]
    /\ watcher = "armed"
    /\ downAcked = FALSE

Alive == phase # "exited"

\* Plausible slip: the handler waits without subscribing to a connection.
AwaitNothing(k, c) == calls' = [calls EXCEPT ![k] = [NoCall EXCEPT !.pc = "wait"]]

\* The handler of k waits for the status of c, or is over.
Await(k, c) == calls' = [calls EXCEPT ![k] = [NoCall EXCEPT !.pc = "wait", !.conn = c]]

Finish(k) == calls' = [calls EXCEPT ![k] = NoCall]

-----------------------------------------------------------------------------
(* start_connection, for up and for converge *)

\* The slot holds this profile: wait for the running connection.
Join(k) ==
    /\ slot # None /\ conns[slot].label = calls[k].label
    /\ Await(k, slot)
    /\ UNCHANGED <<slot, conns>>

\* Another profile is up (AlreadyConnected), or the profile has no server.
Refuse(k) ==
    /\ slot # None => conns[slot].label # calls[k].label
    /\ Finish(k)
    /\ UNCHANGED <<slot, conns>>

\* Plausible slip: the slot is filled without looking at what it holds.
FillAnyway(k) ==
    \E c \in Conn :
        /\ conns[c].task = "none"
        /\ conns' = [conns EXCEPT ![c] = [NoConnection EXCEPT !.task = "running",
                                                              !.label = calls[k].label]]
        /\ slot' = c
        /\ Await(k, c)

\* Fill the slot and spawn the connect task.
Fill(k) ==
    /\ slot = None
    /\ \E c \in Conn :
        /\ conns[c].task = "none"
        /\ \A d \in Conn : d < c => conns[d].task # "none"
        /\ conns' = [conns EXCEPT ![c] = [NoConnection EXCEPT !.task = "running",
                                                              !.label = calls[k].label]]
        /\ slot' = c
        /\ Await(k, c)

StartConnection(k) ==
    /\ Alive /\ calls[k].pc = "lock"
    /\ Join(k) \/ Refuse(k) \/ Fill(k)
    /\ UNCHANGED <<phase, target, watcher, downAcked>>

IsTerminal(s) == s \in {"Connected", "Ended"}

\* Plausible slip: a closed status channel does not end the wait.
OverIfTerminal(c) == IsTerminal(conns[c].status)

\* wait_for(is_terminal) looks at the latest status; a closed channel ends it
\* too.
Over(c) == IsTerminal(conns[c].status) \/ conns[c].task # "running"

\* finalize_terminal: Connected is a success, anything else an error.
WaitEnds(k) ==
    /\ Alive /\ calls[k].pc = "wait"
    /\ Over(calls[k].conn)
    /\ Finish(k)
    /\ UNCHANGED <<phase, slot, conns, target, watcher, downAcked>>

-----------------------------------------------------------------------------
(* The connect task, as the daemon sees it *)

\* A wedged task reports nothing until its openvpn is gone.
Report(c, s) ==
    /\ conns[c].task = "running"
    /\ s # conns[c].status
    /\ conns[c].cancel => s # "Connected"
    /\ conns[c].wedged => s = "Ended"
    /\ conns' = [conns EXCEPT ![c].status = s, ![c].wedged = FALSE]
    /\ UNCHANGED <<phase, slot, target, calls, watcher, downAcked>>

\* The management socket drops and openvpn lives on: no signal reaches it,
\* and process.wait() has no timeout.
SocketDrops(c) ==
    /\ conns[c].task = "running" /\ ~conns[c].wedged
    /\ conns' = [conns EXCEPT ![c].wedged = TRUE]
    /\ UNCHANGED <<phase, slot, target, calls, watcher, downAcked>>

\* connect::run returns and drops its ends of the channels.
RunReturns(c) ==
    /\ conns[c].task = "running"
    /\ conns' = [conns EXCEPT ![c].task = "returned", ![c].wedged = FALSE]
    /\ UNCHANGED <<phase, slot, target, calls, watcher, downAcked>>

\* Plausible slip: the task ends without emptying the slot.
TaskForgetsSlot(c) ==
    /\ conns[c].task = "returned"
    /\ conns' = [conns EXCEPT ![c] = Gone(conns[c].status)]
    /\ UNCHANGED <<phase, slot, target, calls, watcher, downAcked>>

\* The spawned task takes whatever is in the slot.
TaskClears(c) ==
    /\ conns[c].task = "returned"
    /\ conns' = [conns EXCEPT ![c] = Gone(conns[c].status)]
    /\ slot' = None
    /\ UNCHANGED <<phase, target, calls, watcher, downAcked>>

-----------------------------------------------------------------------------
(* The RPCs, and target.json *)

\* save_target_best_effort: atomic, and a failure is only logged.
Save(t) == target' \in {t, target}

\* up: persist the intent, then start_connection.
Up(k, l, ephemeral) ==
    /\ Alive /\ calls[k].pc = "idle"
    /\ calls' = [j \in Callers |->
            IF j = k THEN [NoCall EXCEPT !.pc = "lock", !.label = l]
            ELSE [calls[j] EXCEPT !.persisted = @ /\ ephemeral]]
    /\ IF ephemeral
       THEN UNCHANGED <<target, downAcked>>
       ELSE Save([state |-> "Connected", label |-> l]) /\ downAcked' = FALSE
    /\ UNCHANGED <<phase, slot, conns, watcher>>

\* down: load the target, unless the request is ephemeral.
Down(k, ephemeral) ==
    /\ Alive /\ calls[k].pc = "idle"
    /\ calls' = [calls EXCEPT ![k] = [NoCall EXCEPT
            !.pc = IF ephemeral THEN "downLock" ELSE "downSave",
            !.copy = IF ephemeral THEN NoTarget ELSE target]]
    /\ UNCHANGED <<phase, slot, conns, target, watcher, downAcked>>

\* Plausible slip: the loaded target is written back unchanged.
DisconnectedOf(t) == t

\* The loaded target with its state flipped; the profile stays.
Disconnected(t) == [t EXCEPT !.state = "Disconnected"]

DownSave(k) ==
    /\ Alive /\ calls[k].pc = "downSave"
    /\ Save(Disconnected(calls[k].copy))
    /\ calls' = [calls EXCEPT ![k] = [NoCall EXCEPT !.pc = "downLock",
            !.persisted = (target' = Disconnected(calls[k].copy))]]
    /\ UNCHANGED <<phase, slot, conns, watcher, downAcked>>

\* Fire the cancel token of the connection in the slot, if any.
CancelActive ==
    conns' = [c \in Conn |-> IF c = slot THEN [conns[c] EXCEPT !.cancel = TRUE] ELSE conns[c]]

\* Cancel the active connection (SignalSent) or find none (NotConnected);
\* either way the handler answers at once.
DownLock(k) ==
    /\ Alive /\ calls[k].pc = "downLock"
    /\ CancelActive
    /\ Finish(k)
    /\ downAcked' = (downAcked \/ calls[k].persisted)
    /\ UNCHANGED <<phase, slot, target, watcher>>

\* The caller goes away or its deadline passes: the handler is dropped at the
\* await it is in.
Abort(k) ==
    /\ Alive /\ calls[k].pc \in {"lock", "wait", "downLock"}
    /\ Finish(k)
    /\ UNCHANGED <<phase, slot, conns, target, watcher, downAcked>>

-----------------------------------------------------------------------------
(* try_converge *)

ConvergeLoad ==
    /\ Alive /\ calls[Converge].pc = "boot"
    /\ calls' = [calls EXCEPT ![Converge] =
            IF target.state = "Connected" /\ target.label # None
            THEN [NoCall EXCEPT !.pc = "token", !.label = target.label] ELSE NoCall]
    /\ UNCHANGED <<phase, slot, conns, target, watcher, downAcked>>

\* acquire_access_token: a round trip to the identity provider.
ConvergeToken ==
    /\ Alive /\ calls[Converge].pc = "token"
    /\ calls' = [calls EXCEPT ![Converge].pc = "lock"] \/ Finish(Converge)
    /\ UNCHANGED <<phase, slot, conns, target, watcher, downAcked>>

-----------------------------------------------------------------------------
(* binary_watcher *)

\* The binary changed: restart now, or once the slot is empty.
SwapSeen ==
    /\ phase = "running" /\ watcher = "armed"
    /\ watcher' = IF slot = None THEN "idleSeen" ELSE "deferring"
    /\ UNCHANGED <<phase, slot, conns, target, calls, downAcked>>

WaitForIdle ==
    /\ Alive /\ watcher = "deferring"
    /\ watcher' = IF phase # "running" THEN "done" ELSE "idleSeen"
    /\ phase = "running" => slot = None
    /\ UNCHANGED <<phase, slot, conns, target, calls, downAcked>>

\* shutdown.cancel().
TriggerRestart ==
    /\ Alive /\ watcher = "idleSeen"
    /\ watcher' = "done"
    /\ phase' = IF phase = "running" THEN "draining" ELSE phase
    /\ UNCHANGED <<slot, conns, target, calls, downAcked>>

-----------------------------------------------------------------------------
(* Shutdown, death and boot *)

\* SIGTERM: the accept loop ends; open client connections are still served.
ShutdownSignal ==
    /\ phase = "running"
    /\ phase' = "draining"
    /\ UNCHANGED <<slot, conns, target, calls, watcher, downAcked>>

\* shutdown() cancels what is active and starts to poll the slot.
Shutdown ==
    /\ phase = "draining"
    /\ phase' = "polling"
    /\ CancelActive
    /\ UNCHANGED <<slot, target, calls, watcher, downAcked>>

\* The process is gone, and every task in it.
ProcessEnds ==
    /\ phase' = "exited"
    /\ slot' = None
    /\ conns' = [c \in Conn |-> IF conns[c].task = "none" THEN conns[c] ELSE Gone("Ended")]
    /\ calls' = [k \in Callers |-> NoCall]
    /\ watcher' = "done"
    /\ UNCHANGED <<target, downAcked>>

Drained == phase = "polling" /\ slot = None /\ ProcessEnds

\* SHUTDOWN_GRACE is over.
GraceElapsed == phase \in {"draining", "polling"} /\ ProcessEnds

Crash == Alive /\ ProcessEnds

Boot ==
    /\ phase = "exited"
    /\ phase' = "running"
    /\ watcher' = "armed"
    /\ calls' = [calls EXCEPT ![Converge].pc = "boot"]
    /\ UNCHANGED <<slot, conns, target, downAcked>>

-----------------------------------------------------------------------------
Handlers ==
    \/ \E k \in Callers : StartConnection(k) \/ WaitEnds(k)
    \/ \E k \in Clients :
          \/ \E l \in Labels, e \in BOOLEAN : Up(k, l, e)
          \/ \E e \in BOOLEAN : Down(k, e)
          \/ DownSave(k) \/ DownLock(k) \/ Abort(k)
    \/ ConvergeLoad \/ ConvergeToken

Tasks == \E c \in Conn : SocketDrops(c) \/ RunReturns(c) \/ TaskClears(c) \/ \E s \in Status : Report(c, s)

Lifecycle ==
    \/ SwapSeen \/ WaitForIdle \/ TriggerRestart
    \/ ShutdownSignal \/ Shutdown \/ Drained \/ GraceElapsed \/ Crash \/ Boot

Next == Handlers \/ Tasks \/ Lifecycle

Spec == Init /\ [][Next]_vars

\* A handler whose status channel shows a terminal status again and again gets
\* to see one (every change wakes it, and a status outlasts a poll by seconds);
\* other woken handlers and tasks are polled and the grace timer runs out.  The
\* connect task of a cancelled or failing connection returns, as far as module
\* Connect shows it (CancelEndsRun, NoWedge): not while its openvpn lives on
\* behind a dead socket, and if the token endpoint answers and network changes
\* come to an end.
Fairness ==
    /\ \A k \in Callers : SF_vars(WaitEnds(k)) /\ WF_vars(StartConnection(k))
    /\ \A c \in Conn :
          /\ WF_vars(TaskClears(c))
          /\ WF_vars(/\ conns[c].cancel \/ ~IsTerminal(conns[c].status)
                     /\ ~conns[c].wedged
                     /\ RunReturns(c))
    /\ WF_vars(Shutdown) /\ WF_vars(Drained) /\ WF_vars(GraceElapsed)

FairSpec == Spec /\ Fairness

-----------------------------------------------------------------------------
(* Properties *)

\* There is one tunnel at most and the slot knows it: a connect task exists
\* (its kernel state not yet given back, or its slot not yet taken) exactly
\* while the slot holds its connection.  Otherwise a tunnel could not be
\* cancelled, two would fight over the management port and the routes, or a
\* finished task would take another connection out of the slot.
OneTunnel == \A c \in Conn : conns[c].task \in {"running", "returned"} <=> slot = c

\* Once a persistent down has been answered, no later boot converges to the
\* tunnel again before the next persistent up, whenever the daemon died (down
\* writes target.json before it cancels) and however the handlers of several
\* callers interleave.  Of an up and a down under way at the same time the one
\* that wrote target.json last counts.
NoReconvergeAfterDown ==
    [][calls[Converge].pc = "boot" /\ calls'[Converge].pc = "token"
          => ~downAcked]_vars

\* The wait of k is for a connection whose openvpn lives on behind a dead
\* management socket.
WaitsOnWedged(k) == calls[k].pc = "wait" /\ conns[calls[k].conn].wedged

\* Every up or converge that waits on a connection is answered, also when the
\* connection ends without a terminal status.  Excepted is one whose openvpn
\* lives on for ever behind a dead management socket: nothing ends that
\* attempt, and the caller waits until it gives up itself.
EveryWaitEnds ==
    \A k \in Callers : []<>~WaitsOnWedged(k) => ((calls[k].pc = "wait") ~> (calls[k].pc # "wait"))

\* A cancelled connection leaves the slot, so a later up can start; again
\* unless its openvpn stays behind a dead management socket, for then the slot
\* stays taken.
CancelFreesSlot ==
    \A c \in Conn : <>[]~conns[c].wedged => ((slot = c /\ conns[c].cancel) ~> (slot # c))

-----------------------------------------------------------------------------
(* What the repository says, and the code does not do *)

\* down updates the target first so that nothing is left "re-converging to a
\* tunnel the user just told us they don't want".  A converge waiting for its
\* token has read the target already.
ConvergeRespectsDown ==
    [][\A c \in Conn : calls[Converge].pc = "lock" /\ slot = None /\ slot' = c
                          => ~downAcked]_vars

=============================================================================
