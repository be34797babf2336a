-------------------------------- MODULE Tunnel --------------------------------
(***************************************************************************)
(* What the connect lifecycle promises to whoever owns a connection (the   *)
(* daemon): a bounded number of attempts, kernel state that is installed   *)
(* only by an apply that began before anyone asked to stop, and a final    *)
(* closed stage with nothing held.                                         *)
(***************************************************************************)
EXTENDS Integers

CONSTANTS
    Budget,     \* how many further attempts a failed one may lead to
    Resources   \* the kinds of kernel state an attempt may install

VARIABLES
    stage,      \* "idle" between attempts, "open" or "applying" in one, "closed" at the end
    held,       \* kernel state installed
    budget,     \* further attempts left
    stopped     \* the owner asked for the end, or the end has come

tunnelVars == <<stage, held, budget, stopped>>

Init ==
    /\ stage = "idle"
    /\ held = {}
    /\ budget = Budget
    /\ stopped = FALSE

\* An attempt starts.
Open ==
    /\ stage = "idle"
    /\ stage' = "open"
    /\ UNCHANGED <<held, budget, stopped>>

\* The gateway's options arrive; some of what was installed goes first.
Begin ==
    /\ stage = "open" /\ ~stopped
    /\ stage' = "applying"
    /\ held' \in SUBSET held
    /\ UNCHANGED <<budget, stopped>>

\* Kernel state follows what the gateway pushed.
Apply ==
    /\ stage = "applying"
    /\ stage' = "open"
    /\ held' \in SUBSET Resources
    /\ UNCHANGED <<budget, stopped>>

\* Everything installed is given back.
Release ==
    /\ stage = "open"
    /\ held' = {}
    /\ UNCHANGED <<stage, budget, stopped>>

\* An attempt, or the preparation of one, fails and another may follow.
Fail ==
    /\ stage \in {"idle", "open"} /\ ~stopped
    /\ held = {} /\ budget > 0
    /\ stage' = "idle"
    /\ budget' = budget - 1
    /\ UNCHANGED <<held, stopped>>

\* The end: asked for, out of budget, or beyond retrying.
Close ==
    /\ stage # "closed" /\ held = {}
    /\ stage' = "closed"
    /\ stopped' \in {stopped, TRUE}
    /\ UNCHANGED <<held, budget>>

Stop ==
    /\ stage # "closed"
    /\ stopped' = TRUE
    /\ UNCHANGED <<stage, held, budget>>

Next == Open \/ Begin \/ Apply \/ Release \/ Fail \/ Close \/ Stop

Spec == Init /\ [][Next]_tunnelVars
=============================================================================
