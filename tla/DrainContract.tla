---------------------------- MODULE DrainContract ----------------------------
(***************************************************************************)
(* What a Stopan node promises to those who work with it and to those who  *)
(* stop it: work is taken only while the node is open, a node that drains  *)
(* only finishes work, it is stopped when nothing is left, and only then   *)
(* is a client told so.  DrainLifecycle shows how serve() and              *)
(* NodeDrainController keep it with counters, callbacks and threads.       *)
(***************************************************************************)
CONSTANTS
    Op,        \* CLI operations
    Call,      \* data calls
    Stopper    \* clients that ask for the stop

VARIABLES
    phase,     \* "open", "draining" or "stopped"
    leases,    \* the CLI operations under way
    calls,     \* the data calls under way
    told       \* the clients that were told STOPPED

vars == <<phase, leases, calls, told>>

Init == phase = "open" /\ leases = {} /\ calls = {} /\ told = {}

AdmitOp(c) ==
    /\ phase = "open"
    /\ leases' = leases \cup {c}
    /\ UNCHANGED <<phase, calls, told>>

AdmitCall(r) ==
    /\ phase = "open"
    /\ calls' = calls \cup {r}
    /\ UNCHANGED <<phase, leases, told>>

FinishOp(c) == leases' = leases \ {c} /\ UNCHANGED <<phase, calls, told>>

FinishCall(r) == calls' = calls \ {r} /\ UNCHANGED <<phase, leases, told>>

Drain == phase = "open" /\ phase' = "draining" /\ UNCHANGED <<leases, calls, told>>

Stop ==
    /\ phase = "draining" /\ leases = {} /\ calls = {}
    /\ phase' = "stopped"
    /\ UNCHANGED <<leases, calls, told>>

Tell(s) == phase = "stopped" /\ told' = told \cup {s} /\ UNCHANGED <<phase, leases, calls>>

Next ==
    \/ Drain \/ Stop
    \/ \E c \in Op : AdmitOp(c) \/ FinishOp(c)
    \/ \E r \in Call : AdmitCall(r) \/ FinishCall(r)
    \/ \E s \in Stopper : Tell(s)

Spec == Init /\ [][Next]_vars
=============================================================================
