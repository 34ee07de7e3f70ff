---------------------------- MODULE DrainLifecycle ----------------------------
(***************************************************************************)
(* The life of one Stopan node process: startup, admission of work, drain  *)
(* and teardown (node/server.py serve(), node/lifecycle.py                 *)
(* NodeDrainController and NodeControlServer).                             *)
(*                                                                         *)
(* Three kinds of threads meet in NodeDrainController: the main thread     *)
(* that runs serve(), the gRPC threads that run handlers and termination   *)
(* callbacks, and one control thread per local CLI connection.  The two    *)
(* counters and the draining flag are guarded by one Condition, so each    *)
(* method is one step; wait_for_idle is a check and, when work is left, a  *)
(* sleep that only notify_all ends.                                        *)
(*                                                                         *)
(* A data RPC is counted until its termination callback runs, which may be *)
(* before its handler has returned.  Membership RPCs are not counted.      *)
(***************************************************************************)
EXTENDS Integers, FiniteSets

CONSTANTS
    DataRpc,   \* RPCs of the storage and metadata-pack services
    MemRpc,    \* RPCs of the membership service
    Op,        \* local CLI operations that ask for a lease (BEGIN)
    Stopper    \* `stopan node stop` clients (STOP)

Rpc == DataRpc \cup MemRpc

ASSUME WorkAssumption ==
    /\ IsFiniteSet(DataRpc) /\ IsFiniteSet(Op)
    /\ DataRpc \cap MemRpc = {}

VARIABLES
    mainPc,       \* where serve() is
    draining,     \* _draining
    stopped,      \* _stopped
    shutdown,     \* shutdown_requested
    control,      \* the control socket accepts connections
    grpcStarted,  \* server.start() has returned
    accepting,    \* the gRPC server takes new calls
    storageOpen,  \* the commit engine is open
    channelsOpen, \* the membership channels are open
    localOps,     \* _active_local_operations
    activeRpcs,   \* _active_rpcs
    rpcPc,        \* rpcPc[r]: where the handler of r is
    rpcLive,      \* rpcLive[r]: the call has not terminated for gRPC
    rpcCb,        \* rpcCb[r]: release is registered as a callback and has not run
    rpcReleased,  \* rpcReleased[r]: the flag of the release closure
    opPc,         \* opPc[c]: where the lease of c is
    stopPc        \* stopPc[s]: where the stop client s is

flags == <<draining, stopped, shutdown>>
resources == <<control, grpcStarted, accepting, storageOpen, channelsOpen>>
counters == <<localOps, activeRpcs>>
rpcVars == <<rpcPc, rpcLive, rpcCb, rpcReleased>>
vars == <<mainPc, flags, resources, counters, rpcVars, opPc, stopPc>>

-----------------------------------------------------------------------------
Init ==
    /\ mainPc = "startControl"
    /\ draining = FALSE /\ stopped = FALSE /\ shutdown = FALSE
    /\ control = FALSE /\ grpcStarted = FALSE /\ accepting = FALSE
    /\ storageOpen = TRUE /\ channelsOpen = TRUE
    /\ localOps = 0 /\ activeRpcs = 0
    /\ rpcPc = [r \in Rpc |-> "new"]
    /\ rpcLive = [r \in Rpc |-> FALSE]
    /\ rpcCb = [r \in Rpc |-> FALSE]
    /\ rpcReleased = [r \in Rpc |-> FALSE]
    /\ opPc = [c \in Op |-> "new"]
    /\ stopPc = [s \in Stopper |-> "new"]

(* notify_all on the Condition wakes the main thread out of wait_for_idle *)
Notify == mainPc' = IF mainPc = "idleWait" THEN "idleCheck" ELSE mainPc

-----------------------------------------------------------------------------
(* serve(): startup.  Each step may raise, which leads to the same finally
   block, and is followed by a test of shutdown_requested. *)

Startup == {"startControl", "startGrpc", "bootstrap", "startMembership"}

StartControl ==
    /\ mainPc = "startControl"
    /\ control' = TRUE
    /\ mainPc' = IF shutdown THEN "drain" ELSE "startGrpc"
    /\ UNCHANGED <<flags, grpcStarted, accepting, storageOpen, channelsOpen, counters,
                   rpcVars, opPc, stopPc>>

StartGrpc ==
    /\ mainPc = "startGrpc"
    /\ grpcStarted' = TRUE /\ accepting' = TRUE
    /\ mainPc' = IF shutdown THEN "drain" ELSE "bootstrap"
    /\ UNCHANGED <<flags, control, storageOpen, channelsOpen, counters, rpcVars, opPc, stopPc>>

BootstrapJoin ==
    /\ mainPc = "bootstrap"
    /\ mainPc' = IF shutdown THEN "drain" ELSE "startMembership"
    /\ UNCHANGED <<flags, resources, counters, rpcVars, opPc, stopPc>>

StartMembership ==
    /\ mainPc = "startMembership"
    /\ mainPc' = "serving"
    /\ UNCHANGED <<flags, resources, counters, rpcVars, opPc, stopPc>>

StartupFails ==
    /\ mainPc \in Startup
    /\ mainPc' = "drain"
    /\ UNCHANGED <<flags, resources, counters, rpcVars, opPc, stopPc>>

(* the wait loop, left when shutdown_requested is set *)
ServingEnds ==
    /\ mainPc = "serving" /\ shutdown
    /\ mainPc' = "drain"
    /\ UNCHANGED <<flags, resources, counters, rpcVars, opPc, stopPc>>

(* SIGINT or SIGTERM: the handler runs on the main thread *)
Signal ==
    /\ mainPc # "done" /\ ~shutdown
    /\ draining' = TRUE /\ shutdown' = TRUE
    /\ Notify
    /\ UNCHANGED <<stopped, resources, counters, rpcVars, opPc, stopPc>>

-----------------------------------------------------------------------------
(* serve(): the finally block *)

RequestDraining ==
    /\ mainPc = "drain"
    /\ draining' = TRUE
    /\ mainPc' = IF grpcStarted THEN "leave"
                 ELSE IF control THEN "idleCheck" ELSE "stopGrpc"
    /\ UNCHANGED <<stopped, shutdown, resources, counters, rpcVars, opPc, stopPc>>

(* membership_manager.leave(), best effort *)
PublishLeft ==
    /\ mainPc = "leave"
    /\ mainPc' = "idleCheck"
    /\ UNCHANGED <<flags, resources, counters, rpcVars, opPc, stopPc>>

(* Mutant of IdleCheck: the leases of local operations are not waited for. *)
IdleCheckRpcsOnly ==
    /\ mainPc = "idleCheck"
    /\ mainPc' = IF activeRpcs # 0 THEN "idleWait" ELSE "stopGrpc"
    /\ UNCHANGED <<flags, resources, counters, rpcVars, opPc, stopPc>>

(* wait_for_idle: the test of the loop, with the Condition held *)
IdleCheck ==
    /\ mainPc = "idleCheck"
    /\ mainPc' = IF localOps # 0 \/ activeRpcs # 0 THEN "idleWait" ELSE "stopGrpc"
    /\ UNCHANGED <<flags, resources, counters, rpcVars, opPc, stopPc>>

(* server.stop(grace): no new call from here on *)
StopGrpc ==
    /\ mainPc = "stopGrpc"
    /\ accepting' = FALSE
    /\ mainPc' = "shutdownExecutor"
    /\ UNCHANGED <<flags, control, grpcStarted, storageOpen, channelsOpen, counters,
                   rpcVars, opPc, stopPc>>

(* a handler occupies a thread of the RPC executor *)
Occupied(r) == rpcPc[r] \in {"admit", "counted", "running"}

(* Mutant of ShutdownExecutor: shutdown(wait=False). *)
ShutdownExecutorNoWait ==
    /\ mainPc = "shutdownExecutor"
    /\ mainPc' = "stopMembership"
    /\ UNCHANGED <<flags, resources, counters, rpcVars, opPc, stopPc>>

(* rpc_executor.shutdown(wait=True) returns when every handler has returned *)
ShutdownExecutor ==
    /\ mainPc = "shutdownExecutor"
    /\ \A r \in Rpc : ~Occupied(r)
    /\ mainPc' = "stopMembership"
    /\ UNCHANGED <<flags, resources, counters, rpcVars, opPc, stopPc>>

(* membership_manager.stop() closes the channels *)
StopMembership ==
    /\ mainPc = "stopMembership"
    /\ channelsOpen' = FALSE
    /\ mainPc' = "closeStorage"
    /\ UNCHANGED <<flags, control, grpcStarted, accepting, storageOpen, counters,
                   rpcVars, opPc, stopPc>>

(* storage_servicer.close() *)
CloseStorage ==
    /\ mainPc = "closeStorage"
    /\ storageOpen' = FALSE
    /\ mainPc' = "markStopped"
    /\ UNCHANGED <<flags, control, grpcStarted, accepting, channelsOpen, counters,
                   rpcVars, opPc, stopPc>>

MarkStopped ==
    /\ mainPc = "markStopped"
    /\ stopped' = TRUE
    /\ mainPc' = "closeControl"
    /\ UNCHANGED <<draining, shutdown, resources, counters, rpcVars, opPc, stopPc>>

CloseControl ==
    /\ mainPc = "closeControl"
    /\ control' = FALSE
    /\ mainPc' = "done"
    /\ UNCHANGED <<flags, grpcStarted, accepting, storageOpen, channelsOpen, counters,
                   rpcVars, opPc, stopPc>>

-----------------------------------------------------------------------------
(* gRPC threads *)

(* a call arrives; a membership handler does its work without admission *)
RpcArrives(r) ==
    /\ accepting /\ rpcPc[r] = "new"
    /\ rpcPc' = [rpcPc EXCEPT ![r] = IF r \in DataRpc THEN "admit" ELSE "running"]
    /\ rpcLive' = [rpcLive EXCEPT ![r] = TRUE]
    /\ UNCHANGED <<mainPc, flags, resources, counters, rpcCb, rpcReleased, opPc, stopPc>>

(* admit_rpc: refused while draining, counted otherwise *)
AdmitRpc(r) ==
    /\ rpcPc[r] = "admit"
    /\ rpcPc' = [rpcPc EXCEPT ![r] = IF draining THEN "refused" ELSE "counted"]
    /\ activeRpcs' = IF draining THEN activeRpcs ELSE activeRpcs + 1
    /\ UNCHANGED <<mainPc, flags, resources, localOps, rpcLive, rpcCb, rpcReleased, opPc, stopPc>>

(* Mutant of Release: the closure has no released flag to test. *)
ReleaseEveryTime(r) ==
    /\ rpcReleased' = [rpcReleased EXCEPT ![r] = TRUE]
    /\ activeRpcs' = activeRpcs - 1
    /\ Notify

(* the release closure: at most one call of it takes effect *)
Release(r) ==
    IF rpcReleased[r]
    THEN UNCHANGED <<mainPc, activeRpcs, rpcReleased>>
    ELSE /\ rpcReleased' = [rpcReleased EXCEPT ![r] = TRUE]
         /\ activeRpcs' = activeRpcs - 1
         /\ Notify

(* add_callback(release) succeeds: the handler goes on to its work *)
CallbackRegistered(r) ==
    /\ rpcPc[r] = "counted" /\ rpcLive[r]
    /\ rpcPc' = [rpcPc EXCEPT ![r] = "running"]
    /\ rpcCb' = [rpcCb EXCEPT ![r] = TRUE]
    /\ UNCHANGED <<mainPc, flags, resources, counters, rpcLive, rpcReleased, opPc, stopPc>>

(* add_callback returns False, because the call has already terminated, or
   raises, in which case gRPC may or may not have kept the callback *)
CallbackRefused(r) ==
    /\ rpcPc[r] = "counted"
    /\ \E kept \in BOOLEAN :
          /\ kept => rpcLive[r]
          /\ rpcCb' = [rpcCb EXCEPT ![r] = kept]
    /\ rpcPc' = [rpcPc EXCEPT ![r] = "ended"]
    /\ Release(r)
    /\ UNCHANGED <<flags, resources, localOps, rpcLive, opPc, stopPc>>

(* the handler returns or raises *)
HandlerEnds(r) ==
    /\ rpcPc[r] = "running"
    /\ rpcPc' = [rpcPc EXCEPT ![r] = "ended"]
    /\ UNCHANGED <<mainPc, flags, resources, counters, rpcLive, rpcCb, rpcReleased, opPc, stopPc>>

(* the call terminates: answered, cancelled by the client or by the server *)
RpcTerminates(r) ==
    /\ rpcLive[r]
    /\ rpcLive' = [rpcLive EXCEPT ![r] = FALSE]
    /\ UNCHANGED <<mainPc, flags, resources, counters, rpcPc, rpcCb, rpcReleased, opPc, stopPc>>

(* gRPC runs the termination callback, whether or not the handler has returned *)
CallbackRuns(r) ==
    /\ rpcCb[r] /\ ~rpcLive[r]
    /\ rpcCb' = [rpcCb EXCEPT ![r] = FALSE]
    /\ Release(r)
    /\ UNCHANGED <<flags, resources, localOps, rpcPc, rpcLive, opPc, stopPc>>

-----------------------------------------------------------------------------
(* Control connections *)

(* BEGIN: try_begin_local_operation, then OK or DRAINING *)
BeginLocalOperation(c) ==
    /\ control /\ opPc[c] = "new"
    /\ opPc' = [opPc EXCEPT ![c] = IF draining THEN "refused" ELSE "leased"]
    /\ localOps' = IF draining THEN localOps ELSE localOps + 1
    /\ UNCHANGED <<mainPc, flags, resources, activeRpcs, rpcVars, stopPc>>

(* Mutant of EndLocalOperation: no notify_all. *)
EndWithoutNotify(c) ==
    /\ opPc[c] = "leased"
    /\ opPc' = [opPc EXCEPT ![c] = "ended"]
    /\ localOps' = localOps - 1
    /\ UNCHANGED <<mainPc, flags, resources, activeRpcs, rpcVars, stopPc>>

(* EOF or a broken connection: end_local_operation in the finally block *)
EndLocalOperation(c) ==
    /\ opPc[c] = "leased"
    /\ opPc' = [opPc EXCEPT ![c] = "ended"]
    /\ localOps' = localOps - 1
    /\ Notify
    /\ UNCHANGED <<flags, resources, activeRpcs, rpcVars, stopPc>>

(* STOP: request_draining, shutdown_requested.set, STOPPING *)
StopRequested(s) ==
    /\ control /\ stopPc[s] = "new"
    /\ draining' = TRUE /\ shutdown' = TRUE
    /\ Notify
    /\ stopPc' = [stopPc EXCEPT ![s] = "stopping"]
    /\ UNCHANGED <<stopped, resources, counters, rpcVars, opPc>>

(* wait_stopped returns: STOPPED *)
StopConfirmed(s) ==
    /\ stopPc[s] = "stopping" /\ stopped
    /\ stopPc' = [stopPc EXCEPT ![s] = "confirmed"]
    /\ UNCHANGED <<mainPc, flags, resources, counters, rpcVars, opPc>>

-----------------------------------------------------------------------------
Main ==
    \/ StartControl \/ StartGrpc \/ BootstrapJoin \/ StartMembership \/ ServingEnds
    \/ RequestDraining \/ PublishLeft \/ IdleCheck \/ StopGrpc \/ ShutdownExecutor
    \/ StopMembership \/ CloseStorage \/ MarkStopped \/ CloseControl

Next ==
    \/ Main \/ StartupFails \/ Signal
    \/ \E r \in Rpc : RpcArrives(r) \/ AdmitRpc(r) \/ CallbackRegistered(r)
                      \/ CallbackRefused(r) \/ HandlerEnds(r) \/ RpcTerminates(r)
                      \/ CallbackRuns(r)
    \/ \E c \in Op : BeginLocalOperation(c) \/ EndLocalOperation(c)
    \/ \E s \in Stopper : StopRequested(s) \/ StopConfirmed(s)

Spec == Init /\ [][Next]_vars

(* Threads run: the main thread, the handlers and callbacks of calls that have
   arrived, the control threads.  A handler and a CLI operation finish; a call
   whose handler has finished terminates.  Nothing is assumed of new work. *)
Fairness ==
    /\ WF_vars(Main)
    /\ \A r \in Rpc : /\ WF_vars(AdmitRpc(r))
                      /\ WF_vars(CallbackRegistered(r) \/ CallbackRefused(r))
                      /\ WF_vars(HandlerEnds(r))
                      /\ WF_vars(~Occupied(r) /\ RpcTerminates(r))
                      /\ WF_vars(CallbackRuns(r))
    /\ \A c \in Op : WF_vars(EndLocalOperation(c))
    /\ \A s \in Stopper : WF_vars(StopConfirmed(s))

FairSpec == Spec /\ Fairness

-----------------------------------------------------------------------------
(* Properties *)

(* Every variable keeps its type; in particular neither counter ever goes below
   zero, which would end wait_for_idle never or too late. *)
TypeOK ==
    /\ mainPc \in Startup \cup {"serving", "drain", "leave", "idleCheck", "idleWait", "stopGrpc",
                                "shutdownExecutor", "stopMembership", "closeStorage",
                                "markStopped", "closeControl", "done"}
    /\ draining \in BOOLEAN /\ stopped \in BOOLEAN /\ shutdown \in BOOLEAN
    /\ control \in BOOLEAN /\ grpcStarted \in BOOLEAN /\ accepting \in BOOLEAN
    /\ storageOpen \in BOOLEAN /\ channelsOpen \in BOOLEAN
    /\ localOps \in Nat /\ activeRpcs \in Nat
    /\ rpcPc \in [Rpc -> {"new", "admit", "counted", "running", "ended", "refused"}]
    /\ rpcLive \in [Rpc -> BOOLEAN]
    /\ rpcCb \in [Rpc -> BOOLEAN]
    /\ rpcReleased \in [Rpc -> BOOLEAN]
    /\ opPc \in [Op -> {"new", "leased", "ended", "refused"}]
    /\ stopPc \in [Stopper -> {"new", "stopping", "confirmed"}]

(* the data RPCs that were admitted and not yet released *)
Held == {r \in DataRpc : rpcPc[r] \in {"counted", "running", "ended"} /\ ~rpcReleased[r]}

Leased == {c \in Op : opPc[c] = "leased"}

(* The counters wait_for_idle reads are exactly the work admitted and not yet
   released: no call of release is lost, and none counts twice, whichever of the
   handler, the refused registration and the termination callback comes first. *)
CountersMatch ==
    /\ activeRpcs = Cardinality(Held)
    /\ localOps = Cardinality(Leased)

(* "Tras esta llamada no puede cruzar la barrera una operacion local o RPC de
   datos nueva" (server.py, on request_draining): once draining, the admitted
   work only shrinks. *)
BarrierHolds == [][draining => Held' \subseteq Held /\ Leased' \subseteq Leased]_vars

(* serve() never takes a resource from under code that uses it: no handler runs
   once the commit engine or the membership channels are closed, not even one
   whose call was cancelled and released before it returned. *)
TeardownAfterHandlers ==
    ~storageOpen \/ ~channelsOpen => \A r \in Rpc : ~Occupied(r)

(* What `node stop` is told is true: when a client has read STOPPED, no CLI
   operation holds a lease, no handler runs and no admitted RPC is unreleased. *)
StoppedIsTrue ==
    (\E s \in Stopper : stopPc[s] = "confirmed") =>
        Leased = {} /\ Held = {} /\ \A r \in Rpc : ~Occupied(r)

-----------------------------------------------------------------------------
(* What the node promises, and where the promise is kept: a call is under way
   from its admission until it was released and its handler has returned. *)
Contract == INSTANCE DrainContract WITH
    Call <- DataRpc,
    phase <- IF stopped THEN "stopped" ELSE IF draining THEN "draining" ELSE "open",
    leases <- Leased,
    calls <- Held \cup {r \in DataRpc : rpcPc[r] \in {"counted", "running"}},
    told <- {s \in Stopper : stopPc[s] = "confirmed"}

(* The node keeps the contract: with two counters, a flag, callbacks that run
   early, late or twice, and a teardown in ten steps, it takes no work after
   the drain began, is stopped only when all of it has ended, and says STOPPED
   only then. *)
ImplementsContract == Contract!Spec

(* A requested shutdown completes: the main thread is never left asleep in
   wait_for_idle after the last piece of work has ended. *)
DrainCompletes == shutdown ~> (mainPc = "done")

=============================================================================
