------------------------- MODULE DrainLifecycleProofs -------------------------
(***************************************************************************)
(* Proofs of the safety properties of DrainLifecycle for every finite set  *)
(* of data RPCs and CLI operations and every set of membership RPCs and    *)
(* stop clients.                                                           *)
(*                                                                         *)
(* CountersMatch needs RpcInv: a callback or a set released flag implies   *)
(* that the RPC was counted, so a release that takes effect always removes *)
(* a member of Held.  The properties of the teardown need PhaseInv, which  *)
(* says what each phase of serve() has already established.                *)
(***************************************************************************)
EXTENDS DrainLifecycle, FiniteSetTheorems, TLAPS

RpcInv ==
    \A r \in Rpc :
        /\ r \notin DataRpc => rpcPc[r] \in {"new", "running", "ended"}
        /\ rpcCb[r] => r \in DataRpc /\ rpcPc[r] \in {"running", "ended"}
        /\ rpcReleased[r] => rpcPc[r] \in {"running", "ended"}

(* the phases after wait_for_idle, and those after the executor's shutdown *)
Closing == {"closeStorage", "markStopped", "closeControl", "done"}
Quiesced == {"stopMembership"} \cup Closing
Drained == {"stopGrpc", "shutdownExecutor"} \cup Quiesced

(* what is closed, stopped or confirmed only late in the teardown *)
LateInv ==
    /\ ~channelsOpen => mainPc \in Closing
    /\ ~storageOpen => mainPc \in Closing
    /\ stopped => mainPc \in {"closeControl", "done"}
    /\ \A s \in Stopper : stopPc[s] = "confirmed" => stopped

(* what has not begun before the listeners are open *)
EarlyInv ==
    /\ mainPc = "startGrpc" => control
    /\ ~grpcStarted => ~accepting /\ \A r \in Rpc : rpcPc[r] = "new"
    /\ ~control /\ mainPc # "done" => ~grpcStarted /\ Leased = {}

PhaseInv ==
    /\ mainPc \in {"leave", "idleCheck", "idleWait"} => draining
    /\ mainPc \in Drained => draining /\ Held = {} /\ Leased = {}
    /\ mainPc \in Drained \ {"stopGrpc"} => ~accepting
    /\ mainPc \in Quiesced => \A r \in Rpc : ~Occupied(r)

IInv == TypeOK /\ CountersMatch /\ RpcInv /\ LateInv /\ EarlyInv /\ PhaseInv

USE WorkAssumption

-----------------------------------------------------------------------------
(* Init establishes the inductive invariant. *)
LEMMA InitIInv == Init => IInv
  <1> SUFFICES ASSUME Init PROVE IInv
    OBVIOUS
  <1> USE DEF Init
  <1>1. TypeOK
    BY DEF TypeOK, Startup
  <1>2. Held = {} /\ Leased = {}
    BY DEF Held, Leased, Rpc
  <1>3. CountersMatch
    BY <1>2, FS_EmptySet DEF CountersMatch
  <1>4. RpcInv
    BY DEF RpcInv
  <1>5. LateInv /\ EarlyInv /\ PhaseInv
    BY <1>2 DEF LateInv, EarlyInv, PhaseInv, Drained, Quiesced, Closing
  <1> QED
    BY <1>1, <1>3, <1>4, <1>5 DEF IInv

(* The counted work is finite. *)
LEMMA FiniteWork ==
  /\ IsFiniteSet(Held) /\ Cardinality(Held) \in Nat
  /\ IsFiniteSet(Leased) /\ Cardinality(Leased) \in Nat
  /\ (Cardinality(Held) = 0 <=> Held = {}) /\ (Cardinality(Leased) = 0 <=> Leased = {})
  <1>1. Held \subseteq DataRpc /\ Leased \subseteq Op
    BY DEF Held, Leased
  <1>2. IsFiniteSet(Held) /\ IsFiniteSet(Leased)
    BY <1>1, FS_Subset
  <1> QED
    BY <1>2, FS_CardinalityType, FS_EmptySet

-----------------------------------------------------------------------------
(* The main thread *)

(* Steps of the main thread leave the work and its counters alone. *)
LEMMA MainPreserves ==
  ASSUME IInv, Main \/ StartupFails
  PROVE  IInv'
  <1> USE DEF IInv
  <1>1. UNCHANGED <<shutdown, localOps, activeRpcs, rpcPc, rpcLive, rpcCb, rpcReleased,
                    opPc, stopPc>>
    BY DEF Main, StartupFails, StartControl, StartGrpc, BootstrapJoin, StartMembership, ServingEnds,
           RequestDraining, PublishLeft, IdleCheck, StopGrpc, ShutdownExecutor,
           StopMembership, CloseStorage, MarkStopped, CloseControl,
           flags, resources, counters, rpcVars
  <1>2. Held' = Held /\ Leased' = Leased /\ RpcInv' /\ \A r \in Rpc : Occupied(r)' <=> Occupied(r)
    BY <1>1 DEF Held, Leased, RpcInv, Occupied
  <1>3. CountersMatch'
    BY <1>1, <1>2 DEF CountersMatch
  <1> DEFINE G == TypeOK' /\ LateInv' /\ EarlyInv' /\ PhaseInv'
  <1>4. ASSUME StartControl PROVE G
    <2>1. TypeOK'
      BY <1>1, <1>4 DEF StartControl, TypeOK, Startup, flags, resources
    <2>2. LateInv'
      BY <1>1, <1>4 DEF StartControl, LateInv, Closing, Startup, flags, resources
    <2>3. EarlyInv'
      BY <1>1, <1>2, <1>4 DEF StartControl, EarlyInv, Startup, flags, resources
    <2>4. PhaseInv'
      BY <1>1, <1>2, <1>4 DEF StartControl, PhaseInv, Drained, Quiesced, Closing, Startup, flags, resources
    <2> QED
      BY <2>1, <2>2, <2>3, <2>4
  <1>5. ASSUME StartGrpc PROVE G
    <2>1. TypeOK'
      BY <1>1, <1>5 DEF StartGrpc, TypeOK, Startup, flags, resources
    <2>2. LateInv'
      BY <1>1, <1>5 DEF StartGrpc, LateInv, Closing, Startup, flags, resources
    <2>3. EarlyInv'
      BY <1>1, <1>2, <1>5 DEF StartGrpc, EarlyInv, Startup, flags, resources
    <2>4. PhaseInv'
      BY <1>1, <1>2, <1>5 DEF StartGrpc, PhaseInv, Drained, Quiesced, Closing, Startup, flags, resources
    <2> QED
      BY <2>1, <2>2, <2>3, <2>4
  <1>6. ASSUME BootstrapJoin PROVE G
    <2>1. TypeOK'
      BY <1>1, <1>6 DEF BootstrapJoin, TypeOK, Startup, flags, resources
    <2>2. LateInv'
      BY <1>1, <1>6 DEF BootstrapJoin, LateInv, Closing, Startup, flags, resources
    <2>3. EarlyInv'
      BY <1>1, <1>2, <1>6 DEF BootstrapJoin, EarlyInv, Startup, flags, resources
    <2>4. PhaseInv'
      BY <1>1, <1>2, <1>6 DEF BootstrapJoin, PhaseInv, Drained, Quiesced, Closing, Startup, flags, resources
    <2> QED
      BY <2>1, <2>2, <2>3, <2>4
  <1>7. ASSUME StartMembership PROVE G
    <2>1. TypeOK'
      BY <1>1, <1>7 DEF StartMembership, TypeOK, Startup, flags, resources
    <2>2. LateInv'
      BY <1>1, <1>7 DEF StartMembership, LateInv, Closing, Startup, flags, resources
    <2>3. EarlyInv'
      BY <1>1, <1>2, <1>7 DEF StartMembership, EarlyInv, Startup, flags, resources
    <2>4. PhaseInv'
      BY <1>1, <1>2, <1>7 DEF StartMembership, PhaseInv, Drained, Quiesced, Closing, Startup, flags, resources
    <2> QED
      BY <2>1, <2>2, <2>3, <2>4
  <1>8. ASSUME StartupFails PROVE G
    <2>1. TypeOK'
      BY <1>1, <1>8 DEF StartupFails, TypeOK, Startup, flags, resources
    <2>2. LateInv'
      BY <1>1, <1>8 DEF StartupFails, LateInv, Closing, Startup, flags, resources
    <2>3. EarlyInv'
      BY <1>1, <1>2, <1>8 DEF StartupFails, EarlyInv, Startup, flags, resources
    <2>4. PhaseInv'
      BY <1>1, <1>2, <1>8 DEF StartupFails, PhaseInv, Drained, Quiesced, Closing, Startup, flags, resources
    <2> QED
      BY <2>1, <2>2, <2>3, <2>4
  <1>9. ASSUME ServingEnds PROVE G
    <2>1. TypeOK'
      BY <1>1, <1>9 DEF ServingEnds, TypeOK, Startup, flags, resources
    <2>2. LateInv'
      BY <1>1, <1>9 DEF ServingEnds, LateInv, Closing, Startup, flags, resources
    <2>3. EarlyInv'
      BY <1>1, <1>2, <1>9 DEF ServingEnds, EarlyInv, Startup, flags, resources
    <2>4. PhaseInv'
      BY <1>1, <1>2, <1>9 DEF ServingEnds, PhaseInv, Drained, Quiesced, Closing, Startup, flags, resources
    <2> QED
      BY <2>1, <2>2, <2>3, <2>4
  <1>10. ASSUME RequestDraining PROVE G
    <2>1. TypeOK'
      BY <1>1, <1>10 DEF RequestDraining, TypeOK, Startup, flags, resources
    <2>2. LateInv'
      BY <1>1, <1>10 DEF RequestDraining, LateInv, Closing, Startup, flags, resources
    <2>3. EarlyInv'
      BY <1>1, <1>2, <1>10 DEF RequestDraining, EarlyInv, Startup, flags, resources
    <2>4. ~grpcStarted /\ ~control => Held = {} /\ Leased = {}
      BY <1>10 DEF RequestDraining, EarlyInv, Held, Rpc
    <2>5. PhaseInv'
      BY <1>1, <1>2, <1>10, <2>4 DEF RequestDraining, PhaseInv, Drained, Quiesced, Closing, Startup, flags, resources
    <2> QED
      BY <2>1, <2>2, <2>3, <2>5
  <1>11. ASSUME PublishLeft PROVE G
    <2>1. TypeOK'
      BY <1>1, <1>11 DEF PublishLeft, TypeOK, Startup, flags, resources
    <2>2. LateInv'
      BY <1>1, <1>11 DEF PublishLeft, LateInv, Closing, Startup, flags, resources
    <2>3. EarlyInv'
      BY <1>1, <1>2, <1>11 DEF PublishLeft, EarlyInv, Startup, flags, resources
    <2>4. PhaseInv'
      BY <1>1, <1>2, <1>11 DEF PublishLeft, PhaseInv, Drained, Quiesced, Closing, Startup, flags, resources
    <2> QED
      BY <2>1, <2>2, <2>3, <2>4
  <1>12. ASSUME IdleCheck PROVE G
    <2>1. TypeOK'
      BY <1>1, <1>12 DEF IdleCheck, TypeOK, Startup, flags, resources
    <2>2. LateInv'
      BY <1>1, <1>12 DEF IdleCheck, LateInv, Closing, Startup, flags, resources
    <2>3. EarlyInv'
      BY <1>1, <1>2, <1>12 DEF IdleCheck, EarlyInv, Startup, flags, resources
    <2>4. localOps = 0 /\ activeRpcs = 0 => Held = {} /\ Leased = {}
      BY FiniteWork DEF CountersMatch
    <2>5. PhaseInv'
      BY <1>1, <1>2, <1>12, <2>4 DEF IdleCheck, PhaseInv, Drained, Quiesced, Closing, Startup, flags, resources
    <2> QED
      BY <2>1, <2>2, <2>3, <2>5
  <1>13. ASSUME StopGrpc PROVE G
    <2>1. TypeOK'
      BY <1>1, <1>13 DEF StopGrpc, TypeOK, Startup, flags, resources
    <2>2. LateInv'
      BY <1>1, <1>13 DEF StopGrpc, LateInv, Closing, Startup, flags, resources
    <2>3. EarlyInv'
      BY <1>1, <1>2, <1>13 DEF StopGrpc, EarlyInv, Startup, flags, resources
    <2>4. PhaseInv'
      BY <1>1, <1>2, <1>13 DEF StopGrpc, PhaseInv, Drained, Quiesced, Closing, Startup, flags, resources
    <2> QED
      BY <2>1, <2>2, <2>3, <2>4
  <1>14. ASSUME ShutdownExecutor PROVE G
    <2>1. TypeOK'
      BY <1>1, <1>14 DEF ShutdownExecutor, TypeOK, Startup, flags, resources
    <2>2. LateInv'
      BY <1>1, <1>14 DEF ShutdownExecutor, LateInv, Closing, Startup, flags, resources
    <2>3. EarlyInv'
      BY <1>1, <1>2, <1>14 DEF ShutdownExecutor, EarlyInv, Startup, flags, resources
    <2>4. PhaseInv'
      BY <1>1, <1>2, <1>14 DEF ShutdownExecutor, PhaseInv, Drained, Quiesced, Closing, Startup, flags, resources
    <2> QED
      BY <2>1, <2>2, <2>3, <2>4
  <1>15. ASSUME StopMembership PROVE G
    <2>1. TypeOK'
      BY <1>1, <1>15 DEF StopMembership, TypeOK, Startup, flags, resources
    <2>2. LateInv'
      BY <1>1, <1>15 DEF StopMembership, LateInv, Closing, Startup, flags, resources
    <2>3. EarlyInv'
      BY <1>1, <1>2, <1>15 DEF StopMembership, EarlyInv, Startup, flags, resources
    <2>4. PhaseInv'
      BY <1>1, <1>2, <1>15 DEF StopMembership, PhaseInv, Drained, Quiesced, Closing, Startup, flags, resources
    <2> QED
      BY <2>1, <2>2, <2>3, <2>4
  <1>16. ASSUME CloseStorage PROVE G
    <2>1. TypeOK'
      BY <1>1, <1>16 DEF CloseStorage, TypeOK, Startup, flags, resources
    <2>2. LateInv'
      BY <1>1, <1>16 DEF CloseStorage, LateInv, Closing, Startup, flags, resources
    <2>3. EarlyInv'
      BY <1>1, <1>2, <1>16 DEF CloseStorage, EarlyInv, Startup, flags, resources
    <2>4. PhaseInv'
      BY <1>1, <1>2, <1>16 DEF CloseStorage, PhaseInv, Drained, Quiesced, Closing, Startup, flags, resources
    <2> QED
      BY <2>1, <2>2, <2>3, <2>4
  <1>17. ASSUME MarkStopped PROVE G
    <2>1. TypeOK'
      BY <1>1, <1>17 DEF MarkStopped, TypeOK, Startup, flags, resources
    <2>2. LateInv'
      BY <1>1, <1>17 DEF MarkStopped, LateInv, Closing, Startup, flags, resources
    <2>3. EarlyInv'
      BY <1>1, <1>2, <1>17 DEF MarkStopped, EarlyInv, Startup, flags, resources
    <2>4. PhaseInv'
      BY <1>1, <1>2, <1>17 DEF MarkStopped, PhaseInv, Drained, Quiesced, Closing, Startup, flags, resources
    <2> QED
      BY <2>1, <2>2, <2>3, <2>4
  <1>18. ASSUME CloseControl PROVE G
    <2>1. TypeOK'
      BY <1>1, <1>18 DEF CloseControl, TypeOK, Startup, flags, resources
    <2>2. LateInv'
      BY <1>1, <1>18 DEF CloseControl, LateInv, Closing, Startup, flags, resources
    <2>3. EarlyInv'
      BY <1>1, <1>2, <1>18 DEF CloseControl, EarlyInv, Startup, flags, resources
    <2>4. PhaseInv'
      BY <1>1, <1>2, <1>18 DEF CloseControl, PhaseInv, Drained, Quiesced, Closing, Startup, flags, resources
    <2> QED
      BY <2>1, <2>2, <2>3, <2>4
  <1> QED
    BY <1>2, <1>3, <1>4, <1>5, <1>6, <1>7, <1>8, <1>9, <1>10, <1>11, <1>12, <1>13, <1>14, <1>15, <1>16, <1>17, <1>18 DEF Main

-----------------------------------------------------------------------------
(* request_draining, from a signal or from a STOP connection: the main thread
   may be woken, nothing else moves. *)
LEMMA DrainRequestPreserves ==
  ASSUME IInv, Notify, draining' = TRUE, shutdown' \in BOOLEAN,
         stopPc' \in [Stopper -> {"new", "stopping", "confirmed"}],
         \A s \in Stopper : stopPc'[s] = "confirmed" => stopPc[s] = "confirmed",
         UNCHANGED <<stopped, resources, counters, rpcVars, opPc>>
  PROVE  IInv'
  <1> USE DEF IInv, resources, counters, rpcVars
  <1>1. /\ mainPc' = mainPc \/ (mainPc = "idleWait" /\ mainPc' = "idleCheck")
    BY DEF Notify
  <1>2. Held' = Held /\ Leased' = Leased /\ RpcInv' /\ \A r \in Rpc : Occupied(r)' <=> Occupied(r)
    BY DEF Held, Leased, RpcInv, Occupied
  <1>3. TypeOK'
    BY <1>1 DEF TypeOK
  <1>4. CountersMatch'
    BY <1>2 DEF CountersMatch
  <1>5. LateInv'
    BY <1>1 DEF LateInv, Closing
  <1>6. EarlyInv'
    BY <1>1, <1>2 DEF EarlyInv
  <1>7. PhaseInv'
    BY <1>1, <1>2 DEF PhaseInv, Drained, Quiesced, Closing
  <1> QED
    BY <1>2, <1>3, <1>4, <1>5, <1>6, <1>7

(* A signal, which starts the drain and asks for the stop, keeps the
   inductive invariant. *)
LEMMA SignalPreserves ==
  ASSUME IInv, Signal
  PROVE  IInv'
  BY DrainRequestPreserves DEF Signal, IInv, TypeOK

(* A stop asked for through the control socket keeps the inductive
   invariant. *)
LEMMA StopRequestedPreserves ==
  ASSUME IInv, NEW s \in Stopper, StopRequested(s)
  PROVE  IInv'
  <1>1. /\ stopPc' \in [Stopper -> {"new", "stopping", "confirmed"}]
        /\ \A t \in Stopper : stopPc'[t] = "confirmed" => stopPc[t] = "confirmed"
    BY DEF StopRequested, IInv, TypeOK
  <1> QED
    BY <1>1, DrainRequestPreserves DEF StopRequested

(* The answer to the one who asked for the stop keeps the inductive
   invariant. *)
LEMMA StopConfirmedPreserves ==
  ASSUME IInv, NEW s \in Stopper, StopConfirmed(s)
  PROVE  IInv'
  <1> USE DEF IInv
  <1>1. UNCHANGED <<mainPc, flags, resources, counters, rpcVars, opPc>> /\ stopped
    BY DEF StopConfirmed
  <1> USE DEF flags, resources, counters, rpcVars
  <1>2. Held' = Held /\ Leased' = Leased /\ RpcInv' /\ \A r \in Rpc : Occupied(r)' <=> Occupied(r)
    BY <1>1 DEF Held, Leased, RpcInv, Occupied
  <1>3. TypeOK'
    BY <1>1 DEF TypeOK, StopConfirmed
  <1>4. CountersMatch' /\ EarlyInv' /\ PhaseInv'
    BY <1>1, <1>2 DEF CountersMatch, EarlyInv, PhaseInv
  <1>5. LateInv'
    BY <1>1 DEF LateInv
  <1> QED
    BY <1>2, <1>3, <1>4, <1>5

-----------------------------------------------------------------------------
(* Leases *)
LEMMA BeginPreserves ==
  ASSUME IInv, NEW c \in Op, BeginLocalOperation(c)
  PROVE  IInv'
  <1> USE DEF IInv, flags, resources, counters, rpcVars
  <1>1. UNCHANGED <<mainPc, flags, resources, activeRpcs, rpcVars, stopPc>> /\ control
    BY DEF BeginLocalOperation
  <1>2. Held' = Held /\ RpcInv' /\ \A r \in Rpc : Occupied(r)' <=> Occupied(r)
    BY <1>1 DEF Held, RpcInv, Occupied
  <1>3. IF draining THEN Leased' = Leased /\ localOps' = localOps
        ELSE Leased' = Leased \cup {c} /\ c \notin Leased /\ localOps' = localOps + 1
    BY DEF BeginLocalOperation, Leased, TypeOK
  <1>4. CountersMatch'
    BY <1>1, <1>2, <1>3, FiniteWork, FS_AddElement DEF CountersMatch
  <1>5. TypeOK'
    BY <1>1 DEF TypeOK, BeginLocalOperation
  <1>6. LateInv' /\ EarlyInv'
    BY <1>1, <1>2 DEF LateInv, EarlyInv
  <1>7. PhaseInv'
    BY <1>1, <1>2, <1>3 DEF PhaseInv
  <1> QED
    BY <1>2, <1>4, <1>5, <1>6, <1>7

(* The end of a local operation keeps the inductive invariant: it gives
   back exactly the count it took. *)
LEMMA EndPreserves ==
  ASSUME IInv, NEW c \in Op, EndLocalOperation(c)
  PROVE  IInv'
  <1> USE DEF IInv, flags, resources, counters, rpcVars
  <1>1. UNCHANGED <<flags, resources, activeRpcs, rpcVars, stopPc>>
        /\ (mainPc' = mainPc \/ (mainPc = "idleWait" /\ mainPc' = "idleCheck"))
    BY DEF EndLocalOperation, Notify
  <1>2. Held' = Held /\ RpcInv' /\ \A r \in Rpc : Occupied(r)' <=> Occupied(r)
    BY <1>1 DEF Held, RpcInv, Occupied
  <1>3. Leased' = Leased \ {c} /\ c \in Leased /\ localOps' = localOps - 1
    BY DEF EndLocalOperation, Leased, TypeOK
  <1>4. CountersMatch' /\ localOps' \in Nat
    <2>1. Cardinality(Leased \ {c}) = Cardinality(Leased) - 1 /\ IsFiniteSet(Leased \ {c})
      BY <1>3, FiniteWork, FS_RemoveElement
    <2>2. Cardinality(Leased \ {c}) \in Nat
      BY <2>1, FS_CardinalityType
    <2> QED
      BY <1>1, <1>2, <1>3, <2>1, <2>2 DEF CountersMatch
  <1>5. TypeOK'
    BY <1>1, <1>4 DEF TypeOK, EndLocalOperation
  <1>6. LateInv'
    BY <1>1 DEF LateInv, Closing
  <1>7. EarlyInv'
    BY <1>1, <1>2, <1>3 DEF EarlyInv
  <1>8. PhaseInv'
    BY <1>1, <1>2, <1>3 DEF PhaseInv, Drained, Quiesced, Closing
  <1> QED
    BY <1>2, <1>4, <1>5, <1>6, <1>7, <1>8

-----------------------------------------------------------------------------
(* RPCs *)
LEMMA RpcArrivesPreserves ==
  ASSUME IInv, NEW r \in Rpc, RpcArrives(r)
  PROVE  IInv'
  <1> USE DEF IInv, flags, resources, counters, rpcVars
  <1>1. UNCHANGED <<mainPc, flags, resources, counters, rpcCb, rpcReleased, opPc, stopPc>>
        /\ accepting /\ rpcPc[r] = "new"
    BY DEF RpcArrives
  <1>2. rpcPc' = [rpcPc EXCEPT ![r] = IF r \in DataRpc THEN "admit" ELSE "running"]
        /\ rpcLive' = [rpcLive EXCEPT ![r] = TRUE]
    BY DEF RpcArrives
  <1>3. Held' = Held /\ Leased' = Leased
    BY <1>1, <1>2 DEF Held, Leased, TypeOK
  <1>4. TypeOK'
    BY <1>1, <1>2 DEF TypeOK
  <1>5. RpcInv'
    BY <1>1, <1>2 DEF RpcInv, TypeOK
  <1>6. CountersMatch' /\ LateInv'
    BY <1>1, <1>3 DEF CountersMatch, LateInv
  <1>7. EarlyInv'
    BY <1>1, <1>3 DEF EarlyInv
  <1>8. PhaseInv'
    BY <1>1, <1>3 DEF PhaseInv, Drained, Quiesced, Closing
  <1> QED
    BY <1>4, <1>5, <1>6, <1>7, <1>8

(* The admission of a call keeps the inductive invariant: it is tested and
   counted in one step, and never after the drain began. *)
LEMMA AdmitRpcPreserves ==
  ASSUME IInv, NEW r \in Rpc, AdmitRpc(r)
  PROVE  IInv'
  <1> USE DEF IInv, flags, resources, counters, rpcVars
  <1>1. UNCHANGED <<mainPc, flags, resources, localOps, rpcLive, rpcCb, rpcReleased, opPc, stopPc>>
        /\ rpcPc[r] = "admit"
        /\ rpcPc' = [rpcPc EXCEPT ![r] = IF draining THEN "refused" ELSE "counted"]
    BY DEF AdmitRpc
  <1>2. r \in DataRpc /\ ~rpcReleased[r] /\ ~rpcCb[r]
    BY <1>1 DEF RpcInv
  <1>3. Leased' = Leased
    BY <1>1 DEF Leased
  <1>4. IF draining THEN Held' = Held /\ activeRpcs' = activeRpcs
        ELSE Held' = Held \cup {r} /\ r \notin Held /\ activeRpcs' = activeRpcs + 1
    BY <1>1, <1>2 DEF Held, TypeOK, AdmitRpc, Rpc
  <1>5. CountersMatch'
    <2>1. r \notin Held => Cardinality(Held \cup {r}) = Cardinality(Held) + 1
      BY FiniteWork, FS_AddElement
    <2>2. localOps' = Cardinality(Leased')
      BY <1>1, <1>3 DEF CountersMatch
    <2>3. activeRpcs' = Cardinality(Held')
      BY <1>4, <2>1 DEF CountersMatch
    <2> QED
      BY <2>2, <2>3 DEF CountersMatch
  <1>6. TypeOK'
    BY <1>1 DEF TypeOK, AdmitRpc
  <1>7. RpcInv'
    BY <1>1, <1>2 DEF RpcInv, TypeOK
  <1>8. LateInv'
    BY <1>1 DEF LateInv
  <1>9. EarlyInv'
    BY <1>1, <1>3 DEF EarlyInv
  <1>10. PhaseInv'
    <2>1. \A q \in Rpc : Occupied(q)' => Occupied(q)
      BY <1>1 DEF Occupied, TypeOK
    <2> QED
      BY <1>1, <1>3, <1>4, <2>1 DEF PhaseInv, Drained, Quiesced, Closing
  <1> QED
    BY <1>5, <1>6, <1>7, <1>8, <1>9, <1>10

(* Steps of a call that neither admit nor release it. *)
LEMMA CallPreserves ==
  ASSUME IInv, NEW r \in Rpc, CallbackRegistered(r) \/ HandlerEnds(r) \/ RpcTerminates(r)
  PROVE  IInv'
  <1> USE DEF IInv, flags, resources, counters, rpcVars
  <1>1. UNCHANGED <<mainPc, flags, resources, counters, rpcReleased, opPc, stopPc>>
    BY DEF CallbackRegistered, HandlerEnds, RpcTerminates
  <1>2. TypeOK'
    <2>1. CASE CallbackRegistered(r)
      BY <1>1, <2>1 DEF TypeOK, CallbackRegistered
    <2>2. CASE HandlerEnds(r)
      BY <1>1, <2>2 DEF TypeOK, HandlerEnds
    <2>3. CASE RpcTerminates(r)
      BY <1>1, <2>3 DEF TypeOK, RpcTerminates
    <2> QED
      BY <2>1, <2>2, <2>3
  <1>3. Leased' = Leased
    BY <1>1 DEF Leased
  <1>4. Held' = Held
    BY <1>1 DEF Held, Rpc, TypeOK, CallbackRegistered, HandlerEnds, RpcTerminates
  <1>5. RpcInv'
    BY <1>1 DEF RpcInv, TypeOK, CallbackRegistered, HandlerEnds, RpcTerminates
  <1>6. \A q \in Rpc : /\ Occupied(q)' => Occupied(q)
                       /\ rpcPc[q] = "new" => rpcPc'[q] = "new"
    BY DEF Occupied, TypeOK, CallbackRegistered, HandlerEnds, RpcTerminates
  <1>7. CountersMatch' /\ LateInv'
    BY <1>1, <1>3, <1>4 DEF CountersMatch, LateInv
  <1>8. EarlyInv'
    BY <1>1, <1>3, <1>6 DEF EarlyInv
  <1>9. PhaseInv'
    BY <1>1, <1>3, <1>4, <1>6 DEF PhaseInv
  <1> QED
    BY <1>2, <1>5, <1>7, <1>8, <1>9

(* release(): a call that takes effect removes its RPC from Held. *)
LEMMA ReleasePreserves ==
  ASSUME IInv, NEW r \in Rpc, CallbackRefused(r) \/ CallbackRuns(r)
  PROVE  IInv'
  <1> USE DEF IInv, flags, resources, counters, rpcVars
  <1>1. UNCHANGED <<flags, resources, localOps, rpcLive, opPc, stopPc>> /\ Release(r)
    BY DEF CallbackRefused, CallbackRuns
  <1>2. mainPc' = mainPc \/ (mainPc = "idleWait" /\ mainPc' = "idleCheck")
    BY <1>1 DEF Release, Notify
  <1>3. r \in DataRpc /\ rpcPc[r] \in {"counted", "running", "ended"}
    BY DEF CallbackRefused, CallbackRuns, RpcInv
  <1>4. \/ rpcPc' = [rpcPc EXCEPT ![r] = "ended"] /\ rpcPc[r] = "counted"
        \/ rpcPc' = rpcPc /\ rpcPc[r] \in {"running", "ended"}
    BY DEF CallbackRefused, CallbackRuns, RpcInv
  <1>5. rpcCb' \in [Rpc -> BOOLEAN] /\ \A q \in Rpc : q # r => rpcCb'[q] = rpcCb[q]
    BY DEF CallbackRefused, CallbackRuns, TypeOK
  <1>6. \A q \in Rpc : /\ Occupied(q)' => Occupied(q)
                       /\ rpcPc[q] = "new" => rpcPc'[q] = "new"
                       /\ rpcPc[q] \in {"running", "ended"} => rpcPc'[q] \in {"running", "ended"}
                       /\ q # r => rpcPc'[q] = rpcPc[q]
    BY <1>4 DEF Occupied, TypeOK
  <1>7. Leased' = Leased
    BY <1>1 DEF Leased
  <1>8. \/ Held' = Held /\ activeRpcs' = activeRpcs /\ rpcReleased' = rpcReleased
        \/ /\ r \in Held /\ Held' = Held \ {r} /\ activeRpcs' = activeRpcs - 1
           /\ rpcReleased' = [rpcReleased EXCEPT ![r] = TRUE]
    <2>1. CASE rpcReleased[r]
      BY <1>1, <1>3, <1>4, <1>6, <2>1 DEF Release, Held, TypeOK, Rpc
    <2>2. CASE ~rpcReleased[r]
      <3>1. rpcReleased' = [rpcReleased EXCEPT ![r] = TRUE] /\ activeRpcs' = activeRpcs - 1
        BY <1>1, <2>2 DEF Release
      <3>2. r \in Held
        BY <1>3, <2>2 DEF Held
      <3>3. Held' = Held \ {r}
        BY <1>6, <3>1 DEF Held, TypeOK, Rpc
      <3> QED
        BY <3>1, <3>2, <3>3
    <2> QED
      BY <2>1, <2>2
  <1>9. CountersMatch' /\ activeRpcs' \in Nat
    <2>1. CASE Held' = Held /\ activeRpcs' = activeRpcs
      BY <1>1, <1>7, <2>1 DEF CountersMatch, TypeOK
    <2>2. CASE r \in Held /\ Held' = Held \ {r} /\ activeRpcs' = activeRpcs - 1
      <3>1. Cardinality(Held \ {r}) = Cardinality(Held) - 1 /\ IsFiniteSet(Held \ {r})
        BY <2>2, FiniteWork, FS_RemoveElement
      <3>2. Cardinality(Held \ {r}) \in Nat
        BY <3>1, FS_CardinalityType
      <3> QED
        BY <1>1, <1>7, <2>2, <3>1, <3>2 DEF CountersMatch
    <2> QED
      BY <1>8, <2>1, <2>2
  <1>10. TypeOK'
    <2>1. rpcPc' \in [Rpc -> {"new", "admit", "counted", "running", "ended", "refused"}]
      BY <1>4 DEF TypeOK
    <2>2. rpcReleased' \in [Rpc -> BOOLEAN]
      BY <1>8 DEF TypeOK
    <2>3. mainPc' \in Startup \cup {"serving", "drain", "leave", "idleCheck", "idleWait", "stopGrpc",
                                "shutdownExecutor", "stopMembership", "closeStorage",
                                "markStopped", "closeControl", "done"}
      BY <1>2 DEF TypeOK
    <2> QED
      BY <1>1, <1>5, <1>9, <2>1, <2>2, <2>3 DEF TypeOK
  <1>11. RpcInv'
    <2> SUFFICES ASSUME NEW q \in Rpc
                 PROVE  /\ q \notin DataRpc => rpcPc'[q] \in {"new", "running", "ended"}
                        /\ rpcCb'[q] => q \in DataRpc /\ rpcPc'[q] \in {"running", "ended"}
                        /\ rpcReleased'[q] => rpcPc'[q] \in {"running", "ended"}
      BY DEF RpcInv
    <2>1. CASE q = r
      BY <1>3, <1>4, <2>1 DEF TypeOK
    <2>2. CASE q # r
      BY <1>5, <1>6, <1>8, <2>2 DEF RpcInv, TypeOK
    <2> QED
      BY <2>1, <2>2
  <1>12. LateInv'
    BY <1>1, <1>2 DEF LateInv, Closing
  <1>13. EarlyInv'
    BY <1>1, <1>2, <1>6, <1>7 DEF EarlyInv
  <1>14. PhaseInv'
    BY <1>1, <1>2, <1>6, <1>7, <1>8 DEF PhaseInv, Drained, Quiesced, Closing
  <1> QED
    BY <1>9, <1>10, <1>11, <1>12, <1>13, <1>14

-----------------------------------------------------------------------------
(* Every step preserves the inductive invariant. *)
LEMMA NextIInv == IInv /\ [Next]_vars => IInv'
  <1> SUFFICES ASSUME IInv, [Next]_vars PROVE IInv'
    OBVIOUS
  <1>1. CASE UNCHANGED vars
    BY <1>1 DEF vars, flags, resources, counters, rpcVars, IInv, TypeOK, CountersMatch, RpcInv,
                LateInv, EarlyInv, PhaseInv, Held, Leased, Occupied
  <1>2. CASE Main \/ StartupFails
    BY <1>2, MainPreserves
  <1>3. CASE Signal
    BY <1>3, SignalPreserves
  <1>4. ASSUME NEW r \in Rpc, RpcArrives(r) PROVE IInv'
    BY <1>4, RpcArrivesPreserves
  <1>5. ASSUME NEW r \in Rpc, AdmitRpc(r) PROVE IInv'
    BY <1>5, AdmitRpcPreserves
  <1>6. ASSUME NEW r \in Rpc, CallbackRegistered(r) \/ HandlerEnds(r) \/ RpcTerminates(r) PROVE IInv'
    BY <1>6, CallPreserves
  <1>7. ASSUME NEW r \in Rpc, CallbackRefused(r) \/ CallbackRuns(r) PROVE IInv'
    BY <1>7, ReleasePreserves
  <1>8. ASSUME NEW c \in Op, BeginLocalOperation(c) PROVE IInv'
    BY <1>8, BeginPreserves
  <1>9. ASSUME NEW c \in Op, EndLocalOperation(c) PROVE IInv'
    BY <1>9, EndPreserves
  <1>10. ASSUME NEW s \in Stopper, StopRequested(s) PROVE IInv'
    BY <1>10, StopRequestedPreserves
  <1>11. ASSUME NEW s \in Stopper, StopConfirmed(s) PROVE IInv'
    BY <1>11, StopConfirmedPreserves
  <1> QED
    BY <1>1, <1>2, <1>3, <1>4, <1>5, <1>6, <1>7, <1>8, <1>9, <1>10, <1>11, Zenon DEF Next

(* Every reachable state satisfies the inductive invariant. *)
THEOREM Invariance == Spec => []IInv
  BY InitIInv, NextIInv, PTL DEF Spec

(* Type correctness; in particular no counter of NodeDrainController ever goes
   below zero, so its "contador incoherente" errors are unreachable. *)
THEOREM TypeCorrect == Spec => []TypeOK
  <1>1. IInv => TypeOK
    BY DEF IInv
  <1> QED
    BY <1>1, Invariance, PTL

(* The counters of NodeDrainController are the admitted, unreleased work. *)
THEOREM CountersMatchHolds == Spec => []CountersMatch
  <1>1. IInv => CountersMatch
    BY DEF IInv
  <1> QED
    BY <1>1, Invariance, PTL

(* serve() closes the commit engine and the membership channels only when no
   handler runs. *)
THEOREM TeardownAfterHandlersHolds == Spec => []TeardownAfterHandlers
  <1>1. IInv => TeardownAfterHandlers
    BY DEF IInv, LateInv, PhaseInv, TeardownAfterHandlers, Quiesced
  <1> QED
    BY <1>1, Invariance, PTL

(* STOPPED is only ever sent when no lease, no handler and no admitted RPC is left. *)
THEOREM StoppedIsTrueHolds == Spec => []StoppedIsTrue
  <1>1. IInv => StoppedIsTrue
    BY DEF IInv, LateInv, PhaseInv, StoppedIsTrue, Drained, Quiesced, Closing
  <1> QED
    BY <1>1, Invariance, PTL

(* Once draining, no step admits work. *)
LEMMA BarrierStep ==
  ASSUME IInv, Next, draining
  PROVE  Held' \subseteq Held /\ Leased' \subseteq Leased
  <1> USE DEF IInv, TypeOK, flags, resources, counters, rpcVars
  <1> DEFINE G == Held' \subseteq Held /\ Leased' \subseteq Leased
  <1>1. ASSUME UNCHANGED <<rpcPc, rpcReleased, opPc>> PROVE G
    BY <1>1 DEF Held, Leased
  <1>2. CASE Main \/ StartupFails \/ Signal
    <2>1. UNCHANGED <<rpcPc, rpcReleased, opPc>>
      BY <1>2 DEF Main, StartupFails, Signal, StartControl, StartGrpc, BootstrapJoin,
           StartMembership, ServingEnds, RequestDraining, PublishLeft, IdleCheck, StopGrpc,
           ShutdownExecutor, StopMembership, CloseStorage, MarkStopped, CloseControl
    <2> QED
      BY <1>1, <2>1
  <1>3. ASSUME NEW s \in Stopper, StopRequested(s) \/ StopConfirmed(s) PROVE G
    BY <1>1, <1>3 DEF StopRequested, StopConfirmed
  <1>4. ASSUME NEW c \in Op, BeginLocalOperation(c) \/ EndLocalOperation(c) PROVE G
    BY <1>4 DEF Held, Leased, BeginLocalOperation, EndLocalOperation
  <1>5. ASSUME NEW r \in Rpc, RpcArrives(r) \/ AdmitRpc(r) PROVE G
    BY <1>5 DEF Held, Leased, Rpc, RpcInv, RpcArrives, AdmitRpc
  <1>6. ASSUME NEW r \in Rpc, CallbackRegistered(r) \/ HandlerEnds(r) \/ RpcTerminates(r) PROVE G
    BY <1>6 DEF Held, Leased, Rpc, CallbackRegistered, HandlerEnds, RpcTerminates
  <1>7. ASSUME NEW r \in Rpc, CallbackRefused(r) \/ CallbackRuns(r) PROVE G
    <2>1. \A q \in Rpc : /\ rpcPc'[q] = rpcPc[q] \/ rpcPc[q] = "counted"
                         /\ rpcReleased[q] => rpcReleased'[q]
      BY <1>7 DEF CallbackRefused, CallbackRuns, Release
    <2>2. opPc' = opPc
      BY <1>7 DEF CallbackRefused, CallbackRuns
    <2> QED
      BY <2>1, <2>2 DEF Held, Leased, Rpc
  <1> QED
    BY <1>2, <1>3, <1>4, <1>5, <1>6, <1>7, Zenon DEF Next

(* The admission barrier of request_draining. *)
THEOREM BarrierHoldsAlways == Spec => BarrierHolds
  <1> DEFINE A == draining => Held' \subseteq Held /\ Leased' \subseteq Leased
  <1>1. IInv /\ [Next]_vars => [A]_vars
    BY BarrierStep
  <1>2. Spec => [][A]_vars
    BY <1>1, Invariance, PTL DEF Spec
  <1> QED
    BY <1>2 DEF BarrierHolds

-----------------------------------------------------------------------------
(* The contract *)

(* the state functions of the refinement mapping *)
Phase == IF stopped THEN "stopped" ELSE IF draining THEN "draining" ELSE "open"
Calls == Held \cup {r \in DataRpc : rpcPc[r] \in {"counted", "running"}}
Told == {s \in Stopper : stopPc[s] = "confirmed"}

(* The initial states of the node are initial states of the contract. *)
LEMMA InitContract == Init => Contract!Init
  BY DEF Init, Contract!Init, Leased, Held, Rpc

(* Steps that touch neither calls, leases nor clients leave the contract alone,
   or begin the drain, or complete the stop. *)
LEMMA PhaseStepContract ==
  ASSUME IInv, Main \/ StartupFails \/ Signal
  PROVE  Contract!Drain \/ Contract!Stop \/ UNCHANGED Contract!vars
  <1> USE DEF flags, resources, counters, rpcVars
  <1>1. UNCHANGED <<rpcPc, rpcReleased, opPc, stopPc>>
    BY DEF Main, StartupFails, Signal, StartControl, StartGrpc, BootstrapJoin,
           StartMembership, ServingEnds, RequestDraining, PublishLeft, IdleCheck, StopGrpc,
           ShutdownExecutor, StopMembership, CloseStorage, MarkStopped, CloseControl
  <1>2. UNCHANGED <<Leased, Calls, Told>>
    BY <1>1 DEF Leased, Calls, Held, Told
  <1>3. CASE MarkStopped
    <2>1. draining /\ ~stopped /\ Leased = {} /\ Calls = {}
      BY <1>3 DEF MarkStopped, IInv, LateInv, PhaseInv, Drained, Quiesced, Closing, Calls, Occupied, Rpc
    <2>2. draining' = draining /\ stopped'
      BY <1>3 DEF MarkStopped
    <2>3. Contract!Stop
      BY <1>2, <2>1, <2>2 DEF Contract!Stop, Calls, Told
    <2> QED
      BY <2>3
  <1>4. CASE RequestDraining \/ Signal
    <2>1. draining' = TRUE /\ stopped' = stopped
      BY <1>4 DEF RequestDraining, Signal
    <2>2. draining \in BOOLEAN /\ stopped \in BOOLEAN
      BY DEF IInv, TypeOK
    <2>3. CASE stopped \/ draining
      <3>1. Phase' = Phase
        BY <2>1, <2>2, <2>3 DEF Phase
      <3> QED
        BY <1>2, <3>1 DEF Contract!vars, Phase, Calls, Told
    <2>4. CASE ~stopped /\ ~draining
      BY <1>2, <2>1, <2>4 DEF Contract!Drain, Calls, Told
    <2> QED
      BY <2>3, <2>4
  <1>5. CASE ~MarkStopped /\ ~RequestDraining /\ ~Signal
    <2>1. UNCHANGED <<draining, stopped>>
      BY <1>5 DEF Main, StartupFails, StartControl, StartGrpc, BootstrapJoin,
           StartMembership, ServingEnds, PublishLeft, IdleCheck, StopGrpc,
           ShutdownExecutor, StopMembership, CloseStorage, CloseControl
    <2> QED
      BY <1>2, <2>1 DEF Contract!vars, Calls, Told
  <1> QED
    BY <1>3, <1>4, <1>5

(* A step of a CLI operation admits it, ends it, or is refused. *)
LEMMA OpStepContract ==
  ASSUME IInv, NEW c \in Op, BeginLocalOperation(c) \/ EndLocalOperation(c)
  PROVE  Contract!AdmitOp(c) \/ Contract!FinishOp(c) \/ UNCHANGED Contract!vars
  <1> USE DEF flags, resources, counters, rpcVars
  <1>1. UNCHANGED <<draining, stopped, rpcPc, rpcReleased, stopPc>>
    BY DEF BeginLocalOperation, EndLocalOperation
  <1>2. UNCHANGED <<Phase, Calls, Told>>
    BY <1>1 DEF Phase, Calls, Held, Told
  <1>3. CASE BeginLocalOperation(c) /\ draining
    <2>1. Leased' = Leased
      BY <1>3 DEF BeginLocalOperation, Leased, IInv, TypeOK
    <2> QED
      BY <1>2, <2>1 DEF Contract!vars, Phase, Calls, Told
  <1>4. CASE BeginLocalOperation(c) /\ ~draining
    <2>1. Leased' = Leased \cup {c}
      BY <1>4 DEF BeginLocalOperation, Leased, IInv, TypeOK
    <2>2. ~stopped
      BY <1>4 DEF IInv, LateInv, PhaseInv, Drained, Quiesced, Closing
    <2> QED
      BY <1>2, <1>4, <2>1, <2>2 DEF Contract!AdmitOp, Phase, Calls, Told
  <1>5. CASE EndLocalOperation(c)
    <2>1. Leased' = Leased \ {c}
      BY <1>5 DEF EndLocalOperation, Leased, IInv, TypeOK
    <2> QED
      BY <1>2, <2>1 DEF Contract!FinishOp, Phase, Calls, Told
  <1> QED
    BY <1>3, <1>4, <1>5

(* A step of a call admits it, ends it, or changes nothing the contract sees:
   the call is under way until both the release and the end of the handler
   have come, in either order. *)
LEMMA CallStepContract ==
  ASSUME IInv, NEW r \in Rpc,
         \/ RpcArrives(r) \/ AdmitRpc(r) \/ CallbackRegistered(r) \/ CallbackRefused(r)
         \/ HandlerEnds(r) \/ RpcTerminates(r) \/ CallbackRuns(r)
  PROVE  (r \in DataRpc /\ (Contract!AdmitCall(r) \/ Contract!FinishCall(r)))
         \/ UNCHANGED Contract!vars
  <1> USE DEF flags, resources, counters, rpcVars
  <1>1. UNCHANGED <<draining, stopped, opPc, stopPc>>
    BY DEF RpcArrives, AdmitRpc, CallbackRegistered, CallbackRefused, HandlerEnds,
           RpcTerminates, CallbackRuns
  <1>2. UNCHANGED <<Phase, Leased, Told>>
    BY <1>1 DEF Phase, Leased, Told
  <1>3. SUFFICES ASSUME Calls' # Calls
                 PROVE  r \in DataRpc /\ (Contract!AdmitCall(r) \/ Contract!FinishCall(r))
    BY <1>2 DEF Contract!vars, Phase, Calls, Told
  <1>4. \A q \in Rpc : q # r => rpcPc'[q] = rpcPc[q] /\ rpcReleased'[q] = rpcReleased[q]
    <2>1. CASE CallbackRefused(r) \/ CallbackRuns(r)
      <3>1. \A q \in Rpc : q # r => rpcReleased'[q] = rpcReleased[q]
        BY <2>1 DEF CallbackRefused, CallbackRuns, Release, IInv, TypeOK
      <3>2. \A q \in Rpc : q # r => rpcPc'[q] = rpcPc[q]
        BY <2>1 DEF CallbackRefused, CallbackRuns, IInv, TypeOK
      <3> QED
        BY <3>1, <3>2
    <2>2. CASE ~CallbackRefused(r) /\ ~CallbackRuns(r)
      BY <2>2 DEF RpcArrives, AdmitRpc, CallbackRegistered, HandlerEnds, RpcTerminates, IInv, TypeOK
    <2> QED
      BY <2>1, <2>2
  <1>5. r \in DataRpc
    BY <1>3, <1>4 DEF Calls, Held, Rpc
  <1>6. CASE r \in Calls
    <2>1. Calls' = Calls \ {r}
      BY <1>3, <1>4, <1>6 DEF Calls, Held, Rpc
    <2> QED
      BY <1>2, <1>5, <2>1 DEF Contract!FinishCall, Phase, Calls, Told
  <1>7. CASE r \notin Calls
    <2>1. r \in Calls' /\ Calls' = Calls \cup {r}
      BY <1>3, <1>4, <1>7 DEF Calls, Held, Rpc
    <2>2. AdmitRpc(r) /\ ~draining
      BY <1>5, <1>7, <2>1 DEF Calls, Held, Rpc, IInv, TypeOK, RpcArrives, AdmitRpc,
           CallbackRegistered, CallbackRefused, HandlerEnds, RpcTerminates, CallbackRuns, Release
    <2>3. ~stopped
      BY <2>2 DEF IInv, LateInv, PhaseInv, Drained, Quiesced, Closing
    <2> QED
      BY <1>2, <1>5, <2>1, <2>2, <2>3 DEF Contract!AdmitCall, Phase, Calls, Told
  <1> QED
    BY <1>6, <1>7

(* A step of a stop client begins the drain, tells the client, or neither. *)
LEMMA StopStepContract ==
  ASSUME IInv, NEW s \in Stopper, StopRequested(s) \/ StopConfirmed(s)
  PROVE  Contract!Drain \/ Contract!Tell(s) \/ UNCHANGED Contract!vars
  <1> USE DEF flags, resources, counters, rpcVars
  <1>1. UNCHANGED <<stopped, rpcPc, rpcReleased, opPc>>
    BY DEF StopRequested, StopConfirmed
  <1>2. UNCHANGED <<Leased, Calls>>
    BY <1>1 DEF Leased, Calls, Held
  <1>3. CASE StopRequested(s)
    <2>1. Told' = Told
      BY <1>3 DEF StopRequested, Told, IInv, TypeOK
    <2>2. draining' = TRUE
      BY <1>3 DEF StopRequested
    <2>3. draining \in BOOLEAN /\ stopped \in BOOLEAN
      BY DEF IInv, TypeOK
    <2>4. CASE stopped \/ draining
      <3>1. Phase' = Phase
        BY <1>1, <2>2, <2>3, <2>4 DEF Phase
      <3> QED
        BY <1>2, <2>1, <3>1 DEF Contract!vars, Phase, Calls, Told
    <2>5. CASE ~stopped /\ ~draining
      BY <1>1, <1>2, <2>1, <2>2, <2>5 DEF Contract!Drain, Calls, Told
    <2> QED
      BY <2>4, <2>5
  <1>4. CASE StopConfirmed(s)
    <2>1. Told' = Told \cup {s} /\ stopped /\ Phase' = Phase
      BY <1>4 DEF StopConfirmed, Told, Phase, IInv, TypeOK
    <2> QED
      BY <1>1, <1>2, <2>1 DEF Contract!Tell, Phase, Calls, Told
  <1> QED
    BY <1>3, <1>4

(* Every step of the node is a step of the contract or leaves it alone. *)
LEMMA StepContract == IInv /\ [Next]_vars => [Contract!Next]_(Contract!vars)
  <1> SUFFICES ASSUME IInv, [Next]_vars
               PROVE  Contract!Next \/ UNCHANGED Contract!vars
    OBVIOUS
  <1>1. CASE UNCHANGED vars
    BY <1>1 DEF vars, flags, resources, counters, rpcVars, Contract!vars, Leased, Held
  <1>2. CASE Main \/ StartupFails \/ Signal
    BY <1>2, PhaseStepContract DEF Contract!Next
  <1>3. ASSUME NEW r \in Rpc,
               \/ RpcArrives(r) \/ AdmitRpc(r) \/ CallbackRegistered(r) \/ CallbackRefused(r)
               \/ HandlerEnds(r) \/ RpcTerminates(r) \/ CallbackRuns(r)
        PROVE  Contract!Next \/ UNCHANGED Contract!vars
    BY <1>3, CallStepContract DEF Contract!Next
  <1>4. ASSUME NEW c \in Op, BeginLocalOperation(c) \/ EndLocalOperation(c)
        PROVE  Contract!Next \/ UNCHANGED Contract!vars
    BY <1>4, OpStepContract DEF Contract!Next
  <1>5. ASSUME NEW s \in Stopper, StopRequested(s) \/ StopConfirmed(s)
        PROVE  Contract!Next \/ UNCHANGED Contract!vars
    BY <1>5, StopStepContract DEF Contract!Next
  <1> QED
    BY <1>1, <1>2, <1>3, <1>4, <1>5, Zenon DEF Next

(* The node keeps the contract, for any amount of work. *)
THEOREM ImplementsContractHolds == Spec => ImplementsContract
  BY InitContract, StepContract, Invariance, PTL DEF Spec, ImplementsContract, Contract!Spec

=============================================================================
