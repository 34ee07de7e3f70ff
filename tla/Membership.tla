------------------------------ MODULE Membership ------------------------------
(***************************************************************************)
(* The SWIM-like membership of a Stopan node (node/membership/manager.py,  *)
(* services/membership_rpc.py and the persisted identity of                *)
(* node/identity.py).                                                      *)
(*                                                                         *)
(* Every node keeps one record per known member: an incarnation and a      *)
(* state.  A state is represented by its rank in STATE_ORDER, which is all *)
(* the code compares.  Threads of one node interleave: the SWIM loop, any  *)
(* number of RPC handlers, and the thread that runs leave().  A handler    *)
(* that refutes a suspicion takes several steps, because the code takes    *)
(* its locks separately for each of them.                                  *)
(*                                                                         *)
(* The network is the set of events that were ever put into a message or   *)
(* into a GossipBuffer, from where any later request or answer may carry   *)
(* them.  A message may be lost, delayed, reordered or repeated and a      *)
(* buffered event may expire before it is sampled, so a running node may   *)
(* apply any event of the set at any time, or never.  Addresses are left   *)
(* out: every node has one fixed address.                                  *)
(***************************************************************************)
EXTENDS Integers, FiniteSets

CONSTANTS
    Node,      \* the node_ids of the cluster
    Thread,    \* RPC handler threads that may refute a suspicion concurrently
    MaxInc,    \* bound: MaxInc[n] is the highest incarnation n ever persists
    Leavers,   \* bound: the nodes that may be asked to stop with leave()
    Idle,      \* the SWIM loop waits for its next period
    Picking    \* a round has begun and has no target yet

ASSUME ConstantsAssumption ==
    /\ MaxInc \in [Node -> Nat]
    /\ Idle \notin Node /\ Picking \notin Node /\ Idle # Picking

VARIABLES
    disk,      \* disk[n]: incarnation persisted in the identity file, 0 if none
    up,        \* up[n]: the node process runs
    inc,       \* inc[n]: self.incarnation
    leavePc,   \* leavePc[n]: how far leave() has got
    leftInc,   \* leftInc[n]: incarnation of the LEFT event leave() built
    rec,       \* rec[n][m]: the MemberRecord n keeps about m
    joined,    \* joined[n]: _bootstrap_complete
    probe,     \* probe[n]: Idle, Picking, or the target of the SWIM round
    refute,    \* refute[n][t]: handler thread t inside _handle_self_event
    net        \* every event that ever left a node or entered its GossipBuffer

vars == <<disk, up, inc, leavePc, leftInc, rec, joined, probe, refute, net>>

-----------------------------------------------------------------------------
(* STATE_ORDER *)
UNKNOWN == 0
ALIVE   == 1
SUSPECT == 2
DEAD    == 3
LEFT    == 4

Record == [inc: Nat, st: UNKNOWN..LEFT]
Event  == [node: Node, inc: Nat \ {0}, st: ALIVE..LEFT]

MemberEvent(n, i, s) == [node |-> n, inc |-> i, st |-> s]

NoRecord == [inc |-> 0, st |-> UNKNOWN]
NoThread == [pc |-> "idle", val |-> 0]

(* _leaving is set from the first step of leave() on *)
Leaving(n) == leavePc[n] # "no"

-----------------------------------------------------------------------------
(* Records and events *)

(* Mutant of Newer: the state is compared whatever the incarnation. *)
NewerAcrossRuns(e, r) == e.inc > r.inc \/ e.st > r.st

(* An event improves a record: a higher incarnation, or the same
   incarnation with a state of higher order.  A missing record is NoRecord. *)
Newer(e, r) == e.inc > r.inc \/ (e.inc = r.inc /\ e.st > r.st)

(* apply_event of an event about another node: the record, the gossip buffer
   and the end of the bootstrap phase change together, under _lock. *)
ApplyEvent(n, e) ==
    IF Newer(e, rec[n][e.node])
    THEN /\ rec' = [rec EXCEPT ![n][e.node] = [inc |-> e.inc, st |-> e.st]]
         /\ net' = net \cup {e}
         /\ joined' = [joined EXCEPT ![n] = @ \/ e.st = ALIVE]
    ELSE UNCHANGED <<rec, joined, net>>

(* get_members_snapshot(eligible_only=True), sent as NodeInfo and turned into
   ALIVE events by the receiver *)
EligibleMembers(n) ==
    {m \in Node : rec[n][m].st = ALIVE /\ ~(m = n /\ Leaving(n))}

SnapshotEvents(n) == {MemberEvent(m, rec[n][m].inc, ALIVE) : m \in EligibleMembers(n)}

-----------------------------------------------------------------------------
Init ==
    /\ disk = [n \in Node |-> 0]
    /\ up = [n \in Node |-> FALSE]
    /\ inc = [n \in Node |-> 0]
    /\ leavePc = [n \in Node |-> "no"]
    /\ leftInc = [n \in Node |-> 0]
    /\ rec = [n \in Node |-> [m \in Node |-> NoRecord]]
    /\ joined = [n \in Node |-> FALSE]
    /\ probe = [n \in Node |-> Idle]
    /\ refute = [n \in Node |-> [t \in Thread |-> NoThread]]
    /\ net = {}

(* Mutant of Start: the incarnation found on disk is used again. *)
StartReusing(n) ==
    LET i == IF disk[n] = 0 THEN 1 ELSE disk[n]
    IN /\ ~up[n]
       /\ disk' = [disk EXCEPT ![n] = i]
       /\ up' = [up EXCEPT ![n] = TRUE]
       /\ inc' = [inc EXCEPT ![n] = i]
       /\ rec' = [rec EXCEPT ![n] = [m \in Node |->
                     IF m = n THEN [inc |-> i, st |-> ALIVE] ELSE NoRecord]]
       /\ UNCHANGED <<leavePc, leftInc, joined, probe, refute, net>>

(* load_for_startup persists the next incarnation before the manager exists;
   the manager starts with its own ALIVE record and an empty gossip buffer. *)
Start(n) ==
    /\ ~up[n]
    /\ disk[n] < MaxInc[n]
    /\ disk' = [disk EXCEPT ![n] = @ + 1]
    /\ up' = [up EXCEPT ![n] = TRUE]
    /\ inc' = [inc EXCEPT ![n] = disk[n] + 1]
    /\ rec' = [rec EXCEPT ![n] = [m \in Node |->
                  IF m = n THEN [inc |-> disk[n] + 1, st |-> ALIVE] ELSE NoRecord]]
    /\ UNCHANGED <<leavePc, leftInc, joined, probe, refute, net>>

(* The process ends, abruptly or after the drain.  Only disk survives. *)
Stop(n) ==
    /\ up[n]
    /\ up' = [up EXCEPT ![n] = FALSE]
    /\ inc' = [inc EXCEPT ![n] = 0]
    /\ leavePc' = [leavePc EXCEPT ![n] = "no"]
    /\ leftInc' = [leftInc EXCEPT ![n] = 0]
    /\ rec' = [rec EXCEPT ![n] = [m \in Node |-> NoRecord]]
    /\ joined' = [joined EXCEPT ![n] = FALSE]
    /\ probe' = [probe EXCEPT ![n] = Idle]
    /\ refute' = [refute EXCEPT ![n] = [t \in Thread |-> NoThread]]
    /\ UNCHANGED <<disk, net>>

-----------------------------------------------------------------------------
(* Messages out *)

(* _join_seed while bootstrap is not complete, at startup or at the top of a
   round that began before _stop was set: the request carries NodeInfo *)
JoinRequest(n) ==
    /\ up[n] /\ ~joined[n]
    /\ ~Leaving(n) \/ probe[n] = Picking
    /\ net' = net \cup {MemberEvent(n, inc[n], ALIVE)}
    /\ UNCHANGED <<disk, up, inc, leavePc, leftInc, rec, joined, probe, refute>>

(* Join handler: refused while leaving, answers with the eligible members *)
JoinReply(n) ==
    /\ up[n] /\ ~Leaving(n)
    /\ net' = net \cup SnapshotEvents(n)
    /\ UNCHANGED <<disk, up, inc, leavePc, leftInc, rec, joined, probe, refute>>

(* PingReq handler: while not leaving, pings the target as itself *)
HelperPing(n) ==
    /\ up[n] /\ ~Leaving(n)
    /\ net' = net \cup {MemberEvent(n, inc[n], ALIVE)}
    /\ UNCHANGED <<disk, up, inc, leavePc, leftInc, rec, joined, probe, refute>>

-----------------------------------------------------------------------------
(* Messages in *)

(* A handler or a caller applies a received event about another node *)
Deliver(n, e) ==
    /\ up[n] /\ e \in net /\ e.node # n
    /\ ApplyEvent(n, e)
    /\ UNCHANGED <<disk, up, inc, leavePc, leftInc, probe, refute>>

(* _handle_self_event up to its decision to refute *)
SelfEvent(n, t, e) ==
    /\ up[n] /\ ~Leaving(n) /\ refute[n][t].pc = "idle"
    /\ e \in net /\ e.node = n /\ e.st \in {SUSPECT, DEAD}
    /\ e.inc >= inc[n]
    /\ refute' = [refute EXCEPT ![n][t] = [pc |-> "bump", val |-> e.inc]]
    /\ UNCHANGED <<disk, up, inc, leavePc, leftInc, rec, joined, probe, net>>

(* Mutant of BumpAbove: the new incarnation is not written to the file. *)
BumpUnsaved(n, t) ==
    LET next == (IF disk[n] > refute[n][t].val THEN disk[n] ELSE refute[n][t].val) + 1
    IN /\ refute[n][t].pc = "bump" /\ next <= MaxInc[n]
       /\ refute' = [refute EXCEPT ![n][t] = [pc |-> "assign", val |-> next]]
       /\ UNCHANGED <<disk, up, inc, leavePc, leftInc, rec, joined, probe, net>>

(* identity_store.bump_above, atomic under the store's own lock *)
BumpAbove(n, t) ==
    LET next == (IF disk[n] > refute[n][t].val THEN disk[n] ELSE refute[n][t].val) + 1
    IN /\ refute[n][t].pc = "bump" /\ next <= MaxInc[n]
       /\ disk' = [disk EXCEPT ![n] = next]
       /\ refute' = [refute EXCEPT ![n][t] = [pc |-> "assign", val |-> next]]
       /\ UNCHANGED <<up, inc, leavePc, leftInc, rec, joined, probe, net>>

(* self.incarnation = <the returned value>, under no lock *)
AssignIncarnation(n, t) ==
    /\ refute[n][t].pc = "assign"
    /\ inc' = [inc EXCEPT ![n] = refute[n][t].val]
    /\ refute' = [refute EXCEPT ![n][t].pc = "announce"]
    /\ UNCHANGED <<disk, up, leavePc, leftInc, rec, joined, probe, net>>

(* _announce_alive: the check of _leaving and the event it builds *)
AnnounceAlive(n, t) ==
    /\ refute[n][t].pc = "announce"
    /\ refute' = [refute EXCEPT ![n][t] =
                    IF Leaving(n) THEN NoThread ELSE [pc |-> "write", val |-> inc[n]]]
    /\ UNCHANGED <<disk, up, inc, leavePc, leftInc, rec, joined, probe, net>>

(* _announce_alive: the own record under _lock, then the gossip buffer *)
WriteAlive(n, t) ==
    /\ refute[n][t].pc = "write"
    /\ rec' = [rec EXCEPT ![n][n] = [inc |-> inc[n], st |-> ALIVE]]
    /\ net' = net \cup {MemberEvent(n, refute[n][t].val, ALIVE)}
    /\ refute' = [refute EXCEPT ![n][t] = NoThread]
    /\ UNCHANGED <<disk, up, inc, leavePc, leftInc, joined, probe>>

-----------------------------------------------------------------------------
(* The SWIM round: _swim_loop tests _stop only before a round *)

BeginRound(n) ==
    /\ up[n] /\ ~Leaving(n) /\ probe[n] = Idle
    /\ probe' = [probe EXCEPT ![n] = Picking]
    /\ UNCHANGED <<disk, up, inc, leavePc, leftInc, rec, joined, refute, net>>

Peers(n) == {m \in Node \ {n} : rec[n][m].st = ALIVE}

(* _run_swim_round picks an ALIVE peer; without one the round is over *)
PickTarget(n) ==
    /\ probe[n] = Picking
    /\ \/ \E m \in Peers(n) : probe' = [probe EXCEPT ![n] = m]
       \/ Peers(n) = {} /\ probe' = [probe EXCEPT ![n] = Idle]
    /\ UNCHANGED <<disk, up, inc, leavePc, leftInc, rec, joined, refute, net>>

(* _ping of the target, then _ping_req to each helper: every one of these
   requests names the sender with the incarnation it has at that moment *)
SendPing(n) ==
    /\ probe[n] \in Node
    /\ net' = net \cup {MemberEvent(n, inc[n], ALIVE)}
    /\ UNCHANGED <<disk, up, inc, leavePc, leftInc, rec, joined, probe, refute>>

(* a direct or indirect answer with ok *)
ProbeAcked(n) ==
    /\ probe[n] \in Node
    /\ probe' = [probe EXCEPT ![n] = Idle]
    /\ UNCHANGED <<disk, up, inc, leavePc, leftInc, rec, joined, refute, net>>

(* no answer: _mark_suspect.  target is a live reference to the record, so the
   incarnation is the one known now, not the one known when the ping started. *)
ProbeFailed(n) ==
    /\ probe[n] \in Node
    /\ ApplyEvent(n, MemberEvent(probe[n], rec[n][probe[n]].inc, SUSPECT))
    /\ probe' = [probe EXCEPT ![n] = Idle]
    /\ UNCHANGED <<disk, up, inc, leavePc, leftInc, refute>>

(* _expire_suspects, called in every round: suspect_timeout_s has elapsed.
   The list is read and applied in two steps; an event about a record that has
   changed in between is ignored, as if the suspicion had not expired. *)
ExpireSuspect(n, m) ==
    /\ probe[n] # Idle /\ rec[n][m].st = SUSPECT
    /\ ApplyEvent(n, MemberEvent(m, rec[n][m].inc, DEAD))
    /\ UNCHANGED <<disk, up, inc, leavePc, leftInc, probe, refute>>

-----------------------------------------------------------------------------
(* leave() *)

BeginLeave(n) ==
    /\ n \in Leavers /\ up[n] /\ leavePc[n] = "no"
    /\ leavePc' = [leavePc EXCEPT ![n] = "begun"]
    /\ UNCHANGED <<disk, up, inc, leftInc, rec, joined, probe, refute, net>>

(* _announce_left builds the LEFT event *)
BuildLeft(n) ==
    /\ leavePc[n] = "begun"
    /\ leavePc' = [leavePc EXCEPT ![n] = "built"]
    /\ leftInc' = [leftInc EXCEPT ![n] = inc[n]]
    /\ UNCHANGED <<disk, up, inc, rec, joined, probe, refute, net>>

(* _announce_left writes the own record and the gossip buffer *)
WriteLeft(n) ==
    /\ leavePc[n] = "built"
    /\ leavePc' = [leavePc EXCEPT ![n] = "announced"]
    /\ rec' = [rec EXCEPT ![n][n] = [inc |-> inc[n], st |-> LEFT]]
    /\ net' = net \cup {MemberEvent(n, leftInc[n], LEFT)}
    /\ UNCHANGED <<disk, up, inc, leftInc, joined, probe, refute>>

(* _send_leave to one peer, best effort *)
SendLeave(n) ==
    /\ leavePc[n] = "announced"
    /\ net' = net \cup {MemberEvent(n, inc[n], LEFT)}
    /\ UNCHANGED <<disk, up, inc, leavePc, leftInc, rec, joined, probe, refute>>

(* the SWIM thread has been joined: _leave_complete *)
CompleteLeave(n) ==
    /\ leavePc[n] = "announced" /\ probe[n] = Idle
    /\ leavePc' = [leavePc EXCEPT ![n] = "done"]
    /\ UNCHANGED <<disk, up, inc, leftInc, rec, joined, probe, refute, net>>

-----------------------------------------------------------------------------
Next ==
    \E n \in Node :
        \/ Start(n) \/ Stop(n)
        \/ JoinRequest(n) \/ JoinReply(n) \/ HelperPing(n)
        \/ \E e \in net : Deliver(n, e)
        \/ \E t \in Thread, e \in net : SelfEvent(n, t, e)
        \/ \E t \in Thread : \/ BumpAbove(n, t) \/ AssignIncarnation(n, t)
                             \/ AnnounceAlive(n, t) \/ WriteAlive(n, t)
        \/ \E m \in Node : ExpireSuspect(n, m)
        \/ BeginRound(n) \/ PickTarget(n) \/ SendPing(n)
        \/ ProbeAcked(n) \/ ProbeFailed(n)
        \/ BeginLeave(n) \/ BuildLeft(n) \/ WriteLeft(n)
        \/ SendLeave(n) \/ CompleteLeave(n)

Spec == Init /\ [][Next]_vars

-----------------------------------------------------------------------------
(* Properties *)

ThreadState == [pc: {"idle", "bump", "assign", "announce", "write"}, val: Nat]

(* Every variable keeps its type; in particular an event in circulation always
   names a real run (incarnation at least 1) and a state of VALID_EVENT_STATES. *)
TypeOK ==
    /\ disk \in [Node -> Nat]
    /\ up \in [Node -> BOOLEAN]
    /\ inc \in [Node -> Nat]
    /\ leavePc \in [Node -> {"no", "begun", "built", "announced", "done"}]
    /\ leftInc \in [Node -> Nat]
    /\ rec \in [Node -> [Node -> Record]]
    /\ joined \in [Node -> BOOLEAN]
    /\ probe \in [Node -> Node \cup {Idle, Picking}]
    /\ refute \in [Node -> [Thread -> ThreadState]]
    /\ net \in SUBSET Event

(* Nobody, in memory or on the wire, ever knows an incarnation that its owner
   has not persisted (load_for_startup and bump_above write the identity file
   before the value is used), whatever races, crashes and restarts happen. *)
PersistedFirst ==
    /\ \A e \in net : e.inc <= disk[e.node]
    /\ \A n, m \in Node : rec[n][m].inc <= disk[m]
    /\ \A n \in Node : inc[n] <= disk[n] /\ leftInc[n] <= disk[n]
    /\ \A n \in Node, t \in Thread : refute[n][t].val <= disk[n]

(* every LEFT known about m, in a record or on the wire, is below v *)
LeftBelow(m, v) ==
    /\ \A e \in net : e.node = m /\ e.st = LEFT => e.inc < v
    /\ \A n \in Node : rec[n][m].st = LEFT => rec[n][m].inc < v

(* LEFT is never refuted by its subject (_handle_self_event ignores it), so it
   must never be false: while a node runs and is not leaving, every LEFT known
   about it belongs to an incarnation below the one it runs with, and its next
   ALIVE replaces it. *)
NoFalseLeft ==
    \A m \in Node : up[m] /\ ~Leaving(m) => LeftBelow(m, inc[m])

(* apply_event never takes a running node's view of another node backwards:
   not to a lower incarnation, not to a state of lower order within one
   incarnation, and a known member is never forgotten. *)
RecordsAdvance ==
    [][\A n, m \in Node :
          (n # m /\ up[n] /\ up'[n] /\ rec'[n][m] # rec[n][m])
             => \/ rec'[n][m].inc > rec[n][m].inc
                \/ rec'[n][m].inc = rec[n][m].inc /\ rec'[n][m].st > rec[n][m].st]_vars

(* "un ALIVE de una ejecucion nueva sustituye el LEFT de la anterior": the
   incarnation a process starts with is above everything recorded or in
   flight about its earlier runs, refutations in progress at a crash included. *)
FreshRunSupersedes ==
    [][\A n \in Node : ~up[n] /\ up'[n] =>
          /\ \A e \in net : e.node = n => e.inc < inc'[n]
          /\ \A m \in Node : m # n => rec[m][n].inc < inc'[n]]_vars

=============================================================================
