--------------------------- MODULE MembershipProofs ---------------------------
(***************************************************************************)
(* Proofs of the safety properties of Membership, for every set of nodes   *)
(* and handler threads and every bound on incarnations.                    *)
(*                                                                         *)
(* The properties are not inductive alone.  Type correctness of the events *)
(* on the wire needs Grounded: whatever an action reads to build an event  *)
(* already has an incarnation of at least 1.  NoFalseLeft needs            *)
(* PendingAboveLeft: a thread that has persisted a new incarnation and not *)
(* yet assigned it holds a value above every LEFT known of its node.       *)
(***************************************************************************)
EXTENDS Membership, TLAPS

GroundedRun == \A n \in Node : up[n] => inc[n] # 0

GroundedRec ==
    /\ \A n, m \in Node : rec[n][m].st # UNKNOWN => rec[n][m].inc # 0
    /\ \A n \in Node : rec[n][n].st # SUSPECT

GroundedProbe ==
    \A n \in Node :
        /\ probe[n] # Idle => up[n]
        /\ probe[n] \in Node => probe[n] # n /\ rec[n][probe[n]].st # UNKNOWN

GroundedThread ==
    \A n \in Node, t \in Thread :
        refute[n][t].pc # "idle" => up[n] /\ refute[n][t].val # 0

GroundedLeave ==
    \A n \in Node :
        /\ Leaving(n) => up[n]
        /\ leavePc[n] \in {"built", "announced", "done"} => leftInc[n] # 0

Grounded == GroundedRun /\ GroundedRec /\ GroundedProbe /\ GroundedThread /\ GroundedLeave

PendingAboveLeft ==
    \A m \in Node, t \in Thread :
        (up[m] /\ ~Leaving(m) /\ refute[m][t].pc = "assign")
            => LeftBelow(m, refute[m][t].val)

IInv == TypeOK /\ Grounded /\ PersistedFirst /\ NoFalseLeft /\ PendingAboveLeft

(* the variables an action on messages or records leaves alone *)
local == <<disk, up, inc, leavePc, leftInc, refute>>

USE ConstantsAssumption

-----------------------------------------------------------------------------
(* Init establishes the inductive invariant. *)
LEMMA InitIInv == Init => IInv
  <1> SUFFICES ASSUME Init PROVE IInv
    OBVIOUS
  <1> USE DEF Init, NoRecord, NoThread, Leaving, UNKNOWN, ALIVE, SUSPECT, LEFT
  <1>1. TypeOK
    BY DEF TypeOK, Record, ThreadState
  <1>2. Grounded
    BY DEF Grounded, GroundedRun, GroundedRec, GroundedProbe, GroundedThread, GroundedLeave
  <1>3. PersistedFirst
    BY DEF PersistedFirst
  <1>4. NoFalseLeft /\ PendingAboveLeft
    BY DEF NoFalseLeft, PendingAboveLeft
  <1> QED
    BY <1>1, <1>2, <1>3, <1>4 DEF IInv

(* Updating a function at one argument keeps its type. *)
LEMMA ExceptType ==
  ASSUME NEW D, NEW R, NEW f \in [D -> R], NEW d \in D, NEW v \in R
  PROVE  [f EXCEPT ![d] = v] \in [D -> R]
  OBVIOUS

(* Updating a function of functions at one argument of each keeps its type. *)
LEMMA NestedExceptType ==
  ASSUME NEW D, NEW E, NEW R, NEW f \in [D -> [E -> R]], NEW d \in D, NEW x \in E, NEW v \in R
  PROVE  [f EXCEPT ![d][x] = v] \in [D -> [E -> R]]
  <1>1. f[d] \in [E -> R]
    OBVIOUS
  <1>2. [f[d] EXCEPT ![x] = v] \in [E -> R]
    BY <1>1, ExceptType
  <1> QED
    BY <1>2, ExceptType

(* An incarnation above the persisted one is above every LEFT. *)
LEMMA AboveDisk ==
  ASSUME TypeOK, PersistedFirst, NEW m \in Node, NEW v \in Nat, v > disk[m]
  PROVE  LeftBelow(m, v)
  <1>1. \A e \in net : e.node = m => e.inc < v
    BY DEF TypeOK, PersistedFirst, Event
  <1>2. \A n \in Node : rec[n][m].inc < v
    BY DEF TypeOK, PersistedFirst, Record
  <1> QED
    BY <1>1, <1>2 DEF LeftBelow

(* Putting persisted ALIVE events into messages preserves the invariant. *)
LEMMA SendPreserves ==
  ASSUME IInv, NEW S \in SUBSET Event,
         \A e \in S : e.st = ALIVE /\ e.inc <= disk[e.node],
         net' = net \cup S,
         UNCHANGED <<disk, up, inc, leavePc, leftInc, rec, joined, probe, refute>>
  PROVE  IInv'
  <1> USE DEF IInv
  <1>1. TypeOK'
    BY DEF TypeOK
  <1>2. Grounded'
    BY DEF Grounded, GroundedRun, GroundedRec, GroundedProbe, GroundedThread,
           GroundedLeave, Leaving
  <1>3. PersistedFirst'
    BY DEF PersistedFirst
  <1>4. \A m \in Node, v \in Nat : LeftBelow(m, v) => LeftBelow(m, v)'
    BY DEF LeftBelow, ALIVE, LEFT
  <1>5. NoFalseLeft'
    BY <1>4 DEF NoFalseLeft, Leaving, TypeOK
  <1>6. PendingAboveLeft'
    BY <1>4 DEF PendingAboveLeft, Leaving, TypeOK, ThreadState
  <1> QED
    BY <1>1, <1>2, <1>3, <1>5, <1>6

(* Applying a persisted event about another node preserves the invariant; a
   LEFT is only ever applied from the wire. *)
LEMMA ApplyPreserves ==
  ASSUME IInv, NEW n \in Node, up[n], NEW e \in Event, e.node # n,
         e.inc <= disk[e.node], e.st = LEFT => e \in net,
         ApplyEvent(n, e), UNCHANGED local,
         probe' \in [Node -> Node \cup {Idle, Picking}],
         \A k \in Node : probe'[k] = probe[k] \/ (k = n /\ probe'[k] = Idle)
  PROVE  IInv'
  <1> USE DEF IInv, local
  <1> DEFINE r == [inc |-> e.inc, st |-> e.st]
  <1>1. r \in Record /\ r.st # UNKNOWN /\ r.inc # 0
    BY DEF Event, Record, UNKNOWN, ALIVE, LEFT
  <1>2. net' \in SUBSET Event /\ rec' \in [Node -> [Node -> Record]]
        /\ joined' \in [Node -> BOOLEAN]
    <2>1. e.node \in Node
      BY DEF Event
    <2>2. net' \in SUBSET Event
      BY DEF ApplyEvent, TypeOK
    <2>3. rec' \in [Node -> [Node -> Record]]
      <3>1. rec' = rec \/ rec' = [rec EXCEPT ![n][e.node] = r]
        BY DEF ApplyEvent
      <3>2. rec \in [Node -> [Node -> Record]] /\ r \in Record
        BY <1>1 DEF TypeOK
      <3> HIDE DEF r
      <3> QED
        <4>1. [rec EXCEPT ![n][e.node] = r] \in [Node -> [Node -> Record]]
          BY ONLY n \in Node, <2>1, <3>2, NestedExceptType, Zenon
        <4> QED
          BY <3>1, <3>2, <4>1
    <2>4. joined' \in [Node -> BOOLEAN]
      <3>1. (joined[n] \/ e.st = ALIVE) \in BOOLEAN
        OBVIOUS
      <3> QED
        BY <3>1, Zenon DEF ApplyEvent, TypeOK
    <2> QED
      BY <2>2, <2>3, <2>4
  <1>3. \A x \in net' : x \in net \/ x = e
    BY DEF ApplyEvent
  <1>4. \A k, m \in Node : rec'[k][m] = rec[k][m] \/ (k = n /\ m = e.node /\ rec'[k][m] = r)
    BY DEF ApplyEvent, TypeOK, Record
  <1>5. TypeOK'
    BY <1>2 DEF TypeOK
  <1>6. Grounded'
    <2>1. GroundedRec'
      BY <1>1, <1>4 DEF Grounded, GroundedRec
    <2>2. \A k, m \in Node : rec[k][m].st # UNKNOWN => rec'[k][m].st # UNKNOWN
      BY <1>1, <1>4
    <2>3. GroundedProbe'
      BY <2>2 DEF Grounded, GroundedProbe
    <2>4. GroundedRun' /\ GroundedThread' /\ GroundedLeave'
      BY DEF Grounded, GroundedRun, GroundedThread, GroundedLeave, Leaving
    <2> QED
      BY <2>1, <2>3, <2>4 DEF Grounded
  <1>7. PersistedFirst'
    <2>1. \A x \in net' : x.inc <= disk[x.node]
      BY <1>3 DEF PersistedFirst
    <2>2. \A k, m \in Node : rec'[k][m].inc <= disk[m]
      BY <1>4 DEF PersistedFirst
    <2> QED
      BY <2>1, <2>2 DEF PersistedFirst
  <1>8. \A m \in Node, v \in Nat : LeftBelow(m, v) => LeftBelow(m, v)'
    <2> SUFFICES ASSUME NEW m \in Node, NEW v \in Nat, LeftBelow(m, v)
                 PROVE  LeftBelow(m, v)'
      OBVIOUS
    <2>1. \A x \in net' : x.node = m /\ x.st = LEFT => x.inc < v
      BY <1>3 DEF LeftBelow
    <2>2. \A k \in Node : rec'[k][m].st = LEFT => rec'[k][m].inc < v
      BY <1>4 DEF LeftBelow
    <2> QED
      BY <2>1, <2>2 DEF LeftBelow
  <1>9. NoFalseLeft'
    BY <1>8 DEF NoFalseLeft, Leaving, TypeOK
  <1>10. PendingAboveLeft'
    BY <1>8 DEF PendingAboveLeft, Leaving, TypeOK, ThreadState
  <1> QED
    BY <1>5, <1>6, <1>7, <1>9, <1>10

(* A member event has the fields it was built from. *)
LEMMA MemberEventType ==
  ASSUME NEW n \in Node, NEW i \in Nat \ {0}, NEW s \in ALIVE..LEFT
  PROVE  /\ MemberEvent(n, i, s) \in Event
         /\ MemberEvent(n, i, s).node = n
         /\ MemberEvent(n, i, s).inc = i
         /\ MemberEvent(n, i, s).st = s
  BY DEF MemberEvent, Event

-----------------------------------------------------------------------------
(* Messages out: everything a node says about itself or about its eligible
   members is persisted. *)
LEMMA SendSelf ==
  ASSUME IInv, NEW n \in Node, up[n], net' = net \cup {MemberEvent(n, inc[n], ALIVE)},
         UNCHANGED <<disk, up, inc, leavePc, leftInc, rec, joined, probe, refute>>
  PROVE  IInv'
  <1> USE DEF IInv
  <1>1. inc[n] \in Nat \ {0} /\ inc[n] <= disk[n]
    BY DEF TypeOK, Grounded, GroundedRun, PersistedFirst
  <1>2. ALIVE \in ALIVE..LEFT
    BY DEF ALIVE, LEFT
  <1> DEFINE S == {MemberEvent(n, inc[n], ALIVE)}
  <1>3. S \in SUBSET Event /\ \A e \in S : e.st = ALIVE /\ e.inc <= disk[e.node]
    BY <1>1, <1>2, MemberEventType
  <1>4. net' = net \cup S
    OBVIOUS
  <1> HIDE DEF S
  <1> QED
    BY <1>3, <1>4, SendPreserves

(* The answer of the Join handler keeps the inductive invariant: it says
   nothing that is not in the view of the node that answers. *)
LEMMA JoinReplyPreserves ==
  ASSUME IInv, NEW n \in Node, JoinReply(n)
  PROVE  IInv'
  <1> USE DEF IInv
  <1>1. ASSUME NEW m \in EligibleMembers(n)
        PROVE  LET e == MemberEvent(m, rec[n][m].inc, ALIVE)
               IN e \in Event /\ e.st = ALIVE /\ e.inc <= disk[e.node]
    <2>1. m \in Node /\ rec[n][m].inc \in Nat \ {0} /\ rec[n][m].inc <= disk[m]
      BY DEF EligibleMembers, TypeOK, Record, Grounded, GroundedRec, PersistedFirst,
             ALIVE, UNKNOWN
    <2> QED
      BY <2>1, MemberEventType DEF ALIVE, LEFT
  <1>2. SnapshotEvents(n) \in SUBSET Event
        /\ \A e \in SnapshotEvents(n) : e.st = ALIVE /\ e.inc <= disk[e.node]
    BY <1>1 DEF SnapshotEvents
  <1> QED
    BY <1>2, SendPreserves DEF JoinReply

(* Messages in and verdicts of the SWIM round. *)
LEMMA DeliverPreserves ==
  ASSUME IInv, NEW n \in Node, NEW e \in net, Deliver(n, e)
  PROVE  IInv'
  <1> USE DEF IInv
  <1>1. e \in Event /\ e.inc <= disk[e.node] /\ e.node # n /\ up[n]
    BY DEF TypeOK, PersistedFirst, Deliver
  <1>2. ApplyEvent(n, e) /\ UNCHANGED local /\ probe' = probe
    BY DEF Deliver, local
  <1>3. probe' \in [Node -> Node \cup {Idle, Picking}]
    BY <1>2 DEF TypeOK
  <1> HIDE DEF IInv
  <1> QED
    BY <1>1, <1>2, <1>3, ApplyPreserves

(* A failed probe, which makes a peer SUSPECT, keeps the inductive
   invariant: it repeats an incarnation the prober already knew. *)
LEMMA ProbeFailedPreserves ==
  ASSUME IInv, NEW n \in Node, ProbeFailed(n)
  PROVE  IInv'
  <1> USE DEF IInv
  <1> DEFINE m == probe[n]
             e == MemberEvent(m, rec[n][m].inc, SUSPECT)
  <1>1. m \in Node /\ m # n /\ up[n]
    BY DEF ProbeFailed, Grounded, GroundedProbe
  <1>2. rec[n][m].inc \in Nat \ {0} /\ rec[n][m].inc <= disk[m]
    BY <1>1 DEF TypeOK, Record, Grounded, GroundedProbe, GroundedRec, PersistedFirst
  <1>3. e \in Event /\ e.node # n /\ e.inc <= disk[e.node] /\ e.st # LEFT
    BY <1>1, <1>2, MemberEventType DEF ALIVE, SUSPECT, LEFT
  <1>4. ApplyEvent(n, e) /\ UNCHANGED local /\ probe' = [probe EXCEPT ![n] = Idle]
    BY DEF ProbeFailed, local
  <1>5. /\ probe' \in [Node -> Node \cup {Idle, Picking}]
        /\ \A k \in Node : probe'[k] = probe[k] \/ (k = n /\ probe'[k] = Idle)
    BY <1>4 DEF TypeOK
  <1> HIDE DEF e, IInv
  <1> QED
    BY <1>1, <1>3, <1>4, <1>5, ApplyPreserves

(* A suspicion that times out into DEAD keeps the inductive invariant. *)
LEMMA ExpireSuspectPreserves ==
  ASSUME IInv, NEW n \in Node, NEW m \in Node, ExpireSuspect(n, m)
  PROVE  IInv'
  <1> USE DEF IInv
  <1> DEFINE e == MemberEvent(m, rec[n][m].inc, DEAD)
  <1>1. m # n /\ up[n]
    BY DEF ExpireSuspect, Grounded, GroundedProbe, GroundedRec
  <1>2. rec[n][m].inc \in Nat \ {0} /\ rec[n][m].inc <= disk[m]
    BY DEF ExpireSuspect, TypeOK, Record, Grounded, GroundedRec, PersistedFirst, UNKNOWN, SUSPECT
  <1>3. e \in Event /\ e.node # n /\ e.inc <= disk[e.node] /\ e.st # LEFT
    BY <1>1, <1>2, MemberEventType DEF ALIVE, DEAD, LEFT
  <1>4. ApplyEvent(n, e) /\ UNCHANGED local /\ probe' = probe
    BY DEF ExpireSuspect, local
  <1>5. probe' \in [Node -> Node \cup {Idle, Picking}]
    BY <1>4 DEF TypeOK
  <1> HIDE DEF e, IInv
  <1> QED
    BY <1>1, <1>3, <1>4, <1>5, ApplyPreserves

(* The steps of a round that only move the probe. *)
LEMMA ProbePreserves ==
  ASSUME IInv, NEW n \in Node, BeginRound(n) \/ PickTarget(n) \/ ProbeAcked(n)
  PROVE  IInv'
  <1> USE DEF IInv
  <1>1. UNCHANGED <<disk, up, inc, leavePc, leftInc, rec, joined, refute, net>>
    BY DEF BeginRound, PickTarget, ProbeAcked
  <1>2. PICK p \in Node \cup {Idle, Picking} :
           /\ probe' = [probe EXCEPT ![n] = p]
           /\ p # Idle => up[n]
           /\ p \in Node => p # n /\ rec[n][p].st # UNKNOWN
    <2>1. CASE BeginRound(n)
      BY <2>1 DEF BeginRound
    <2>2. CASE PickTarget(n)
      BY <2>2 DEF PickTarget, Peers, Grounded, GroundedProbe, ALIVE, UNKNOWN
    <2>3. CASE ProbeAcked(n)
      BY <2>3 DEF ProbeAcked
    <2> QED
      BY <2>1, <2>2, <2>3
  <1>3. TypeOK'
    BY <1>1, <1>2 DEF TypeOK
  <1>4. GroundedProbe'
    BY <1>1, <1>2 DEF Grounded, GroundedProbe, TypeOK
  <1>5. Grounded'
    BY <1>1, <1>4 DEF Grounded, GroundedRun, GroundedRec, GroundedThread, GroundedLeave, Leaving
  <1>6. PersistedFirst' /\ NoFalseLeft' /\ PendingAboveLeft'
    BY <1>1 DEF PersistedFirst, NoFalseLeft, PendingAboveLeft, LeftBelow, Leaving
  <1> QED
    BY <1>3, <1>5, <1>6

-----------------------------------------------------------------------------
(* A step that makes no new LEFT about m keeps every bound on the known ones. *)
LEMMA LeftBelowKept ==
  ASSUME NEW m \in Node, NEW v, LeftBelow(m, v),
         \A e \in net' : e \in net \/ e.st # LEFT \/ e.node # m,
         \A k \in Node : rec'[k][m] = rec[k][m] \/ rec'[k][m].st # LEFT
  PROVE  LeftBelow(m, v)'
  BY DEF LeftBelow

(* The record of an unknown member and an idle handler thread. *)
LEMMA EmptyFields ==
  /\ NoRecord \in Record /\ NoRecord.inc = 0 /\ NoRecord.st = UNKNOWN
  /\ NoThread \in ThreadState /\ NoThread.val = 0 /\ NoThread.pc = "idle"
  BY DEF NoRecord, NoThread, Record, ThreadState, UNKNOWN, LEFT

(* The process starts and ends. *)
LEMMA StartPreserves ==
  ASSUME IInv, NEW n \in Node, Start(n)
  PROVE  IInv'
  <1> USE DEF IInv
  <1>1. /\ ~up[n] /\ disk' = [disk EXCEPT ![n] = disk[n] + 1]
        /\ up' = [up EXCEPT ![n] = TRUE] /\ inc' = [inc EXCEPT ![n] = disk[n] + 1]
        /\ UNCHANGED <<leavePc, leftInc, joined, probe, refute, net>>
    BY DEF Start
  <1>2. disk[n] \in Nat /\ \A k \in Node : disk'[k] \in Nat /\ disk[k] <= disk'[k]
    BY <1>1 DEF TypeOK
  <1>3. /\ rec' \in [Node -> [Node -> Record]]
        /\ \A k, m \in Node : \/ rec'[k][m] = rec[k][m] /\ k # n
                              \/ k = n /\ m # n /\ rec'[k][m] = NoRecord
                              \/ k = n /\ m = n /\ rec'[k][m] = [inc |-> disk[n] + 1, st |-> ALIVE]
    BY <1>2 DEF Start, TypeOK, Record, NoRecord, UNKNOWN, ALIVE, LEFT
  <1>10. ASSUME NEW k \in Node, NEW m \in Node
         PROVE  \/ rec'[k][m].inc = rec[k][m].inc /\ rec'[k][m].st = rec[k][m].st
                \/ rec'[k][m].inc = 0 /\ rec'[k][m].st = UNKNOWN
                \/ m = n /\ rec'[k][m].inc = disk[n] + 1 /\ rec'[k][m].st = ALIVE
    <2>1. [inc |-> disk[n] + 1, st |-> ALIVE].inc = disk[n] + 1
          /\ [inc |-> disk[n] + 1, st |-> ALIVE].st = ALIVE
      OBVIOUS
    <2> QED
      BY <1>3, <2>1, EmptyFields, Zenon
  <1>4. TypeOK'
    BY <1>1, <1>2, <1>3 DEF TypeOK
  <1>5. Grounded'
    <2>0. GroundedRun'
      BY <1>1, <1>2 DEF Grounded, GroundedRun, TypeOK
    <2>1. GroundedRec'
      BY <1>2, <1>10 DEF Grounded, GroundedRec, UNKNOWN, ALIVE, SUSPECT
    <2>2. probe[n] = Idle
      BY <1>1 DEF Grounded, GroundedProbe
    <2>3. GroundedProbe'
      BY <1>1, <1>3, <2>2 DEF Grounded, GroundedProbe, TypeOK
    <2>4. GroundedThread' /\ GroundedLeave'
      BY <1>1 DEF Grounded, GroundedThread, GroundedLeave, Leaving, TypeOK
    <2> QED
      BY <2>0, <2>1, <2>3, <2>4 DEF Grounded
  <1>6. PersistedFirst'
    <2>1. \A e \in net' : e.inc <= disk'[e.node]
      BY <1>1, <1>2 DEF PersistedFirst, TypeOK, Event
    <2>2. \A k, m \in Node : rec'[k][m].inc <= disk'[m]
      <3> TAKE k \in Node, m \in Node
      <3>1. rec[k][m].inc \in Nat /\ rec[k][m].inc <= disk[m] /\ disk[m] <= disk'[m]
            /\ disk[m] \in Nat /\ disk'[m] \in Nat /\ (m = n => disk'[m] = disk[n] + 1)
        BY <1>1, <1>2 DEF PersistedFirst, TypeOK, Record
      <3> QED
        BY <1>10, <3>1
    <2>3. \A k \in Node : inc'[k] <= disk'[k] /\ leftInc'[k] <= disk'[k]
      BY <1>1, <1>2 DEF PersistedFirst, TypeOK
    <2>4. \A k \in Node, t \in Thread : refute'[k][t].val <= disk'[k]
      BY <1>1, <1>2 DEF PersistedFirst, TypeOK, ThreadState
    <2> QED
      BY <2>1, <2>2, <2>3, <2>4 DEF PersistedFirst
  <1>7. \A m \in Node, v \in Nat : LeftBelow(m, v) => LeftBelow(m, v)'
    BY <1>1, <1>3, LeftBelowKept DEF NoRecord, UNKNOWN, ALIVE, LEFT
  <1>8. NoFalseLeft'
    <2> SUFFICES ASSUME NEW m \in Node, up'[m], ~Leaving(m)'
                 PROVE  LeftBelow(m, inc[m])'
      BY DEF NoFalseLeft
    <2>1. inc'[m] \in Nat
      BY <1>4 DEF TypeOK
    <2>2. LeftBelow(m, inc'[m])
      <3>1. CASE m = n
        BY <1>1, <1>2, <3>1, AboveDisk DEF TypeOK
      <3>2. CASE m # n
        BY <1>1, <3>2 DEF NoFalseLeft, Leaving, TypeOK
      <3> QED
        BY <3>1, <3>2
    <2> QED
      BY <1>7, <2>1, <2>2
  <1>9. PendingAboveLeft'
    <2> SUFFICES ASSUME NEW m \in Node, NEW t \in Thread, up'[m], ~Leaving(m)',
                        refute'[m][t].pc = "assign"
                 PROVE  LeftBelow(m, refute[m][t].val)'
      BY DEF PendingAboveLeft
    <2>1. m # n
      BY <1>1 DEF Grounded, GroundedThread
    <2> QED
      BY <1>1, <1>7, <2>1 DEF PendingAboveLeft, Leaving, TypeOK, ThreadState
  <1> QED
    BY <1>4, <1>5, <1>6, <1>8, <1>9

(* A node that stops keeps the inductive invariant: what is on its disk
   stays. *)
LEMMA StopPreserves ==
  ASSUME IInv, NEW n \in Node, Stop(n)
  PROVE  IInv'
  <1> USE DEF IInv
  <1>1. /\ up' = [up EXCEPT ![n] = FALSE] /\ inc' = [inc EXCEPT ![n] = 0]
        /\ leavePc' = [leavePc EXCEPT ![n] = "no"] /\ leftInc' = [leftInc EXCEPT ![n] = 0]
        /\ probe' = [probe EXCEPT ![n] = Idle] /\ joined' = [joined EXCEPT ![n] = FALSE]
        /\ UNCHANGED <<disk, net>>
    BY DEF Stop
  <1>2. /\ rec' \in [Node -> [Node -> Record]]
        /\ \A k, m \in Node : IF k = n THEN rec'[k][m] = NoRecord ELSE rec'[k][m] = rec[k][m]
    BY DEF Stop, TypeOK, Record, NoRecord, UNKNOWN, LEFT
  <1>3. /\ refute' \in [Node -> [Thread -> ThreadState]]
        /\ \A k \in Node, t \in Thread :
              IF k = n THEN refute'[k][t] = NoThread ELSE refute'[k][t] = refute[k][t]
    BY DEF Stop, TypeOK, ThreadState, NoThread
  <1>4. TypeOK'
    BY <1>1, <1>2, <1>3 DEF TypeOK
  <1>5. Grounded'
    <2>0. GroundedRun'
      BY <1>1 DEF Grounded, GroundedRun, TypeOK
    <2>1. GroundedRec'
      BY <1>2, EmptyFields DEF Grounded, GroundedRec, UNKNOWN, SUSPECT
    <2>2. GroundedProbe'
      BY <1>1, <1>2 DEF Grounded, GroundedProbe, TypeOK
    <2>3. GroundedThread' /\ GroundedLeave'
      BY <1>1, <1>3 DEF Grounded, GroundedThread, GroundedLeave, Leaving, TypeOK, NoThread
    <2> QED
      BY <2>0, <2>1, <2>2, <2>3 DEF Grounded
  <1>6. PersistedFirst'
    <2>1. \A k, m \in Node : rec'[k][m].inc <= disk'[m]
      <3> TAKE k \in Node, m \in Node
      <3>1. disk'[m] \in Nat /\ rec[k][m].inc <= disk'[m]
        BY <1>1 DEF PersistedFirst, TypeOK
      <3>2. rec'[k][m].inc = 0 \/ rec'[k][m].inc = rec[k][m].inc
        BY <1>2, EmptyFields, Zenon
      <3> QED
        BY <3>1, <3>2
    <2>2. \A k \in Node, t \in Thread : refute'[k][t].val <= disk'[k]
      <3> TAKE k \in Node, t \in Thread
      <3>1. disk'[k] \in Nat /\ refute[k][t].val <= disk'[k]
        BY <1>1 DEF PersistedFirst, TypeOK
      <3>2. refute'[k][t].val = 0 \/ refute'[k][t].val = refute[k][t].val
        BY <1>3, EmptyFields, Zenon
      <3> QED
        BY <3>1, <3>2
    <2> QED
      BY <1>1, <2>1, <2>2 DEF PersistedFirst, TypeOK
  <1>7. \A m \in Node, v \in Nat : LeftBelow(m, v) => LeftBelow(m, v)'
    BY <1>1, <1>2, LeftBelowKept DEF NoRecord, UNKNOWN, LEFT
  <1>8. NoFalseLeft'
    BY <1>1, <1>7 DEF NoFalseLeft, Leaving, TypeOK
  <1>9. PendingAboveLeft'
    BY <1>1, <1>3, <1>7 DEF PendingAboveLeft, Leaving, TypeOK, ThreadState
  <1> QED
    BY <1>4, <1>5, <1>6, <1>8, <1>9

-----------------------------------------------------------------------------
(* The steps of a handler that change only its own thread state. *)
LEMMA ThreadPreserves ==
  ASSUME IInv, NEW n \in Node, NEW t \in Thread, NEW s \in ThreadState,
         refute' = [refute EXCEPT ![n][t] = s],
         s.pc # "idle" => up[n] /\ s.val # 0,
         s.val <= disk[n],
         s.pc # "assign",
         UNCHANGED <<disk, up, inc, leavePc, leftInc, rec, joined, probe, net>>
  PROVE  IInv'
  <1> USE DEF IInv
  <1>1. refute' \in [Node -> [Thread -> ThreadState]]
    <2>1. refute \in [Node -> [Thread -> ThreadState]]
      BY DEF TypeOK
    <2> QED
      BY ONLY n \in Node, t \in Thread, s \in ThreadState, <2>1, NestedExceptType,
              refute' = [refute EXCEPT ![n][t] = s], Zenon
  <1>2. \A k \in Node, u \in Thread :
          refute'[k][u] = IF k = n /\ u = t THEN s ELSE refute[k][u]
    BY DEF TypeOK
  <1>3. TypeOK'
    BY <1>1 DEF TypeOK
  <1>4. Grounded'
    <2>1. GroundedThread'
      BY <1>2 DEF Grounded, GroundedThread
    <2> QED
      BY <2>1 DEF Grounded, GroundedRun, GroundedRec, GroundedProbe, GroundedLeave, Leaving
  <1>5. PersistedFirst'
    BY <1>2 DEF PersistedFirst
  <1>6. NoFalseLeft'
    BY DEF NoFalseLeft, LeftBelow, Leaving
  <1>7. PendingAboveLeft'
    BY <1>2 DEF PendingAboveLeft, LeftBelow, Leaving
  <1> QED
    BY <1>3, <1>4, <1>5, <1>6, <1>7

(* An event about the node itself keeps the inductive invariant: the
   incarnation it may ask for is still to be persisted. *)
LEMMA SelfEventPreserves ==
  ASSUME IInv, NEW n \in Node, NEW t \in Thread, NEW e \in net, SelfEvent(n, t, e)
  PROVE  IInv'
  <1> USE DEF IInv
  <1> DEFINE s == [pc |-> "bump", val |-> e.inc]
  <1>1. e.inc \in Nat \ {0} /\ e.inc <= disk[n]
    BY DEF TypeOK, Event, PersistedFirst, SelfEvent
  <1>2. s \in ThreadState /\ s.pc = "bump" /\ s.val = e.inc
    BY <1>1 DEF ThreadState
  <1>3. up[n] /\ refute' = [refute EXCEPT ![n][t] = s]
        /\ UNCHANGED <<disk, up, inc, leavePc, leftInc, rec, joined, probe, net>>
    BY DEF SelfEvent
  <1> HIDE DEF s, IInv
  <1> QED
    BY <1>1, <1>2, <1>3, ThreadPreserves

(* _announce_alive, which gives up when the node leaves and takes its
   persisted incarnation otherwise, keeps the inductive invariant. *)
LEMMA AnnounceAlivePreserves ==
  ASSUME IInv, NEW n \in Node, NEW t \in Thread, AnnounceAlive(n, t)
  PROVE  IInv'
  <1> USE DEF IInv
  <1> DEFINE s == IF Leaving(n) THEN NoThread ELSE [pc |-> "write", val |-> inc[n]]
  <1>1. up[n] /\ inc[n] \in Nat \ {0} /\ inc[n] <= disk[n] /\ disk[n] \in Nat
    BY DEF AnnounceAlive, Grounded, GroundedThread, GroundedRun, TypeOK, PersistedFirst
  <1>2. /\ s \in ThreadState /\ s.pc # "assign" /\ s.val <= disk[n]
        /\ s.pc # "idle" => s.val # 0
    BY <1>1 DEF ThreadState, NoThread
  <1>3. refute' = [refute EXCEPT ![n][t] = s]
        /\ UNCHANGED <<disk, up, inc, leavePc, leftInc, rec, joined, probe, net>>
    BY DEF AnnounceAlive
  <1> HIDE DEF s, IInv
  <1> QED
    BY <1>1, <1>2, <1>3, ThreadPreserves

(* bump_above: the new value is above the persisted one, hence above every
   LEFT, and it is persisted in the same step. *)
LEMMA BumpAbovePreserves ==
  ASSUME IInv, NEW n \in Node, NEW t \in Thread, BumpAbove(n, t)
  PROVE  IInv'
  <1> USE DEF IInv
  <1>1. PICK v \in Nat : /\ v > disk[n]
                         /\ disk' = [disk EXCEPT ![n] = v]
                         /\ refute' = [refute EXCEPT ![n][t] = [pc |-> "assign", val |-> v]]
                         /\ UNCHANGED <<up, inc, leavePc, leftInc, rec, joined, probe, net>>
    <2> DEFINE next == (IF disk[n] > refute[n][t].val THEN disk[n] ELSE refute[n][t].val) + 1
    <2>1. disk[n] \in Nat /\ refute[n][t].val \in Nat
      BY DEF TypeOK, ThreadState
    <2>2. next \in Nat /\ next > disk[n]
      BY <2>1
    <2>3. /\ disk' = [disk EXCEPT ![n] = next]
          /\ refute' = [refute EXCEPT ![n][t] = [pc |-> "assign", val |-> next]]
          /\ UNCHANGED <<up, inc, leavePc, leftInc, rec, joined, probe, net>>
      BY DEF BumpAbove
    <2> HIDE DEF next
    <2> QED
      BY <2>2, <2>3, Zenon
  <1>2. up[n]
    BY DEF BumpAbove, Grounded, GroundedThread
  <1> DEFINE s == [pc |-> "assign", val |-> v]
  <1>3. s \in ThreadState /\ s.pc = "assign" /\ s.val = v
    BY DEF ThreadState
  <1>4. refute' = [refute EXCEPT ![n][t] = s]
    BY <1>1
  <1> HIDE DEF s
  <1>5. refute' \in [Node -> [Thread -> ThreadState]]
    <2>1. refute \in [Node -> [Thread -> ThreadState]]
      BY DEF TypeOK
    <2> QED
      BY ONLY n \in Node, t \in Thread, <1>3, <1>4, <2>1, NestedExceptType, Zenon
  <1>6. \A k \in Node, u \in Thread :
          refute'[k][u] = IF k = n /\ u = t THEN s ELSE refute[k][u]
    BY <1>4 DEF TypeOK
  <1>7. disk[n] \in Nat /\ disk'[n] = v
        /\ \A k \in Node : disk[k] \in Nat /\ disk'[k] \in Nat /\ disk[k] <= disk'[k]
    BY <1>1 DEF TypeOK
  <1>8. TypeOK'
    BY <1>1, <1>5 DEF TypeOK
  <1>9. Grounded'
    <2>1. GroundedThread'
      BY <1>1, <1>2, <1>3, <1>6, <1>7 DEF Grounded, GroundedThread
    <2> QED
      BY <1>1, <2>1 DEF Grounded, GroundedRun, GroundedRec, GroundedProbe, GroundedLeave, Leaving
  <1>10. PersistedFirst'
    <2>1. \A e \in net' : e.inc <= disk'[e.node]
      BY <1>1, <1>7 DEF PersistedFirst, TypeOK, Event
    <2>2. \A k, m \in Node : rec'[k][m].inc <= disk'[m]
      BY <1>1, <1>7 DEF PersistedFirst, TypeOK, Record
    <2>3. \A k \in Node : inc'[k] <= disk'[k] /\ leftInc'[k] <= disk'[k]
      BY <1>1, <1>7 DEF PersistedFirst, TypeOK
    <2>4. \A k \in Node, u \in Thread : refute'[k][u].val <= disk'[k]
      <3> TAKE k \in Node, u \in Thread
      <3>1. refute[k][u].val \in Nat /\ refute[k][u].val <= disk[k]
        BY DEF PersistedFirst, TypeOK, ThreadState
      <3>2. CASE k = n /\ u = t
        BY <1>3, <1>6, <1>7, <3>2
      <3>3. CASE ~(k = n /\ u = t)
        BY <1>6, <1>7, <3>1, <3>3
      <3> QED
        BY <3>2, <3>3
    <2> QED
      BY <2>1, <2>2, <2>3, <2>4 DEF PersistedFirst
  <1>11. NoFalseLeft'
    BY <1>1 DEF NoFalseLeft, LeftBelow, Leaving
  <1>12. PendingAboveLeft'
    <2> SUFFICES ASSUME NEW k \in Node, NEW u \in Thread, up'[k], ~Leaving(k)',
                        refute'[k][u].pc = "assign"
                 PROVE  LeftBelow(k, refute[k][u].val)'
      BY DEF PendingAboveLeft
    <2>1. CASE k = n /\ u = t
      <3>1. LeftBelow(n, v)
        BY <1>1, AboveDisk
      <3>2. refute'[k][u].val = v
        BY <1>3, <1>6, <2>1
      <3> QED
        BY <1>1, <2>1, <3>1, <3>2 DEF LeftBelow
    <2>2. CASE ~(k = n /\ u = t)
      BY <1>1, <1>6, <2>2 DEF PendingAboveLeft, LeftBelow, Leaving
    <2> QED
      BY <2>1, <2>2
  <1> QED
    BY <1>8, <1>9, <1>10, <1>11, <1>12

(* The unlocked assignment of self.incarnation may lower it, when a thread that
   bumped earlier assigns later; every value assigned is above every LEFT. *)
LEMMA AssignIncarnationPreserves ==
  ASSUME IInv, NEW n \in Node, NEW t \in Thread, AssignIncarnation(n, t)
  PROVE  IInv'
  <1> USE DEF IInv
  <1> DEFINE s == [refute[n][t] EXCEPT !.pc = "announce"]
  <1>1. refute[n][t] \in ThreadState /\ refute[n][t].val # 0 /\ refute[n][t].val <= disk[n]
        /\ refute[n][t].val \in Nat /\ up[n] /\ refute[n][t].pc = "assign"
    BY DEF AssignIncarnation, TypeOK, ThreadState, Grounded, GroundedThread, PersistedFirst
  <1>2. s \in ThreadState /\ s.pc = "announce" /\ s.val = refute[n][t].val
    BY <1>1 DEF ThreadState
  <1>3. /\ inc' = [inc EXCEPT ![n] = refute[n][t].val]
        /\ UNCHANGED <<disk, up, leavePc, leftInc, rec, joined, probe, net>>
    BY DEF AssignIncarnation
  <1>4. refute' = [refute EXCEPT ![n][t] = s]
    BY DEF AssignIncarnation
  <1> HIDE DEF s
  <1>5. refute' \in [Node -> [Thread -> ThreadState]]
    <2>1. refute \in [Node -> [Thread -> ThreadState]]
      BY DEF TypeOK
    <2> QED
      BY ONLY n \in Node, t \in Thread, <1>2, <1>4, <2>1, NestedExceptType, Zenon
  <1>6. \A k \in Node, u \in Thread :
          /\ refute'[k][u].val = refute[k][u].val
          /\ refute'[k][u].pc = IF k = n /\ u = t THEN "announce" ELSE refute[k][u].pc
    BY <1>2, <1>4 DEF TypeOK
  <1>7. TypeOK'
    BY <1>1, <1>3, <1>5 DEF TypeOK
  <1>8. Grounded'
    <2>1. GroundedThread'
      BY <1>1, <1>3, <1>6 DEF Grounded, GroundedThread
    <2>2. GroundedRun'
      BY <1>1, <1>3 DEF Grounded, GroundedRun, TypeOK
    <2> QED
      BY <1>3, <2>1, <2>2 DEF Grounded, GroundedRec, GroundedProbe, GroundedLeave, Leaving
  <1>9. PersistedFirst'
    BY <1>1, <1>3, <1>6 DEF PersistedFirst, TypeOK
  <1>10. NoFalseLeft'
    <2> SUFFICES ASSUME NEW m \in Node, up'[m], ~Leaving(m)'
                 PROVE  LeftBelow(m, inc[m])'
      BY DEF NoFalseLeft
    <2>1. LeftBelow(m, inc'[m])
      <3>1. CASE m = n
        BY <1>1, <1>3, <3>1 DEF PendingAboveLeft, Leaving, TypeOK
      <3>2. CASE m # n
        BY <1>3, <3>2 DEF NoFalseLeft, Leaving, TypeOK
      <3> QED
        BY <3>1, <3>2
    <2> QED
      BY <1>3, <2>1 DEF LeftBelow
  <1>11. PendingAboveLeft'
    BY <1>3, <1>6 DEF PendingAboveLeft, LeftBelow, Leaving
  <1> QED
    BY <1>7, <1>8, <1>9, <1>10, <1>11

(* _announce_alive writes the own record and one more ALIVE event. *)
LEMMA WriteAlivePreserves ==
  ASSUME IInv, NEW n \in Node, NEW t \in Thread, WriteAlive(n, t)
  PROVE  IInv'
  <1> USE DEF IInv
  <1> DEFINE r == [inc |-> inc[n], st |-> ALIVE]
             e == MemberEvent(n, refute[n][t].val, ALIVE)
  <1>1. up[n] /\ inc[n] \in Nat \ {0} /\ inc[n] <= disk[n]
        /\ refute[n][t].val \in Nat \ {0} /\ refute[n][t].val <= disk[n]
    BY DEF WriteAlive, Grounded, GroundedThread, GroundedRun, TypeOK, ThreadState, PersistedFirst
  <1>2. e \in Event /\ e.node = n /\ e.st = ALIVE /\ e.inc <= disk[n]
    BY <1>1, MemberEventType DEF ALIVE, LEFT
  <1>3. r \in Record /\ r.st = ALIVE /\ r.inc = inc[n]
    BY <1>1 DEF Record, UNKNOWN, ALIVE, LEFT
  <1>4. /\ rec' = [rec EXCEPT ![n][n] = r] /\ net' = net \cup {e}
        /\ refute' = [refute EXCEPT ![n][t] = NoThread]
        /\ UNCHANGED <<disk, up, inc, leavePc, leftInc, joined, probe>>
    BY DEF WriteAlive
  <1> HIDE DEF r, e
  <1>5. rec' \in [Node -> [Node -> Record]] /\ refute' \in [Node -> [Thread -> ThreadState]]
    <2>1. rec \in [Node -> [Node -> Record]] /\ refute \in [Node -> [Thread -> ThreadState]]
      BY DEF TypeOK
    <2> QED
      BY ONLY n \in Node, t \in Thread, <1>3, <1>4, <2>1, EmptyFields, NestedExceptType, Zenon
  <1>6. \A k, m \in Node : rec'[k][m] = IF k = n /\ m = n THEN r ELSE rec[k][m]
    BY <1>4 DEF TypeOK
  <1>7. \A k \in Node, u \in Thread :
          refute'[k][u] = IF k = n /\ u = t THEN NoThread ELSE refute[k][u]
    BY <1>4 DEF TypeOK
  <1>8. TypeOK'
    BY <1>2, <1>4, <1>5 DEF TypeOK
  <1>9. Grounded'
    <2>1. GroundedRec'
      BY <1>1, <1>3, <1>6 DEF Grounded, GroundedRec, ALIVE, SUSPECT
    <2>2. GroundedProbe'
      BY <1>4, <1>6 DEF Grounded, GroundedProbe
    <2>3. GroundedThread'
      BY <1>4, <1>7, EmptyFields DEF Grounded, GroundedThread
    <2> QED
      BY <1>4, <2>1, <2>2, <2>3 DEF Grounded, GroundedRun, GroundedLeave, Leaving
  <1>10. PersistedFirst'
    <2>1. \A x \in net' : x.inc <= disk'[x.node]
      BY <1>2, <1>4 DEF PersistedFirst
    <2>2. \A k, m \in Node : rec'[k][m].inc <= disk'[m]
      BY <1>1, <1>3, <1>4, <1>6 DEF PersistedFirst
    <2>3. \A k \in Node, u \in Thread : refute'[k][u].val <= disk'[k]
      <3> TAKE k \in Node, u \in Thread
      <3>1. disk'[k] \in Nat /\ refute[k][u].val <= disk'[k]
        BY <1>4 DEF PersistedFirst, TypeOK
      <3>2. refute'[k][u].val = 0 \/ refute'[k][u].val = refute[k][u].val
        BY <1>7, EmptyFields, Zenon
      <3> QED
        BY <3>1, <3>2
    <2> QED
      BY <1>4, <2>1, <2>2, <2>3 DEF PersistedFirst
  <1>11. \A m \in Node, v \in Nat : LeftBelow(m, v) => LeftBelow(m, v)'
    BY <1>2, <1>3, <1>4, <1>6, LeftBelowKept DEF ALIVE, LEFT
  <1>12. NoFalseLeft'
    BY <1>4, <1>11 DEF NoFalseLeft, Leaving, TypeOK
  <1>13. PendingAboveLeft'
    BY <1>4, <1>7, <1>11, EmptyFields DEF PendingAboveLeft, Leaving, TypeOK, ThreadState
  <1> QED
    BY <1>8, <1>9, <1>10, <1>12, <1>13

-----------------------------------------------------------------------------
(* leave(): from BeginLeave on the node is leaving, so the LEFT it publishes
   with the incarnation it has is not false. *)
LEMMA LeavePcPreserves ==
  ASSUME IInv, NEW n \in Node, BeginLeave(n) \/ BuildLeft(n) \/ CompleteLeave(n)
  PROVE  IInv'
  <1> USE DEF IInv
  <1>1. UNCHANGED <<disk, up, inc, rec, joined, probe, refute, net>> /\ up[n]
        /\ inc[n] \in Nat \ {0} /\ inc[n] <= disk[n]
    BY DEF BeginLeave, BuildLeft, CompleteLeave, Grounded, GroundedLeave, GroundedRun,
           Leaving, TypeOK, PersistedFirst
  <1>2. PICK p \in {"begun", "built", "done"} :
           /\ leavePc' = [leavePc EXCEPT ![n] = p]
           /\ \/ p = "begun" /\ leftInc' = leftInc
              \/ p = "built" /\ leftInc' = [leftInc EXCEPT ![n] = inc[n]]
              \/ p = "done" /\ leftInc' = leftInc /\ leavePc[n] = "announced"
    BY DEF BeginLeave, BuildLeft, CompleteLeave
  <1>3. TypeOK'
    BY <1>1, <1>2 DEF TypeOK
  <1>4. GroundedLeave'
    BY <1>1, <1>2 DEF Grounded, GroundedLeave, Leaving, TypeOK
  <1>5. Grounded'
    BY <1>1, <1>4 DEF Grounded, GroundedRun, GroundedRec, GroundedProbe, GroundedThread
  <1>6. PersistedFirst'
    BY <1>1, <1>2 DEF PersistedFirst, TypeOK
  <1>7. \A m \in Node : ~Leaving(m)' => ~Leaving(m)
    BY <1>2 DEF Leaving, TypeOK
  <1>8. NoFalseLeft' /\ PendingAboveLeft'
    BY <1>1, <1>7 DEF NoFalseLeft, PendingAboveLeft, LeftBelow
  <1> QED
    BY <1>3, <1>5, <1>6, <1>8

(* The LEFT message of leave() keeps the inductive invariant: it carries
   an incarnation of a run that is ending. *)
LEMMA SendLeavePreserves ==
  ASSUME IInv, NEW n \in Node, SendLeave(n)
  PROVE  IInv'
  <1> USE DEF IInv
  <1> DEFINE e == MemberEvent(n, inc[n], LEFT)
  <1>1. up[n] /\ Leaving(n) /\ inc[n] \in Nat \ {0} /\ inc[n] <= disk[n]
    BY DEF SendLeave, Grounded, GroundedLeave, GroundedRun, Leaving, TypeOK, PersistedFirst
  <1>2. e \in Event /\ e.node = n /\ e.inc <= disk[n]
    BY <1>1, MemberEventType DEF ALIVE, LEFT
  <1>3. net' = net \cup {e}
        /\ UNCHANGED <<disk, up, inc, leavePc, leftInc, rec, joined, probe, refute>>
    BY DEF SendLeave
  <1> HIDE DEF e
  <1>4. TypeOK'
    BY <1>2, <1>3 DEF TypeOK
  <1>5. Grounded'
    BY <1>3 DEF Grounded, GroundedRun, GroundedRec, GroundedProbe, GroundedThread,
                GroundedLeave, Leaving
  <1>6. PersistedFirst'
    BY <1>2, <1>3 DEF PersistedFirst
  <1>7. \A m \in Node, v \in Nat : m # n /\ LeftBelow(m, v) => LeftBelow(m, v)'
    BY <1>2, <1>3, LeftBelowKept
  <1>8. NoFalseLeft'
    BY <1>1, <1>3, <1>7 DEF NoFalseLeft, Leaving, TypeOK
  <1>9. PendingAboveLeft'
    BY <1>1, <1>3, <1>7 DEF PendingAboveLeft, Leaving, TypeOK, ThreadState
  <1> QED
    BY <1>4, <1>5, <1>6, <1>8, <1>9

(* The LEFT record of leave() in the own view keeps the inductive
   invariant. *)
LEMMA WriteLeftPreserves ==
  ASSUME IInv, NEW n \in Node, WriteLeft(n)
  PROVE  IInv'
  <1> USE DEF IInv
  <1> DEFINE r == [inc |-> inc[n], st |-> LEFT]
             e == MemberEvent(n, leftInc[n], LEFT)
  <1>1. up[n] /\ inc[n] \in Nat \ {0} /\ inc[n] <= disk[n]
        /\ leftInc[n] \in Nat \ {0} /\ leftInc[n] <= disk[n]
    BY DEF WriteLeft, Grounded, GroundedLeave, GroundedRun, Leaving, TypeOK, PersistedFirst
  <1>2. e \in Event /\ e.node = n /\ e.inc <= disk[n]
    BY <1>1, MemberEventType DEF ALIVE, LEFT
  <1>3. r \in Record /\ r.st = LEFT /\ r.inc = inc[n]
    BY <1>1 DEF Record, UNKNOWN, LEFT
  <1>4. /\ rec' = [rec EXCEPT ![n][n] = r] /\ net' = net \cup {e}
        /\ leavePc' = [leavePc EXCEPT ![n] = "announced"]
        /\ UNCHANGED <<disk, up, inc, leftInc, joined, probe, refute>>
    BY DEF WriteLeft
  <1> HIDE DEF r, e
  <1>5. rec' \in [Node -> [Node -> Record]]
    <2>1. rec \in [Node -> [Node -> Record]]
      BY DEF TypeOK
    <2> QED
      BY ONLY n \in Node, <1>3, <1>4, <2>1, NestedExceptType, Zenon
  <1>6. \A k, m \in Node : rec'[k][m] = IF k = n /\ m = n THEN r ELSE rec[k][m]
    BY <1>4 DEF TypeOK
  <1>7. Leaving(n)' /\ \A m \in Node : ~Leaving(m)' => ~Leaving(m)
    BY <1>4 DEF Leaving, TypeOK
  <1>8. TypeOK'
    BY <1>2, <1>4, <1>5 DEF TypeOK
  <1>9. Grounded'
    <2>1. GroundedRec'
      BY <1>1, <1>3, <1>6 DEF Grounded, GroundedRec, SUSPECT, LEFT
    <2>2. GroundedProbe'
      BY <1>4, <1>6 DEF Grounded, GroundedProbe
    <2>3. GroundedLeave'
      BY <1>1, <1>4 DEF Grounded, GroundedLeave, Leaving, TypeOK
    <2> QED
      BY <1>4, <2>1, <2>2, <2>3 DEF Grounded, GroundedRun, GroundedThread
  <1>10. PersistedFirst'
    <2>1. \A x \in net' : x.inc <= disk'[x.node]
      BY <1>2, <1>4 DEF PersistedFirst
    <2>2. \A k, m \in Node : rec'[k][m].inc <= disk'[m]
      BY <1>1, <1>3, <1>4, <1>6 DEF PersistedFirst
    <2> QED
      BY <1>4, <2>1, <2>2 DEF PersistedFirst
  <1>11. \A m \in Node, v \in Nat : m # n /\ LeftBelow(m, v) => LeftBelow(m, v)'
    BY <1>2, <1>4, <1>6, LeftBelowKept
  <1>12. NoFalseLeft'
    BY <1>4, <1>7, <1>11 DEF NoFalseLeft, TypeOK
  <1>13. PendingAboveLeft'
    BY <1>4, <1>7, <1>11 DEF PendingAboveLeft, TypeOK, ThreadState
  <1> QED
    BY <1>8, <1>9, <1>10, <1>12, <1>13

-----------------------------------------------------------------------------
(* Every step preserves the inductive invariant. *)
LEMMA NextIInv == IInv /\ [Next]_vars => IInv'
  <1> SUFFICES ASSUME IInv, [Next]_vars PROVE IInv'
    OBVIOUS
  <1>1. CASE UNCHANGED vars
    BY <1>1 DEF vars, IInv, TypeOK, Grounded, GroundedRun, GroundedRec, GroundedProbe,
                GroundedThread, GroundedLeave, PersistedFirst, NoFalseLeft,
                PendingAboveLeft, LeftBelow, Leaving
  <1>2. ASSUME NEW n \in Node, Start(n) PROVE IInv'
    BY <1>2, StartPreserves
  <1>3. ASSUME NEW n \in Node, Stop(n) PROVE IInv'
    BY <1>3, StopPreserves
  <1>4. ASSUME NEW n \in Node, JoinRequest(n) \/ HelperPing(n) \/ SendPing(n) PROVE IInv'
    <2>1. up[n]
      BY <1>4 DEF JoinRequest, HelperPing, SendPing, IInv, Grounded, GroundedProbe
    <2> QED
      BY <1>4, <2>1, SendSelf DEF JoinRequest, HelperPing, SendPing
  <1>5. ASSUME NEW n \in Node, JoinReply(n) PROVE IInv'
    BY <1>5, JoinReplyPreserves
  <1>6. ASSUME NEW n \in Node, NEW e \in net, Deliver(n, e) PROVE IInv'
    BY <1>6, DeliverPreserves
  <1>7. ASSUME NEW n \in Node, NEW t \in Thread, NEW e \in net, SelfEvent(n, t, e) PROVE IInv'
    BY <1>7, SelfEventPreserves
  <1>8. ASSUME NEW n \in Node, NEW t \in Thread, BumpAbove(n, t) PROVE IInv'
    BY <1>8, BumpAbovePreserves
  <1>9. ASSUME NEW n \in Node, NEW t \in Thread, AssignIncarnation(n, t) PROVE IInv'
    BY <1>9, AssignIncarnationPreserves
  <1>10. ASSUME NEW n \in Node, NEW t \in Thread, AnnounceAlive(n, t) PROVE IInv'
    BY <1>10, AnnounceAlivePreserves
  <1>11. ASSUME NEW n \in Node, NEW t \in Thread, WriteAlive(n, t) PROVE IInv'
    BY <1>11, WriteAlivePreserves
  <1>12. ASSUME NEW n \in Node, BeginRound(n) \/ PickTarget(n) \/ ProbeAcked(n) PROVE IInv'
    BY <1>12, ProbePreserves
  <1>13. ASSUME NEW n \in Node, ProbeFailed(n) PROVE IInv'
    BY <1>13, ProbeFailedPreserves
  <1>14. ASSUME NEW n \in Node, NEW m \in Node, ExpireSuspect(n, m) PROVE IInv'
    BY <1>14, ExpireSuspectPreserves
  <1>15. ASSUME NEW n \in Node, BeginLeave(n) \/ BuildLeft(n) \/ CompleteLeave(n) PROVE IInv'
    BY <1>15, LeavePcPreserves
  <1>16. ASSUME NEW n \in Node, WriteLeft(n) PROVE IInv'
    BY <1>16, WriteLeftPreserves
  <1>17. ASSUME NEW n \in Node, SendLeave(n) PROVE IInv'
    BY <1>17, SendLeavePreserves
  <1> QED
    BY <1>1, <1>2, <1>3, <1>4, <1>5, <1>6, <1>7, <1>8, <1>9, <1>10, <1>11, <1>12,
       <1>13, <1>14, <1>15, <1>16, <1>17, Zenon DEF Next

(* Every reachable state satisfies the inductive invariant. *)
THEOREM Invariance == Spec => []IInv
  BY InitIInv, NextIInv, PTL DEF Spec

(* Type correctness of membership state and of every event in circulation. *)
THEOREM TypeCorrect == Spec => []TypeOK
  <1>1. IInv => TypeOK
    BY DEF IInv
  <1> QED
    BY <1>1, Invariance, PTL

(* No incarnation is known anywhere before its owner has persisted it
   (NodeIdentityStore.load_for_startup and bump_above). *)
THEOREM PersistedFirstHolds == Spec => []PersistedFirst
  <1>1. IInv => PersistedFirst
    BY DEF IInv
  <1> QED
    BY <1>1, Invariance, PTL

(* No LEFT known of a node that runs and is not leaving reaches the incarnation
   it runs with, however refutations, leave(), crashes and restarts interleave. *)
THEOREM NoFalseLeftHolds == Spec => []NoFalseLeft
  <1>1. IInv => NoFalseLeft
    BY DEF IInv
  <1> QED
    BY <1>1, Invariance, PTL

(* Which steps change which processes run, and which change records. *)
LEMMA OtherSteps ==
  ASSUME Next
  PROVE  \/ \E k \in Node : Start(k) \/ Stop(k)
         \/ /\ UNCHANGED up
            /\ \/ UNCHANGED rec
               \/ \E k \in Node : \E e : ApplyEvent(k, e)
               \/ \E k \in Node : \E r : rec' = [rec EXCEPT ![k][k] = r]
  <1> DEFINE Same == UNCHANGED up /\ UNCHANGED rec
  <1>1. ASSUME NEW n \in Node,
               JoinRequest(n) \/ HelperPing(n) \/ SendPing(n) \/ JoinReply(n)
                 \/ BeginRound(n) \/ PickTarget(n) \/ ProbeAcked(n)
                 \/ BeginLeave(n) \/ BuildLeft(n) \/ CompleteLeave(n) \/ SendLeave(n)
        PROVE  Same
    BY <1>1 DEF JoinRequest, HelperPing, SendPing, JoinReply, BeginRound, PickTarget,
                ProbeAcked, BeginLeave, BuildLeft, CompleteLeave, SendLeave
  <1>2. ASSUME NEW n \in Node, NEW t \in Thread, NEW e,
               SelfEvent(n, t, e) \/ BumpAbove(n, t) \/ AssignIncarnation(n, t) \/ AnnounceAlive(n, t)
        PROVE  Same
    BY <1>2 DEF SelfEvent, BumpAbove, AssignIncarnation, AnnounceAlive
  <1>3. ASSUME NEW n \in Node, NEW t \in Thread, WriteAlive(n, t)
        PROVE  UNCHANGED up /\ \E r : rec' = [rec EXCEPT ![n][n] = r]
    BY <1>3, Zenon DEF WriteAlive
  <1>4. ASSUME NEW n \in Node, WriteLeft(n)
        PROVE  UNCHANGED up /\ \E r : rec' = [rec EXCEPT ![n][n] = r]
    BY <1>4, Zenon DEF WriteLeft
  <1>5. ASSUME NEW n \in Node, NEW m \in Node, NEW e,
               Deliver(n, e) \/ ProbeFailed(n) \/ ExpireSuspect(n, m)
        PROVE  UNCHANGED up /\ \E x : ApplyEvent(n, x)
    BY <1>5, Zenon DEF Deliver, ProbeFailed, ExpireSuspect
  <1> QED
    BY <1>1, <1>2, <1>3, <1>4, <1>5, Zenon DEF Next

(* A new process starts above everything known of its earlier runs. *)
THEOREM FreshRunSupersedesHolds == Spec => FreshRunSupersedes
  <1> DEFINE A == \A n \in Node : ~up[n] /\ up'[n] =>
                     /\ \A e \in net : e.node = n => e.inc < inc'[n]
                     /\ \A m \in Node : m # n => rec[m][n].inc < inc'[n]
  <1>1. IInv /\ [Next]_vars => [A]_vars
    <2> SUFFICES ASSUME IInv, Next, NEW n \in Node, ~up[n], up'[n]
                 PROVE  /\ \A e \in net : e.node = n => e.inc < inc'[n]
                        /\ \A m \in Node : m # n => rec[m][n].inc < inc'[n]
      BY Zenon
    <2>1. Start(n)
      <3>1. ASSUME NEW k \in Node, Start(k) PROVE Start(n)
        BY <3>1 DEF Start, IInv, TypeOK
      <3>2. ASSUME NEW k \in Node, Stop(k) PROVE FALSE
        BY <3>2 DEF Stop, IInv, TypeOK
      <3>3. ASSUME UNCHANGED up PROVE FALSE
        BY <3>3
      <3> QED
        BY <3>1, <3>2, <3>3, OtherSteps, Zenon
    <2>2. inc'[n] = disk[n] + 1 /\ disk[n] \in Nat
      BY <2>1 DEF Start, IInv, TypeOK
    <2> QED
      BY <2>2 DEF IInv, TypeOK, PersistedFirst, Event, Record
  <1>2. Spec => [][A]_vars
    BY <1>1, Invariance, PTL DEF Spec
  <1> QED
    BY <1>2 DEF FreshRunSupersedes

(* A running node's record of another node only moves forward. *)
THEOREM RecordsAdvanceHolds == Spec => RecordsAdvance
  <1> DEFINE A == \A n, m \in Node :
                     (n # m /\ up[n] /\ up'[n] /\ rec'[n][m] # rec[n][m])
                        => \/ rec'[n][m].inc > rec[n][m].inc
                           \/ rec'[n][m].inc = rec[n][m].inc /\ rec'[n][m].st > rec[n][m].st
  <1>1. IInv /\ [Next]_vars => [A]_vars
    <2> SUFFICES ASSUME IInv, Next, NEW n \in Node, NEW m \in Node,
                        n # m, up[n], up'[n], rec'[n][m] # rec[n][m]
                 PROVE  Newer(rec'[n][m], rec[n][m])
      BY Zenon DEF Newer
    <2> USE DEF IInv, TypeOK
    <2>1. ASSUME NEW k \in Node, NEW e, ApplyEvent(k, e)
          PROVE  Newer(rec'[n][m], rec[n][m])
      <3>0. Newer(e, rec[k][e.node]) /\ rec' = [rec EXCEPT ![k][e.node] = [inc |-> e.inc, st |-> e.st]]
        BY <2>1 DEF ApplyEvent
      <3>1. k = n /\ e.node = m /\ rec'[n][m] = [inc |-> e.inc, st |-> e.st]
        BY <3>0
      <3> QED
        BY <3>0, <3>1 DEF Newer
    <2>2. ASSUME NEW k \in Node, Start(k) \/ Stop(k)
          PROVE  FALSE
      BY <2>2 DEF Start, Stop
    <2>3. ASSUME NEW k \in Node, NEW r, rec' = [rec EXCEPT ![k][k] = r]
          PROVE  FALSE
      BY <2>3
    <2>4. ASSUME UNCHANGED rec PROVE FALSE
      BY <2>4
    <2> QED
      BY <2>1, <2>2, <2>3, <2>4, OtherSteps, Zenon
  <1>2. Spec => [][A]_vars
    BY <1>1, Invariance, PTL DEF Spec
  <1> QED
    BY <1>2 DEF RecordsAdvance

=============================================================================
