-------------------------- MODULE PackCustodyProofs --------------------------
(***************************************************************************)
(* For any nodes, packs, scores, commands and numbers of faults: what a    *)
(* push or a verification counts as copies are that many nodes with the    *)
(* whole pack, a verification overlooks no copy that was there all the     *)
(* while, and a recovery finds the newest pack there is.                   *)
(*                                                                         *)
(* None of this is inductive: it speaks of commands that have their        *)
(* answers.  CountInv says of a command at work that a node is asked at    *)
(* most once, so that a count is a number of nodes; FindInv says where a   *)
(* copy that stays is on its way: still to be asked, in flight or found.   *)
(* All of it is about one command; what binds a command to the others and  *)
(* to the disks is SteadyInv.                                              *)
(***************************************************************************)
EXTENDS PackCustody, FiniteSetTheorems, WellFoundedInduction, TLAPS

Disk == {"none", "whole", "unsigned", "damaged"}
CmdRecord ==
    [op : {"idle", "push", "verify", "verify_all", "recover", "download"}, pack : Pack \cup {0}, intent : [Pack -> Nat],
     groups : [1..2 -> SUBSET Node], seen : [Node -> Nat], flight : SUBSET Node, storing : SUBSET Node, copies : Nat,
     sources : SUBSET (Node \X Pack), real : SUBSET Node, left : [Pack -> SUBSET Node], valid : SUBSET Pack,
     steady : SUBSET (Node \X Pack)]

Cluster ==
    /\ disk \in [Node -> [Pack -> Disk]] /\ up \in SUBSET Node /\ members \in SUBSET Node
    /\ published \in [Pack -> Nat] /\ hints \in [Pack -> [Node -> Nat]]

Types == Cluster /\ cmd \in [Command -> CmdRecord]

Apart(A, B) == \A n \in A : n \notin B

(* a push and a verification count nodes, and never ask one again              *)
CountInv(c) ==
    /\ c.op \in {"push", "verify"} =>
         /\ c.pack \in Pack /\ c.copies = Cardinality(c.real)
         /\ Apart(c.real, c.flight) /\ Apart(c.real, c.storing) /\ Apart(c.flight, c.storing)
    /\ c.op = "verify" =>
         /\ c.storing = {} /\ Apart(c.groups[1], c.groups[2])
         /\ \A g \in 1..2 : Apart(c.groups[g], c.real) /\ Apart(c.groups[g], c.flight)

(* where the copies are that have been there since the command began            *)
FindInv(c) ==
    \A n \in Node, p \in Pack : <<n, p>> \in c.steady =>
        /\ c.op = "verify" /\ c.pack = p => n \in c.real \/ n \in c.flight \/ \E g \in 1..2 : n \in c.groups[g]
        /\ c.op \in {"verify_all", "recover"} => <<n, p>> \in c.sources \/ n \in c.flight
        /\ c.op = "download" /\ c.pack \in {0, p} => p \in c.valid \/ n \in c.left[p]

(* and they are there                                                          *)
SteadyInv(U, D, c) == \A n \in Node, p \in Pack : <<n, p>> \in c.steady => n \in U /\ D[n][p] = "whole"

(* The inductive invariant.                                                    *)
IInv == Types /\ \A r \in Command : CountInv(cmd[r]) /\ FindInv(cmd[r]) /\ SteadyInv(up, disk, cmd[r])

-----------------------------------------------------------------------------
(* A finite set of numbers has a greatest element, and Max is it: the one with
   the fewest above it.                                                        *)
LEMMA MaxOfFinite ==
  ASSUME NEW S \in SUBSET Nat, IsFiniteSet(S), S # {}
  PROVE  Max(S) \in S /\ \A y \in S : Max(S) >= y
<1> DEFINE R == OpToRel(<, Nat)
           Above(x) == {y \in S : y > x}
           T == {Cardinality(Above(x)) : x \in S}
<1>1. \A x \in S : IsFiniteSet(Above(x)) /\ Cardinality(Above(x)) \in Nat
  <2>1. \A x \in S : Above(x) \in SUBSET S
    BY Zenon
  <2> HIDE DEF Above
  <2> QED BY Zenon, <2>1, FS_Subset, FS_CardinalityType
<1>2. T \subseteq Nat /\ T # {}
  BY Zenon, <1>1
<1>3. \E t \in T : \A u \in T : ~ (<<u, t>> \in R)
  <2>1. IsWellFoundedOn(R, Nat)
    BY NatLessThanWellFounded
  <2> HIDE DEF R, T
  <2> QED BY Zenon, <1>2, <2>1, WFMin
<1>4. \A u, t \in Nat : u < t => <<u, t>> \in R
  BY DEF OpToRel
<1>5. PICK m \in S : \A y \in S : ~(Cardinality(Above(y)) < Cardinality(Above(m)))
  <2> HIDE DEF R
  <2> QED BY Zenon, <1>1, <1>3, <1>4
<1>6. ASSUME NEW y \in S PROVE m >= y
  <2> SUFFICES ASSUME y > m PROVE FALSE
    OBVIOUS
  <2>a. ~(y > y) /\ (\A z \in S : z > y => z > m)
    OBVIOUS
  <2>1. y \notin Above(y) /\ Above(y) \cup {y} \in SUBSET Above(m)
    BY Zenon, <2>a
  <2> HIDE DEF Above
  <2>2. IsFiniteSet(Above(y) \cup {y}) /\ Cardinality(Above(y) \cup {y}) = Cardinality(Above(y)) + 1
    BY Zenon, <1>1, <2>1, FS_AddElement
  <2>3. Cardinality(Above(y) \cup {y}) <= Cardinality(Above(m))
    BY Zenon, <1>1, <2>1, FS_Subset
  <2>4. Cardinality(Above(y)) \in Nat /\ Cardinality(Above(m)) \in Nat
    BY Zenon, <1>1
  <2> HIDE <1>5
  <2>5. Cardinality(Above(y)) < Cardinality(Above(m))
    BY <2>2, <2>3, <2>4
  <2> QED BY Zenon, <1>5, <2>5
<1> QED BY Zenon, <1>6 DEF Max

(* The last_seen_at of hints that are refreshed.                               *)
LEMMA RefreshedType ==
  ASSUME NEW old \in [Node -> Nat], NEW seen \in SUBSET Node
  PROVE  Refreshed(old, seen) \in [Node -> Nat]
<1>1. ASSUME NEW n \in seen PROVE 1 + Max(Range(old)) \in Nat
  <2>1. Range(old) \in SUBSET Nat /\ Range(old) # {}
    BY Zenon DEF Range
  <2>2. IsFiniteSet(Range(old))
    <3>1. old \in Surjection(Node, Range(old))
      BY Zenon DEF Surjection, Range
    <3> QED BY Zenon, CustodyAssumption, <3>1, FS_Surjection
  <2>3. Max(Range(old)) \in Nat
    BY Zenon, <2>1, <2>2, MaxOfFinite
  <2> QED BY <2>3
<1> QED BY Zenon, <1>1 DEF Refreshed

(* The fields of a command.                                                    *)
LEMMA CmdFields ==
  ASSUME NEW c \in CmdRecord
  PROVE  /\ c.pack \in Pack \cup {0} /\ c.intent \in [Pack -> Nat]
         /\ c.groups \in [1..2 -> SUBSET Node] /\ c.seen \in [Node -> Nat] /\ c.flight \in SUBSET Node
         /\ c.storing \in SUBSET Node /\ c.copies \in Nat /\ c.sources \in SUBSET (Node \X Pack) /\ c.real \in SUBSET Node
         /\ c.left \in [Pack -> SUBSET Node] /\ c.valid \in SUBSET Pack /\ c.steady \in SUBSET (Node \X Pack)
  BY DEF CmdRecord

(* No command runs.                                                            *)
LEMMA IdleIs ==
  Idle \in CmdRecord /\ Idle.op = "idle" /\ Idle.steady = {} /\ Idle.real = {} /\ Idle.flight = {} /\ Idle.storing = {}
       /\ Idle.copies = 0
<1>1. <<{}, {}>> \in [1..2 -> SUBSET Node]
  OBVIOUS
<1> DEFINE I == NoIntent
           U == Unseen
           L == [p \in Pack |-> {}]
<1>2. I \in [Pack -> Nat] /\ U \in [Node -> Nat] /\ L \in [Pack -> SUBSET Node]
  <2>1. 0 \in Nat
    OBVIOUS
  <2> QED BY Zenon, <2>1 DEF NoIntent, Unseen
<1>3. Idle = [op |-> "idle", pack |-> 0, intent |-> I, groups |-> <<{}, {}>>, seen |-> U, flight |-> {},
         storing |-> {}, copies |-> 0, sources |-> {}, real |-> {}, left |-> L, valid |-> {},
         steady |-> {}]
  BY Zenon DEF Idle
<1> HIDE DEF I, U, L
<1>4. Idle \in CmdRecord
  BY <1>1, <1>2, <1>3 DEF CmdRecord
<1>5. Idle.op = "idle" /\ Idle.steady = {} /\ Idle.real = {} /\ Idle.flight = {} /\ Idle.storing = {} /\ Idle.copies = 0
  BY <1>3
<1> QED BY Zenon, <1>4, <1>5

(* What an idle command has to answer for.                                     *)
LEMMA IdleInv ==
  CountInv(Idle) /\ FindInv(Idle) /\ \A U, D : SteadyInv(U, D, Idle)
<1>1. Idle.op \notin {"push", "verify"} /\ Idle.op # "verify"
  BY IdleIs
<1> QED BY Zenon, <1>1, IdleIs DEF CountInv, FindInv, SteadyInv

-----------------------------------------------------------------------------
(* Copies that are whole on nodes that answer stay so.                         *)
Keeps == \A n \in Node, p \in Pack : n \in up /\ disk[n][p] = "whole" => n \in up' /\ disk'[n][p] = "whole"

(* A step of one command, which writes only its own record, keeps the          *)
(* invariant when its new record satisfies what is said of one command.        *)
LEMMA CmdStep ==
  ASSUME IInv, Cluster', Keeps, NEW r \in Command, NEW q \in CmdRecord, cmd' = [cmd EXCEPT ![r] = q],
         CountInv(q), FindInv(q), SteadyInv(up', disk', q)
  PROVE  IInv'
<1>1. cmd' \in [Command -> CmdRecord] /\ cmd'[r] = q /\ \A s \in Command : s # r => cmd'[s] = cmd[s]
  BY Zenon DEF IInv, Types
<1>2. ASSUME NEW s \in Command PROVE CountInv(cmd'[s]) /\ FindInv(cmd'[s]) /\ SteadyInv(up', disk', cmd'[s])
  <2>1. CASE s = r
    BY Zenon, <1>1, <2>1
  <2>2. CASE s # r
    <3>1. CountInv(cmd[s]) /\ FindInv(cmd[s]) /\ SteadyInv(up, disk, cmd[s]) /\ cmd'[s] = cmd[s]
      BY Zenon, <1>1, <2>2 DEF IInv
    <3>2. SteadyInv(up', disk', cmd[s])
      BY Zenon, <3>1 DEF SteadyInv, Keeps
    <3> QED BY Zenon, <3>1, <3>2
  <2> QED BY Zenon, <2>1, <2>2
<1> QED BY Zenon, <1>1, <1>2 DEF IInv, Types

(* A step of a command that leaves the nodes as they are.                      *)
LEMMA QuietStep ==
  ASSUME IInv, UNCHANGED <<disk, up, members, published, hints>>,
         NEW r \in Command, NEW q \in CmdRecord, cmd' = [cmd EXCEPT ![r] = q],
         CountInv(q), FindInv(q), SteadyInv(up, disk, q)
  PROVE  IInv'
<1>1. disk' = disk /\ up' = up /\ members' = members /\ published' = published /\ hints' = hints
  BY Zenon
<1>2. Cluster' /\ Keeps
  BY Zenon, <1>1 DEF IInv, Types, Cluster, Keeps
<1>3. SteadyInv(up', disk', q)
  BY Zenon, <1>1
<1> QED BY Zenon, <1>2, <1>3, CmdStep

(* What the invariant says of one command.                                     *)
LEMMA OfCommand ==
  ASSUME IInv, NEW r \in Command
  PROVE  cmd[r] \in CmdRecord /\ CountInv(cmd[r]) /\ FindInv(cmd[r]) /\ SteadyInv(up, disk, cmd[r])
  BY Zenon DEF IInv, Types

-----------------------------------------------------------------------------
(* What the steps do to a command's record.                                    *)

(* A node that is no longer in flight, and one that is counted.                *)
Asked(c, n) == [c EXCEPT !.flight = @ \ {n}]
Counted(d, n) == [d EXCEPT !.copies = @ + 1, !.sources = @ \cup {<<n, d.pack>>}, !.real = @ \cup {n}]
Forgotten(c, L) == [c EXCEPT !.steady = @ \ L]

(* A node has answered, or not, and is no longer in flight.                    *)
LEMMA Dropped ==
  ASSUME NEW c \in CmdRecord, NEW n \in Node, CountInv(c), n \in c.flight
  PROVE  LET d == Asked(c, n) IN
         /\ d \in CmdRecord /\ CountInv(d)
         /\ \A m \in c.flight : m = n \/ m \in d.flight
         /\ d.op = c.op /\ d.pack = c.pack /\ d.groups = c.groups /\ d.sources = c.sources
         /\ d.real = c.real /\ d.left = c.left /\ d.valid = c.valid /\ d.steady = c.steady /\ d.storing = c.storing
         /\ c.op \in {"push", "verify"} => n \notin d.flight /\ n \notin d.storing /\ n \notin d.real
         /\ c.op = "verify" => \A g \in 1..2 : n \notin d.groups[g]
<1> DEFINE d == Asked(c, n)
<1>1. d \in CmdRecord
  BY DEF CmdRecord, Asked
<1>2. /\ d.flight = c.flight \ {n} /\ d.op = c.op /\ d.pack = c.pack /\ d.groups = c.groups /\ d.sources = c.sources
      /\ d.real = c.real /\ d.left = c.left /\ d.valid = c.valid /\ d.steady = c.steady /\ d.storing = c.storing
      /\ d.copies = c.copies
  BY DEF CmdRecord, Asked
<1> HIDE DEF d
<1>3. CountInv(d)
  BY Zenon, <1>2 DEF CountInv, Apart
<1>4. c.op \in {"push", "verify"} => n \notin d.flight /\ n \notin d.storing /\ n \notin d.real
  BY Zenon, <1>2 DEF CountInv, Apart
<1>5. c.op = "verify" => \A g \in 1..2 : n \notin d.groups[g]
  BY Zenon, <1>2 DEF CountInv, Apart
<1> QED BY Zenon, <1>1, <1>2, <1>3, <1>4, <1>5 DEF d

(* A push or a verification counts a copy on a node it had not counted.        *)
LEMMA Confirmed ==
  ASSUME NEW d \in CmdRecord, CountInv(d), d.op \in {"push", "verify"}, NEW n \in Node,
         n \notin d.flight, n \notin d.storing, n \notin d.real,
         d.op = "verify" => \A g \in 1..2 : n \notin d.groups[g]
  PROVE  LET q == Counted(d, n) IN
         /\ q \in CmdRecord /\ CountInv(q)
         /\ q.real = d.real \cup {n} /\ q.op = d.op /\ q.pack = d.pack /\ q.flight = d.flight /\ q.groups = d.groups
         /\ q.steady = d.steady
<1> DEFINE q == Counted(d, n)
<1>0. d.pack \in Pack /\ d.copies = Cardinality(d.real)
  BY Zenon DEF CountInv
<1> DEFINE N == d.copies + 1
           S == d.sources \cup {<<n, d.pack>>}
           R == d.real \cup {n}
<1>a. N \in Nat
  BY CmdFields
<1>b. S \in SUBSET (Node \X Pack)
  BY <1>0, CmdFields
<1>c. R \in SUBSET Node
  BY CmdFields
<1>d. q = [d EXCEPT !.copies = N, !.sources = S, !.real = R]
  BY DEF Counted
<1>1. q \in CmdRecord
  <2> HIDE DEF N, S, R
  <2> HIDE DEF q
  <2> QED BY <1>a, <1>b, <1>c, <1>d DEF CmdRecord
<1>2. /\ q.real = d.real \cup {n} /\ q.op = d.op /\ q.pack = d.pack /\ q.flight = d.flight /\ q.groups = d.groups
      /\ q.steady = d.steady /\ q.storing = d.storing /\ q.copies = d.copies + 1
  BY DEF CmdRecord, Counted
<1> HIDE DEF q
<1>3. q.copies = Cardinality(q.real)
  <2>1. IsFiniteSet(d.real)
    BY Zenon, CustodyAssumption, CmdFields, FS_Subset
  <2>2. Cardinality(d.real \cup {n}) = Cardinality(d.real) + 1
    BY Zenon, <2>1, FS_AddElement
  <2> QED BY Zenon, <2>2, <1>0, <1>2
<1>4. CountInv(q)
  BY Zenon, <1>0, <1>2, <1>3 DEF CountInv, Apart
<1> QED BY Zenon, <1>1, <1>2, <1>4 DEF q

(* Copies that a command no longer counts on.                                  *)
LEMMA LessSteady ==
  ASSUME NEW c \in CmdRecord, NEW L
  PROVE  LET d == Forgotten(c, L) IN
         /\ d \in CmdRecord /\ \A x \in d.steady : x \in c.steady /\ x \notin L
         /\ d.flight = c.flight /\ d.op = c.op /\ d.pack = c.pack /\ d.groups = c.groups /\ d.sources = c.sources
         /\ d.real = c.real /\ d.left = c.left /\ d.valid = c.valid /\ d.storing = c.storing /\ d.copies = c.copies
<1> DEFINE d == Forgotten(c, L)
<1>1. d \in CmdRecord
  BY DEF CmdRecord, Forgotten
<1>2. /\ d.steady = c.steady \ L
      /\ d.flight = c.flight /\ d.op = c.op /\ d.pack = c.pack /\ d.groups = c.groups /\ d.sources = c.sources
      /\ d.real = c.real /\ d.left = c.left /\ d.valid = c.valid /\ d.storing = c.storing /\ d.copies = c.copies
  BY DEF CmdRecord, Forgotten
<1> HIDE DEF d
<1>3. \A x \in d.steady : x \in c.steady /\ x \notin L
  BY Zenon, <1>2
<1> QED BY Zenon, <1>1, <1>2, <1>3 DEF d

(* The invariant of a command that counts on fewer copies.                     *)
LEMMA LessSteadyInv ==
  ASSUME NEW c \in CmdRecord, NEW L
  PROVE  LET d == Forgotten(c, L) IN
         /\ CountInv(c) => CountInv(d)
         /\ FindInv(c) => FindInv(d)
         /\ \A U, D : SteadyInv(U, D, c) => SteadyInv(U, D, d)
<1> DEFINE d == Forgotten(c, L)
<1>1. /\ d.steady = c.steady \ L
      /\ d.flight = c.flight /\ d.op = c.op /\ d.pack = c.pack /\ d.groups = c.groups /\ d.sources = c.sources
      /\ d.real = c.real /\ d.left = c.left /\ d.valid = c.valid /\ d.storing = c.storing /\ d.copies = c.copies
  BY DEF CmdRecord, Forgotten
<1> HIDE DEF d
<1>2. CountInv(c) => CountInv(d)
  BY Zenon, <1>1 DEF CountInv
<1>3. FindInv(c) => FindInv(d)
  BY Zenon, <1>1 DEF FindInv
<1>4. \A U, D : SteadyInv(U, D, c) => SteadyInv(U, D, d)
  BY Zenon, <1>1 DEF SteadyInv
<1> QED BY Zenon, <1>2, <1>3, <1>4 DEF d

-----------------------------------------------------------------------------
(* The start of a command.                                                     *)
LEMMA StartStep ==
  ASSUME IInv, NEW r \in Command, NEW b \in CmdRecord, Start(r, b), CountInv(b),
         b.op = "verify" => \A n \in members : \E g \in 1..2 : n \in b.groups[g],
         b.op \in {"verify_all", "recover"} => b.flight = members,
         b.op # "download"
  PROVE  IInv'
<1> DEFINE K == Kept
           q == [b EXCEPT !.steady = K]
<1>1. K \in SUBSET (Node \X Pack) /\ \A n \in Node, p \in Pack : <<n, p>> \in K => n \in members /\ n \in up /\ disk[n][p] = "whole"
  <2>1. members \in SUBSET Node
    BY Zenon DEF IInv, Types, Cluster
  <2> QED BY <2>1 DEF Kept
<1> HIDE DEF K
<1>2. q \in CmdRecord
  BY <1>1 DEF CmdRecord
<1>3. /\ q.steady = K
      /\ q.flight = b.flight /\ q.op = b.op /\ q.pack = b.pack /\ q.groups = b.groups /\ q.sources = b.sources
      /\ q.real = b.real /\ q.left = b.left /\ q.valid = b.valid /\ q.storing = b.storing /\ q.copies = b.copies
  BY DEF CmdRecord
<1>4. cmd' = [cmd EXCEPT ![r] = q] /\ UNCHANGED <<disk, up, members, published, hints>>
  BY Zenon DEF Start, K
<1> HIDE DEF q
<1>5. CountInv(q)
  BY Zenon, <1>3 DEF CountInv
<1>6. FindInv(q)
  BY Zenon, <1>1, <1>3 DEF FindInv
<1>7. SteadyInv(up, disk, q)
  BY Zenon, <1>1, <1>3 DEF SteadyInv
<1> QED BY Zenon, <1>2, <1>4, <1>5, <1>6, <1>7, QuietStep

(* A push starts.                                                              *)
LEMMA PushStep ==
  ASSUME IInv, NEW r \in Command, NEW p \in Pack, Push(r, p)
  PROVE  IInv'
<1>1. PICK rf \in Rf, strict \in BOOLEAN :
        Start(r, [Idle EXCEPT !.op = "push", !.pack = p, !.intent[p] = rf, !.flight = Targets(p, rf, strict)])
  BY Zenon DEF Push
<1> DEFINE T == Targets(p, rf, strict)
           J == [Idle.intent EXCEPT ![p] = rf]
           b == [Idle EXCEPT !.op = "push", !.pack = p, !.intent = J, !.flight = T]
<1>2. T \in SUBSET Node
  BY Zenon DEF Targets, IInv, Types, Cluster
<1>3. J \in [Pack -> Nat]
  <2>1. rf \in Nat
    BY Zenon, CustodyAssumption
  <2> QED BY Zenon, <2>1, IdleIs, CmdFields
<1>4. Start(r, b)
  <2> HIDE DEF T
  <2>1. b = [Idle EXCEPT !.op = "push", !.pack = p, !.intent[p] = rf, !.flight = T]
    OBVIOUS
  <2> HIDE DEF b
  <2> QED BY Zenon, <1>1, <2>1 DEF T
<1> HIDE DEF T, J
<1>5. b \in CmdRecord
  BY <1>2, <1>3, IdleIs DEF CmdRecord
<1>6. b.op = "push" /\ b.pack = p /\ b.flight = T /\ b.real = {} /\ b.storing = {} /\ b.copies = 0
  BY IdleIs DEF CmdRecord
<1> HIDE DEF b
<1>7. CountInv(b)
  <2>1. b.op # "verify"
    BY <1>6
  <2> QED BY Zenon, <1>6, <2>1, FS_EmptySet DEF CountInv, Apart
<1>8. b.op # "verify" /\ b.op \notin {"verify_all", "recover"} /\ b.op # "download"
  BY <1>6
<1> QED BY Zenon, <1>4, <1>5, <1>7, <1>8, StartStep

(* A pair of groups.                                                           *)
LEMMA PairIs ==
  ASSUME NEW A \in SUBSET Node, NEW B \in SUBSET Node, NEW G, G = <<A, B>>
  PROVE  G \in [1..2 -> SUBSET Node] /\ G[1] = A /\ G[2] = B
<1>1. G[1] = A /\ G[2] = B
  OBVIOUS
<1>2. G \in [1..2 -> SUBSET Node]
  <2>1. DOMAIN G = 1..2 /\ G = [i \in 1..2 |-> G[i]]
    OBVIOUS
  <2>2. \A i \in 1..2 : i = 1 \/ i = 2
    OBVIOUS
  <2> QED BY Zenon, <1>1, <2>1, <2>2
<1> QED BY Zenon, <1>1, <1>2

(* A verification starts: the hints and the rest of the view.                  *)
LEMMA VerifyStep ==
  ASSUME IInv, NEW r \in Command, NEW p \in Pack, Verify(r, p)
  PROVE  IInv'
<1> DEFINE G == IF published[p] = 0 THEN <<{}, members>> ELSE Groups(p)
           H == hints[p]
           b == [Idle EXCEPT !.op = "verify", !.pack = p, !.intent = published, !.seen = H, !.groups = G]
<1>1. members \in SUBSET Node /\ published \in [Pack -> Nat] /\ H \in [Node -> Nat]
  BY Zenon DEF IInv, Types, Cluster
<1>2. G \in [1..2 -> SUBSET Node] /\ Apart(G[1], G[2]) /\ \A n \in members : n \in G[1] \/ n \in G[2]
  <2>1. CASE published[p] = 0
    <3>1. G = <<{}, members>> /\ {} \in SUBSET Node
      BY Zenon, <2>1
    <3> HIDE DEF G
    <3>2. G \in [1..2 -> SUBSET Node] /\ G[1] = {} /\ G[2] = members
      BY Zenon, <1>1, <3>1, PairIs
    <3> QED BY Zenon, <3>2 DEF Apart
  <2>2. CASE published[p] # 0
    <3>1. G = Groups(p)
      BY Zenon, <2>2
    <3> HIDE DEF G
    <3> DEFINE A == Preferred(p)
    <3>2. A \in SUBSET Node /\ members \ A \in SUBSET Node
      BY Zenon, <1>1 DEF Preferred
    <3>3. G = <<A, members \ A>>
      BY Zenon, <3>1 DEF Groups
    <3> HIDE DEF A
    <3>4. G \in [1..2 -> SUBSET Node] /\ G[1] = A /\ G[2] = members \ A
      BY Zenon, <3>2, <3>3, PairIs
    <3> QED BY Zenon, <3>4 DEF Apart
  <2> QED BY Zenon, <2>1, <2>2
<1>3. Start(r, b)
  BY Zenon DEF Verify
<1> HIDE DEF G, H
<1>4. b \in CmdRecord
  BY <1>1, <1>2, IdleIs DEF CmdRecord
<1>5. b.op = "verify" /\ b.pack = p /\ b.groups = G /\ b.real = {} /\ b.flight = {} /\ b.storing = {} /\ b.copies = 0
  BY IdleIs DEF CmdRecord
<1> HIDE DEF b
<1>6. CountInv(b)
  BY Zenon, <1>2, <1>5, FS_EmptySet DEF CountInv, Apart
<1>7. \A n \in members : \E g \in 1..2 : n \in b.groups[g]
  <2>1. 1 \in 1..2 /\ 2 \in 1..2
    OBVIOUS
  <2> QED BY Zenon, <2>1, <1>2, <1>5
<1>8. b.op \notin {"verify_all", "recover"} /\ b.op # "download"
  BY <1>5
<1> QED BY Zenon, <1>3, <1>4, <1>6, <1>7, <1>8, StartStep

(* verify --all and recover start: every member is to be asked.                *)
LEMMA ListingStep ==
  ASSUME IInv, NEW r \in Command, VerifyAll(r) \/ \E p \in Pack \cup {0} : Recover(r, p)
  PROVE  IInv'
<1>1. members \in SUBSET Node /\ published \in [Pack -> Nat]
  BY Zenon DEF IInv, Types, Cluster
<1>2. CASE VerifyAll(r)
  <2> DEFINE b == [Idle EXCEPT !.op = "verify_all", !.intent = published, !.flight = members]
  <2>1. Start(r, b)
    BY Zenon, <1>2 DEF VerifyAll
  <2>2. b \in CmdRecord
    BY <1>1, IdleIs DEF CmdRecord
  <2>3. b.op = "verify_all" /\ b.flight = members
    BY IdleIs DEF CmdRecord
  <2> HIDE DEF b
  <2>4. b.op # "verify" /\ b.op \notin {"push", "verify"} /\ b.op # "download"
    BY <2>3
  <2> QED BY Zenon, <2>1, <2>2, <2>3, <2>4, StartStep DEF CountInv
<1>3. ASSUME NEW p \in Pack \cup {0}, Recover(r, p) PROVE IInv'
  <2> DEFINE b == [Idle EXCEPT !.op = "recover", !.pack = p, !.flight = members]
  <2>1. Start(r, b)
    BY Zenon, <1>3 DEF Recover
  <2>2. b \in CmdRecord
    BY <1>1, IdleIs DEF CmdRecord
  <2>3. b.op = "recover" /\ b.flight = members
    BY IdleIs DEF CmdRecord
  <2> HIDE DEF b
  <2>4. b.op # "verify" /\ b.op \notin {"push", "verify"} /\ b.op # "download"
    BY <2>3
  <2> QED BY Zenon, <2>1, <2>2, <2>3, <2>4, StartStep DEF CountInv
<1> QED BY Zenon, <1>2, <1>3

-----------------------------------------------------------------------------
(* What a push makes of a probe.                                               *)
LEMMA PushProbeStep ==
  ASSUME IInv, NEW r \in Command, NEW n \in Node, PushProbe(r, n)
  PROVE  IInv'
<1> DEFINE c == cmd[r]
           d == Asked(c, n)
           answer == Probed(n, d.pack)
<1>1. c \in CmdRecord /\ CountInv(c) /\ FindInv(c) /\ SteadyInv(up, disk, c)
  BY Zenon, OfCommand
<1>2. c.op = "push" /\ n \in c.flight /\ UNCHANGED <<disk, up, members, published, hints>>
  BY Zenon DEF PushProbe
<1>3. \/ cmd' = [cmd EXCEPT ![r] = CASE answer = "error" -> d
                      [] answer = "present" -> Confirm(d, n, disk[n][d.pack] = "whole")
                      [] OTHER -> [d EXCEPT !.storing = @ \cup {n}]]
      \/ cmd' = [cmd EXCEPT ![r] = d]
  BY Zenon DEF PushProbe, Asked
<1> HIDE DEF c
<1>4. /\ d \in CmdRecord /\ CountInv(d) /\ d.op = "push" /\ d.pack = c.pack /\ d.steady = c.steady
      /\ n \notin d.flight /\ n \notin d.storing /\ n \notin d.real
  <2>1. c.op \in {"push", "verify"}
    BY Zenon, <1>2
  <2>2. n \notin d.flight /\ n \notin d.storing /\ n \notin d.real
    BY Zenon, <1>1, <1>2, <2>1, Dropped
  <2>3. d \in CmdRecord /\ CountInv(d) /\ d.op = c.op /\ d.pack = c.pack /\ d.steady = c.steady
    BY Zenon, <1>1, <1>2, Dropped
  <2> QED BY Zenon, <1>2, <2>2, <2>3
<1>5. ASSUME NEW q \in CmdRecord, q.op = "push", q.steady = c.steady, CountInv(q), cmd' = [cmd EXCEPT ![r] = q]
      PROVE  IInv'
  <2>1. q.op # "verify" /\ q.op \notin {"verify_all", "recover"} /\ q.op # "download"
    BY <1>5
  <2>2. FindInv(q)
    BY Zenon, <2>1 DEF FindInv
  <2>3. SteadyInv(up, disk, q)
    BY Zenon, <1>1, <1>5 DEF SteadyInv
  <2> QED BY Zenon, <1>2, <1>5, <2>2, <2>3, QuietStep
<1>6. CASE cmd' = [cmd EXCEPT ![r] = d]
  BY Zenon, <1>4, <1>5, <1>6
<1>7. CASE answer = "present" /\ cmd' = [cmd EXCEPT ![r] = Confirm(d, n, disk[n][d.pack] = "whole")]
  <2>1. disk[n][d.pack] = "whole"
    BY <1>7 DEF Probed, ProbeMetadataPack
  <2> DEFINE q == Counted(d, n)
  <2>2. Confirm(d, n, disk[n][d.pack] = "whole") = q
    BY <2>1 DEF Confirm, Counted
  <2>3. q \in CmdRecord /\ CountInv(q) /\ q.op = d.op /\ q.steady = d.steady
    <3>1. d.op \in {"push", "verify"} /\ d.op # "verify"
      BY <1>4
    <3> QED BY Zenon, <1>4, <3>1, Confirmed
  <2> QED BY Zenon, <1>4, <1>5, <1>7, <2>2, <2>3
<1>8. CASE cmd' = [cmd EXCEPT ![r] = [d EXCEPT !.storing = @ \cup {n}]]
  <2> DEFINE q == [d EXCEPT !.storing = @ \cup {n}]
  <2>1. q \in CmdRecord
    BY <1>4 DEF CmdRecord
  <2>2. /\ q.op = "push" /\ q.steady = d.steady /\ q.pack = d.pack /\ q.copies = d.copies /\ q.real = d.real
        /\ q.flight = d.flight /\ q.storing = d.storing \cup {n}
    BY <1>4 DEF CmdRecord
  <2>3. cmd' = [cmd EXCEPT ![r] = q]
    BY Zenon, <1>8
  <2> HIDE DEF q
  <2>4. q.op # "verify"
    BY <2>2
  <2>5. CountInv(q)
    BY Zenon, <1>4, <2>2, <2>4 DEF CountInv, Apart
  <2> QED BY Zenon, <1>4, <1>5, <2>1, <2>2, <2>3, <2>5
<1>9. \/ cmd' = [cmd EXCEPT ![r] = d]
      \/ answer = "present" /\ cmd' = [cmd EXCEPT ![r] = Confirm(d, n, disk[n][d.pack] = "whole")]
      \/ cmd' = [cmd EXCEPT ![r] = [d EXCEPT !.storing = @ \cup {n}]]
  <2> HIDE DEF answer
  <2> QED BY <1>3
<1> QED BY Zenon, <1>6, <1>7, <1>8, <1>9

(* What a push makes of the stream of a pack.                                  *)
LEMMA PushStoreStep ==
  ASSUME IInv, NEW r \in Command, NEW n \in Node, PushStore(r, n)
  PROVE  IInv'
<1> DEFINE c == cmd[r]
           d == [c EXCEPT !.storing = @ \ {n}]
           after == StoreMetadataPack(n, d.pack)
           keep == disk' = [disk EXCEPT ![n][d.pack] = after]
<1>1. c \in CmdRecord /\ CountInv(c) /\ FindInv(c) /\ SteadyInv(up, disk, c)
  BY Zenon, OfCommand
<1>2. c.op = "push" /\ n \in c.storing /\ up' = up /\ members' = members /\ published' = published /\ hints' = hints
  BY Zenon DEF PushStore
<1>3. /\ keep \/ disk' = disk
      /\ \/ cmd' = [cmd EXCEPT ![r] = IF after = "whole" THEN Confirm(d, n, TRUE) ELSE d]
         \/ cmd' = [cmd EXCEPT ![r] = d]
  BY Zenon DEF PushStore
<1>d1. d \in CmdRecord
  BY <1>1 DEF CmdRecord
<1>d2. /\ d.op = "push" /\ d.steady = c.steady /\ d.pack = c.pack /\ d.copies = c.copies /\ d.real = c.real
       /\ d.flight = c.flight /\ d.storing = c.storing \ {n}
  BY <1>1, <1>2 DEF CmdRecord
<1> HIDE DEF c, d
<1>d3. d.op # "verify" /\ d.op \in {"push", "verify"} /\ c.op \in {"push", "verify"}
  BY <1>d2, <1>2
<1>4. d.pack \in Pack /\ CountInv(d) /\ n \notin d.flight /\ n \notin d.storing /\ n \notin d.real
  BY Zenon, <1>1, <1>2, <1>d2, <1>d3 DEF CountInv, Apart
<1>5. disk \in [Node -> [Pack -> Disk]]
  BY Zenon DEF IInv, Types, Cluster
<1>6. after \in Disk /\ (disk[n][d.pack] = "whole" => after = "whole")
  BY DEF StoreMetadataPack, Disk
<1> HIDE DEF after
<1>7. disk' \in [Node -> [Pack -> Disk]] /\ \A m \in Node, p \in Pack : disk[m][p] = "whole" => disk'[m][p] = "whole"
  <2>1. CASE keep
    <3> HIDE DEF Disk
    <3> QED BY <1>4, <1>5, <1>6, <2>1
  <2>2. CASE disk' = disk
    BY Zenon, <1>5, <2>2
  <2> QED BY Zenon, <1>3, <2>1, <2>2
<1> HIDE DEF keep
<1>8. Cluster' /\ Keeps
  BY Zenon, <1>2, <1>7 DEF IInv, Types, Cluster, Keeps
<1>9. ASSUME NEW q \in CmdRecord, q.op = "push", q.steady = c.steady, CountInv(q), cmd' = [cmd EXCEPT ![r] = q]
      PROVE  IInv'
  <2>1. q.op # "verify" /\ q.op \notin {"verify_all", "recover"} /\ q.op # "download"
    BY <1>9
  <2>2. FindInv(q)
    BY Zenon, <2>1 DEF FindInv
  <2>3. SteadyInv(up', disk', q)
    BY Zenon, <1>1, <1>8, <1>9 DEF SteadyInv, Keeps
  <2> QED BY Zenon, <1>8, <1>9, <2>2, <2>3, CmdStep
<1>10. CASE cmd' = [cmd EXCEPT ![r] = d]
  BY Zenon, <1>4, <1>d1, <1>d2, <1>9, <1>10
<1>11. CASE cmd' = [cmd EXCEPT ![r] = Confirm(d, n, TRUE)]
  <2> DEFINE q == Counted(d, n)
  <2>2. Confirm(d, n, TRUE) = q
    BY DEF Confirm, Counted
  <2>3. q \in CmdRecord /\ CountInv(q) /\ q.op = d.op /\ q.steady = d.steady
    BY Zenon, <1>4, <1>d1, <1>d3, Confirmed
  <2> QED BY Zenon, <1>d2, <1>9, <1>11, <2>2, <2>3
<1> QED BY Zenon, <1>3, <1>10, <1>11

-----------------------------------------------------------------------------
(* The next nodes a verification asks come off their group.                    *)
LEMMA VerifyBatchStep ==
  ASSUME IInv, NEW r \in Command, VerifyBatch(r)
  PROVE  IInv'
<1> DEFINE c == cmd[r]
           g == IF c.groups[1] # {} THEN 1 ELSE 2
           batch == First(c, c.groups[g], Min({Parallelism, Missing(c)}))
           G == [c.groups EXCEPT ![g] = @ \ batch]
           q == [c EXCEPT !.flight = batch, !.groups = G]
<1>1. c \in CmdRecord /\ CountInv(c) /\ FindInv(c) /\ SteadyInv(up, disk, c)
  BY Zenon, OfCommand
<1>2. c.op = "verify" /\ c.flight = {} /\ UNCHANGED <<disk, up, members, published, hints>>
  BY Zenon DEF VerifyBatch
<1>3. cmd' = [cmd EXCEPT ![r] = q]
  <2>1. cmd' = [cmd EXCEPT ![r] = [c EXCEPT !.flight = batch, !.groups[g] = @ \ batch]]
    BY Zenon DEF VerifyBatch
  <2> HIDE DEF batch, g, c
  <2>2. q = [c EXCEPT !.flight = batch, !.groups[g] = @ \ batch]
    OBVIOUS
  <2> HIDE DEF q
  <2> QED BY Zenon, <2>1, <2>2
<1>4. g \in 1..2 /\ c.groups \in [1..2 -> SUBSET Node]
  <2>1. 1 \in 1..2 /\ 2 \in 1..2
    OBVIOUS
  <2> QED BY Zenon, <1>1, <2>1, CmdFields
<1> HIDE DEF g
<1>5. batch \in SUBSET c.groups[g]
  BY Zenon DEF First
<1> HIDE DEF batch
<1>6. G \in [1..2 -> SUBSET Node] /\ G[g] = c.groups[g] \ batch /\ \A h \in 1..2 : h # g => G[h] = c.groups[h]
  BY Zenon, <1>4
<1> HIDE DEF G, c
<1>7. q \in CmdRecord
  <2>1. batch \in SUBSET Node
    BY Zenon, <1>4, <1>5
  <2> QED BY <1>1, <1>6, <2>1 DEF CmdRecord
<1>8. /\ q.flight = batch /\ q.op = c.op /\ q.pack = c.pack /\ q.groups = G /\ q.storing = c.storing /\ q.copies = c.copies
      /\ q.real = c.real /\ q.steady = c.steady
  BY <1>1 DEF CmdRecord
<1> HIDE DEF q
<1>9. /\ c.pack \in Pack /\ c.copies = Cardinality(c.real) /\ c.storing = {} /\ Apart(c.groups[1], c.groups[2])
      /\ \A h \in 1..2 : Apart(c.groups[h], c.real)
  BY Zenon, <1>1, <1>2 DEF CountInv
<1>10. \A h \in 1..2 : G[h] \in SUBSET c.groups[h] /\ Apart(G[h], batch)
  <2> SUFFICES ASSUME NEW h \in 1..2 PROVE G[h] \in SUBSET c.groups[h] /\ Apart(G[h], batch)
    BY Zenon
  <2>1. CASE h = g
    BY Zenon, <2>1, <1>6 DEF Apart
  <2>2. CASE h # g
    <3>1. (h = 1 /\ g = 2) \/ (h = 2 /\ g = 1)
      BY <2>2, <1>4
    <3>2. Apart(c.groups[h], c.groups[g])
      BY Zenon, <3>1, <1>9 DEF Apart
    <3> QED BY Zenon, <2>2, <3>2, <1>5, <1>6 DEF Apart
  <2> QED BY Zenon, <2>1, <2>2
<1>11. CountInv(q)
  <2>1. 1 \in 1..2 /\ 2 \in 1..2
    OBVIOUS
  <2>2. Apart(G[1], G[2])
    BY Zenon, <2>1, <1>9, <1>10 DEF Apart
  <2>3. Apart(c.real, batch)
    BY Zenon, <1>4, <1>5, <1>9 DEF Apart
  <2>4. \A h \in 1..2 : Apart(G[h], c.real) /\ Apart(G[h], batch)
    BY Zenon, <1>9, <1>10 DEF Apart
  <2>5. Apart(c.real, {}) /\ Apart(batch, {})
    BY Zenon DEF Apart
  <2> QED BY Zenon, <1>2, <1>8, <1>9, <2>2, <2>3, <2>4, <2>5 DEF CountInv
<1>12. FindInv(q)
  <2>1. q.op \notin {"verify_all", "recover"} /\ q.op # "download"
    BY <1>2, <1>8
  <2> SUFFICES ASSUME NEW n \in Node, NEW p \in Pack, <<n, p>> \in q.steady, q.pack = p
               PROVE  n \in q.real \/ n \in q.flight \/ \E h \in 1..2 : n \in q.groups[h]
    BY Zenon, <2>1 DEF FindInv
  <2>2. n \in c.real \/ \E h \in 1..2 : n \in c.groups[h]
    BY Zenon, <1>1, <1>2, <1>8 DEF FindInv
  <2>3. \A h \in 1..2 : n \in c.groups[h] => n \in batch \/ n \in G[h]
    BY Zenon, <1>6
  <2> QED BY Zenon, <1>8, <2>2, <2>3
<1>13. SteadyInv(up, disk, q)
  BY Zenon, <1>1, <1>8 DEF SteadyInv
<1> QED BY Zenon, <1>2, <1>3, <1>7, <1>11, <1>12, <1>13, QuietStep

(* What a verification makes of a probe: a copy that is there is counted, for  *)
(* a node that has it whole, and answers, says so.                             *)
LEMMA VerifyProbeStep ==
  ASSUME IInv, NEW r \in Command, NEW n \in Node, VerifyProbe(r, n)
  PROVE  IInv'
<1> DEFINE c == cmd[r]
           d == Asked(c, n)
<1>1. c \in CmdRecord /\ CountInv(c) /\ FindInv(c) /\ SteadyInv(up, disk, c)
  BY Zenon, OfCommand
<1>2. c.op = "verify" /\ n \in c.flight /\ UNCHANGED <<disk, up, members, published, hints>>
  BY Zenon DEF VerifyProbe
<1>3. \/ cmd' = [cmd EXCEPT ![r] = IF Probed(n, d.pack) = "present" THEN Confirm(d, n, disk[n][d.pack] = "whole") ELSE d]
      \/ cmd' = [cmd EXCEPT ![r] = Forgotten(d, {<<n, d.pack>>})]
  BY Zenon DEF VerifyProbe, Asked, Forgotten
<1> HIDE DEF c
<1>a. c.op \in {"push", "verify"}
  BY Zenon, <1>2
<1>4. n \notin d.flight /\ n \notin d.storing /\ n \notin d.real /\ \A g \in 1..2 : n \notin d.groups[g]
  BY Zenon, <1>1, <1>2, <1>a, Dropped
<1>5. /\ d \in CmdRecord /\ CountInv(d) /\ d.op = c.op /\ d.pack = c.pack /\ d.steady = c.steady /\ d.real = c.real
      /\ d.groups = c.groups /\ \A m \in c.flight : m = n \/ m \in d.flight
  BY Zenon, <1>1, <1>2, Dropped
<1>6. SteadyInv(up, disk, d)
  BY Zenon, <1>1, <1>5 DEF SteadyInv
<1>7. ASSUME NEW q \in CmdRecord, q.op = "verify", q.pack = d.pack, q.flight = d.flight, q.groups = d.groups,
             \A x \in q.steady : x \in d.steady, \A m \in d.real : m \in q.real, CountInv(q),
             n \in q.real \/ <<n, d.pack>> \notin q.steady, cmd' = [cmd EXCEPT ![r] = q]
      PROVE  IInv'
  <2>1. q.op \notin {"verify_all", "recover"} /\ q.op # "download"
    BY <1>7
  <2>2. FindInv(q)
    <3> SUFFICES ASSUME NEW m \in Node, NEW p \in Pack, <<m, p>> \in q.steady, q.pack = p
                 PROVE  m \in q.real \/ m \in q.flight \/ \E g \in 1..2 : m \in q.groups[g]
      BY Zenon, <2>1 DEF FindInv
    <3>1. <<m, p>> \in c.steady /\ c.pack = p
      BY Zenon, <1>5, <1>7
    <3>2. m \in c.real \/ m \in c.flight \/ \E g \in 1..2 : m \in c.groups[g]
      BY Zenon, <1>1, <1>2, <3>1 DEF FindInv
    <3>3. m \in c.real => m \in q.real
      BY Zenon, <1>5, <1>7
    <3>4. m \in c.flight => m \in q.flight \/ m \in q.real
      <4>1. m = n => n \in q.real
        BY Zenon, <1>7
      <4> QED BY Zenon, <4>1, <1>5, <1>7
    <3>5. \A g \in 1..2 : m \in c.groups[g] => m \in q.groups[g]
      BY Zenon, <1>5, <1>7
    <3> QED BY Zenon, <3>2, <3>3, <3>4, <3>5
  <2>3. SteadyInv(up, disk, q)
    BY Zenon, <1>6, <1>7 DEF SteadyInv
  <2> QED BY Zenon, <1>2, <1>7, <2>2, <2>3, QuietStep
<1>8. CASE Probed(n, d.pack) = "present" /\ cmd' = [cmd EXCEPT ![r] = Confirm(d, n, disk[n][d.pack] = "whole")]
  <2>1. disk[n][d.pack] = "whole"
    BY <1>8 DEF Probed, ProbeMetadataPack
  <2> DEFINE q == Counted(d, n)
  <2>2. Confirm(d, n, disk[n][d.pack] = "whole") = q
    BY <2>1 DEF Confirm, Counted
  <2>3. /\ q \in CmdRecord /\ CountInv(q) /\ q.op = d.op /\ q.steady = d.steady /\ q.pack = d.pack
        /\ q.flight = d.flight /\ q.groups = d.groups
    BY Zenon, <1>2, <1>4, <1>5, <1>a, Confirmed
  <2>4. q.real = d.real \cup {n}
    BY Zenon, <1>2, <1>4, <1>5, <1>a, Confirmed
  <2> HIDE DEF q
  <2>5. n \in q.real /\ \A m \in d.real : m \in q.real
    BY Zenon, <2>4
  <2>6. cmd' = [cmd EXCEPT ![r] = q]
    BY Zenon, <1>8, <2>2
  <2> QED BY Zenon, <1>2, <1>5, <1>7, <2>3, <2>5, <2>6
<1>9. CASE Probed(n, d.pack) # "present" /\ cmd' = [cmd EXCEPT ![r] = d]
  <2>1. <<n, d.pack>> \notin d.steady
    <3> SUFFICES ASSUME <<n, d.pack>> \in d.steady PROVE FALSE
      BY Zenon
    <3>1. d.pack \in Pack
      BY Zenon, <1>2, <1>5, <1>a DEF CountInv
    <3>2. n \in up /\ disk[n][d.pack] = "whole"
      BY Zenon, <1>6, <3>1 DEF SteadyInv
    <3> QED BY <1>9, <3>2 DEF Probed, ProbeMetadataPack
  <2> QED BY Zenon, <1>2, <1>5, <1>7, <1>9, <2>1
<1>10. CASE cmd' = [cmd EXCEPT ![r] = Forgotten(d, {<<n, d.pack>>})]
  <2> DEFINE L == {<<n, d.pack>>}
             q == Forgotten(d, L)
  <2>0. cmd' = [cmd EXCEPT ![r] = q] /\ <<n, d.pack>> \in L
    BY Zenon, <1>10
  <2> HIDE DEF L, d
  <2>1. /\ q \in CmdRecord /\ q.op = d.op /\ q.pack = d.pack /\ q.flight = d.flight /\ q.groups = d.groups /\ q.real = d.real
        /\ \A x \in q.steady : x \in d.steady /\ x \notin L
    <3>1. d \in CmdRecord
      BY Zenon, <1>5
    <3> QED BY ONLY <3>1, LessSteady
  <2>2. CountInv(q)
    BY Zenon, <1>5, LessSteadyInv
  <2> HIDE DEF q
  <2>3. <<n, d.pack>> \notin q.steady
    BY Zenon, <2>0, <2>1
  <2> QED BY Zenon, <1>2, <1>5, <1>7, <2>0, <2>1, <2>2, <2>3
<1>11. \/ Probed(n, d.pack) = "present" /\ cmd' = [cmd EXCEPT ![r] = Confirm(d, n, disk[n][d.pack] = "whole")]
       \/ Probed(n, d.pack) # "present" /\ cmd' = [cmd EXCEPT ![r] = d]
       \/ cmd' = [cmd EXCEPT ![r] = Forgotten(d, {<<n, d.pack>>})]
  BY Zenon, <1>3
<1> QED BY Zenon, <1>8, <1>9, <1>10, <1>11

-----------------------------------------------------------------------------
(* What a listing finds: a member that has a pack whole, and answers, names it.*)
LEMMA ListStep ==
  ASSUME IInv, NEW r \in Command, NEW n \in Node, List(r, n)
  PROVE  IInv'
<1> DEFINE c == cmd[r]
           d == Asked(c, n)
           S == {n} \X ListedBy(n)
           A == {n} \X Pack
<1>1. c \in CmdRecord /\ CountInv(c) /\ FindInv(c) /\ SteadyInv(up, disk, c)
  BY Zenon, OfCommand
<1>2. c.op \in {"verify_all", "recover"} /\ n \in c.flight /\ UNCHANGED <<disk, up, members, published, hints>>
  BY Zenon DEF List
<1>3. \/ cmd' = [cmd EXCEPT ![r] = [d EXCEPT !.sources = @ \cup S]]
      \/ cmd' = [cmd EXCEPT ![r] = Forgotten(d, A)]
  BY Zenon DEF List, Asked, Forgotten
<1>4. S \in SUBSET (Node \X Pack) /\ \A p \in Pack : n \in up /\ disk[n][p] = "whole" => <<n, p>> \in S
  <2>1. ListedBy(n) \in SUBSET Pack /\ \A p \in Pack : n \in up /\ disk[n][p] = "whole" => p \in ListedBy(n)
    BY Zenon DEF ListedBy, ListMetadataPacks
  <2> HIDE DEF IInv
  <2> QED BY <2>1
<1>5. \A p \in Pack : <<n, p>> \in A
  OBVIOUS
<1> HIDE DEF c, S, A
<1>6. /\ d \in CmdRecord /\ CountInv(d) /\ d.op = c.op /\ d.pack = c.pack /\ d.steady = c.steady /\ d.sources = c.sources
      /\ \A m \in c.flight : m = n \/ m \in d.flight
  BY Zenon, <1>1, <1>2, Dropped
<1> HIDE DEF d
<1>7. SteadyInv(up, disk, d)
  BY Zenon, <1>1, <1>6 DEF SteadyInv
<1>8. ASSUME NEW q \in CmdRecord, q.op = c.op, q.flight = d.flight, \A x \in q.steady : x \in d.steady,
             \A x \in c.sources : x \in q.sources, cmd' = [cmd EXCEPT ![r] = q],
             \A p \in Pack : <<n, p>> \in q.steady => <<n, p>> \in q.sources
      PROVE  IInv'
  <2>1. q.op \notin {"push", "verify"} /\ q.op # "verify" /\ q.op # "download"
    BY <1>2, <1>8
  <2>2. CountInv(q)
    BY Zenon, <2>1 DEF CountInv
  <2>3. FindInv(q)
    <3> SUFFICES ASSUME NEW m \in Node, NEW p \in Pack, <<m, p>> \in q.steady
                 PROVE  <<m, p>> \in q.sources \/ m \in q.flight
      BY Zenon, <2>1 DEF FindInv
    <3>1. <<m, p>> \in c.sources \/ m \in c.flight
      BY Zenon, <1>1, <1>2, <1>6, <1>8 DEF FindInv
    <3>2. m = n => <<m, p>> \in q.sources
      BY Zenon, <1>8
    <3> QED BY Zenon, <3>1, <3>2, <1>6, <1>8
  <2>4. SteadyInv(up, disk, q)
    BY Zenon, <1>7, <1>8 DEF SteadyInv
  <2> QED BY Zenon, <1>2, <1>8, <2>2, <2>3, <2>4, QuietStep
<1>9. CASE cmd' = [cmd EXCEPT ![r] = [d EXCEPT !.sources = @ \cup S]]
  <2> DEFINE T == d.sources \cup S
             q == [d EXCEPT !.sources = T]
  <2>1. T \in SUBSET (Node \X Pack) /\ (\A x \in c.sources : x \in T) /\ \A x \in S : x \in T
    <3>1. d.sources \in SUBSET (Node \X Pack)
      BY Zenon, <1>6, CmdFields
    <3> QED BY Zenon, <3>1, <1>4, <1>6
  <2>2. cmd' = [cmd EXCEPT ![r] = q]
    BY Zenon, <1>9
  <2> HIDE DEF T
  <2>3. q \in CmdRecord
    BY <1>6, <2>1 DEF CmdRecord
  <2>4. q.op = d.op /\ q.flight = d.flight /\ q.steady = d.steady /\ q.sources = T
    BY <1>6 DEF CmdRecord
  <2> HIDE DEF q
  <2>5. \A p \in Pack : <<n, p>> \in q.steady => <<n, p>> \in q.sources
    BY Zenon, <1>4, <1>7, <2>1, <2>4 DEF SteadyInv
  <2> QED BY Zenon, <1>6, <1>8, <2>1, <2>2, <2>3, <2>4, <2>5
<1>10. CASE cmd' = [cmd EXCEPT ![r] = Forgotten(d, A)]
  <2> DEFINE q == Forgotten(d, A)
  <2>1. /\ q \in CmdRecord /\ q.op = d.op /\ q.flight = d.flight /\ q.sources = d.sources
        /\ \A x \in q.steady : x \in d.steady /\ x \notin A
    <3>1. d \in CmdRecord
      BY Zenon, <1>6
    <3> QED BY ONLY <3>1, LessSteady
  <2>2. cmd' = [cmd EXCEPT ![r] = q]
    BY Zenon, <1>10
  <2> HIDE DEF q
  <2>3. \A p \in Pack : <<n, p>> \notin q.steady
    BY Zenon, <1>5, <2>1
  <2> QED BY Zenon, <1>6, <1>8, <2>1, <2>2, <2>3
<1> QED BY Zenon, <1>3, <1>9, <1>10

(* Every member has answered a recovery: where each pack can be had.           *)
LEMMA CandidatesStep ==
  ASSUME IInv, NEW r \in Command, Candidates(r)
  PROVE  IInv'
<1> DEFINE c == cmd[r]
           L == [p \in Pack |-> IF c.pack \in {0, p} THEN SourcesOf(c, p) ELSE {}]
           q == [c EXCEPT !.op = "download", !.left = L]
<1>1. c \in CmdRecord /\ CountInv(c) /\ FindInv(c) /\ SteadyInv(up, disk, c)
  BY Zenon, OfCommand
<1>2. c.op = "recover" /\ c.flight = {} /\ UNCHANGED <<disk, up, members, published, hints>> /\ cmd' = [cmd EXCEPT ![r] = q]
  BY Zenon DEF Candidates
<1>3. L \in [Pack -> SUBSET Node] /\ \A n \in Node, p \in Pack : <<n, p>> \in c.sources /\ c.pack \in {0, p} => n \in L[p]
  BY Zenon DEF SourcesOf
<1> HIDE DEF L, c
<1>4. q \in CmdRecord
  BY <1>1, <1>3 DEF CmdRecord
<1>5. q.op = "download" /\ q.left = L /\ q.pack = c.pack /\ q.steady = c.steady
  BY <1>1 DEF CmdRecord
<1> HIDE DEF q
<1>6. q.op \notin {"push", "verify"} /\ q.op # "verify" /\ q.op \notin {"verify_all", "recover"} /\ c.op \in {"verify_all", "recover"}
  BY <1>2, <1>5
<1>7. CountInv(q)
  BY Zenon, <1>6 DEF CountInv
<1>8. FindInv(q)
  <2> SUFFICES ASSUME NEW n \in Node, NEW p \in Pack, <<n, p>> \in q.steady, q.pack \in {0, p}
               PROVE  n \in q.left[p]
    BY Zenon, <1>6 DEF FindInv
  <2>1. <<n, p>> \in c.sources
    BY Zenon, <1>1, <1>2, <1>5, <1>6 DEF FindInv
  <2> QED BY Zenon, <1>3, <1>5, <2>1
<1>9. SteadyInv(up, disk, q)
  BY Zenon, <1>1, <1>5 DEF SteadyInv
<1> QED BY Zenon, <1>2, <1>4, <1>7, <1>8, <1>9, QuietStep

(* The least of a set of numbers.                                              *)
LEMMA MinOf ==
  ASSUME NEW S \in SUBSET Nat, S # {}
  PROVE  Min(S) \in S
<1> DEFINE R == OpToRel(<, Nat)
<1>1. PICK m \in S : \A y \in S : ~ (<<y, m>> \in R)
  <2>1. IsWellFoundedOn(R, Nat)
    BY NatLessThanWellFounded
  <2> HIDE DEF R
  <2> QED BY Zenon, <2>1, WFMin
<1>2. \A u, t \in Nat : u < t => <<u, t>> \in R
  BY DEF OpToRel
<1> HIDE DEF R
<1>3. \A y \in S : ~(y < m)
  BY Zenon, <1>1, <1>2
<1> HIDE <1>1
<1>4. \A y \in S : m <= y
  BY <1>3
<1> QED BY Zenon, <1>4 DEF Min

(* A recovery takes a pack from one source after the other: one that has it    *)
(* whole, and answers, is the last it needs.                                   *)
LEMMA DownloadStep ==
  ASSUME IInv, NEW r \in Command, NEW p \in Pack, Download(r, p)
  PROVE  IInv'
<1> DEFINE c == cmd[r]
           n == Min(c.left[p])
           L == [c.left EXCEPT ![p] = @ \ {n}]
           E == [c.left EXCEPT ![p] = {}]
           V == c.valid \cup {p}
           d == [c EXCEPT !.left = L]
           e == [c EXCEPT !.left = E, !.valid = V]
<1>1. c \in CmdRecord /\ CountInv(c) /\ FindInv(c) /\ SteadyInv(up, disk, c)
  BY Zenon, OfCommand
<1>2. c.op = "download" /\ c.left[p] # {} /\ UNCHANGED <<disk, up, members, published, hints>>
  BY Zenon DEF Download
<1>3. \/ Retrieved(n, p) = {} /\ cmd' = [cmd EXCEPT ![r] = d]
      \/ cmd' = [cmd EXCEPT ![r] = e]
      \/ cmd' = [cmd EXCEPT ![r] = Forgotten(d, {<<n, p>>})]
  <2>1. \/ cmd' = [cmd EXCEPT ![r] = IF Retrieved(n, p) = {} THEN [c EXCEPT !.left[p] = @ \ {n}]
                                     ELSE [c EXCEPT !.left[p] = {}, !.valid = @ \cup {p}]]
        \/ cmd' = [cmd EXCEPT ![r] = [[c EXCEPT !.left[p] = @ \ {n}] EXCEPT !.steady = @ \ {<<n, p>>}]]
    BY Zenon DEF Download, Alternatives
  <2> HIDE DEF c, n
  <2>2. d = [c EXCEPT !.left[p] = @ \ {n}] /\ e = [c EXCEPT !.left[p] = {}, !.valid = @ \cup {p}]
    OBVIOUS
  <2>3. Forgotten(d, {<<n, p>>}) = [d EXCEPT !.steady = @ \ {<<n, p>>}]
    BY Zenon DEF Forgotten
  <2> HIDE DEF d, e
  <2> QED BY Zenon, <2>1, <2>2, <2>3
<1>4. c.left \in [Pack -> SUBSET Node] /\ c.valid \in SUBSET Pack
  BY Zenon, <1>1, CmdFields
<1>5. n \in c.left[p] /\ n \in Node
  <2>1. c.left[p] \in SUBSET Nat
    BY Zenon, <1>4, CustodyAssumption
  <2> HIDE DEF c
  <2> QED BY Zenon, <1>2, <1>4, <2>1, MinOf
<1> HIDE DEF c, n
<1>6. /\ L \in [Pack -> SUBSET Node] /\ L[p] = c.left[p] \ {n} /\ \A o \in Pack : o # p => L[o] = c.left[o]
      /\ E \in [Pack -> SUBSET Node] /\ \A o \in Pack : o # p => E[o] = c.left[o]
      /\ V \in SUBSET Pack /\ p \in V /\ \A o \in c.valid : o \in V
  BY Zenon, <1>4
<1> HIDE DEF L, E, V
<1>7. d \in CmdRecord /\ e \in CmdRecord
  BY <1>1, <1>6 DEF CmdRecord
<1>8. /\ d.op = "download" /\ d.pack = c.pack /\ d.left = L /\ d.valid = c.valid /\ d.steady = c.steady
      /\ e.op = "download" /\ e.pack = c.pack /\ e.left = E /\ e.valid = V /\ e.steady = c.steady
  BY <1>1, <1>2 DEF CmdRecord
<1> HIDE DEF d, e
<1>9. ASSUME NEW q \in CmdRecord, q.op = "download", q.pack = c.pack, \A x \in q.steady : x \in c.steady,
             \A o \in c.valid : o \in q.valid, \A o \in Pack : o # p => q.left[o] = c.left[o],
             \A m \in Node : <<m, p>> \in q.steady /\ m \in c.left[p] => p \in q.valid \/ m \in q.left[p],
             cmd' = [cmd EXCEPT ![r] = q]
      PROVE  IInv'
  <2>1. q.op \notin {"push", "verify"} /\ q.op # "verify" /\ q.op \notin {"verify_all", "recover"}
    BY <1>9
  <2>2. CountInv(q)
    BY Zenon, <2>1 DEF CountInv
  <2>3. FindInv(q)
    <3> SUFFICES ASSUME NEW m \in Node, NEW o \in Pack, <<m, o>> \in q.steady, q.pack \in {0, o}
                 PROVE  o \in q.valid \/ m \in q.left[o]
      BY Zenon, <2>1 DEF FindInv
    <3>1. o \in c.valid \/ m \in c.left[o]
      BY Zenon, <1>1, <1>2, <1>9 DEF FindInv
    <3>2. CASE o = p
      BY Zenon, <3>1, <3>2, <1>9
    <3>3. CASE o # p
      BY Zenon, <3>1, <3>3, <1>9
    <3> QED BY Zenon, <3>2, <3>3
  <2>4. SteadyInv(up, disk, q)
    BY Zenon, <1>1, <1>9 DEF SteadyInv
  <2> QED BY Zenon, <1>2, <1>9, <2>2, <2>3, <2>4, QuietStep
<1>10. CASE cmd' = [cmd EXCEPT ![r] = e]
  BY Zenon, <1>6, <1>7, <1>8, <1>9, <1>10
<1>11. CASE Retrieved(n, p) = {} /\ cmd' = [cmd EXCEPT ![r] = d]
  <2>1. <<n, p>> \notin c.steady
    <3> SUFFICES ASSUME <<n, p>> \in c.steady PROVE FALSE
      BY Zenon
    <3>1. n \in up /\ disk[n][p] = "whole"
      BY Zenon, <1>1, <1>5 DEF SteadyInv
    <3>2. Retrieved(n, p) = {p}
      BY Zenon, <3>1 DEF Retrieved, RetrieveMetadataPack
    <3> QED BY <1>11, <3>2
  <2>2. \A m \in Node : <<m, p>> \in d.steady /\ m \in c.left[p] => m \in d.left[p]
    BY Zenon, <2>1, <1>6, <1>8
  <2> QED BY Zenon, <1>6, <1>7, <1>8, <1>9, <1>11, <2>2
<1>12. CASE cmd' = [cmd EXCEPT ![r] = Forgotten(d, {<<n, p>>})]
  <2> DEFINE A == {<<n, p>>}
             q == Forgotten(d, A)
  <2>0. cmd' = [cmd EXCEPT ![r] = q] /\ <<n, p>> \in A
    BY Zenon, <1>12
  <2> HIDE DEF A
  <2>1. /\ q \in CmdRecord /\ q.op = d.op /\ q.pack = d.pack /\ q.left = d.left /\ q.valid = d.valid
        /\ \A x \in q.steady : x \in d.steady /\ x \notin A
    <3>1. d \in CmdRecord
      BY Zenon, <1>7
    <3> QED BY ONLY <3>1, LessSteady
  <2> HIDE DEF q
  <2>2. \A m \in Node : <<m, p>> \in q.steady /\ m \in c.left[p] => m \in q.left[p]
    BY Zenon, <2>0, <2>1, <1>6, <1>8
  <2>3. q.op = "download" /\ q.pack = c.pack /\ (\A x \in q.steady : x \in c.steady) /\ \A o \in c.valid : o \in q.valid
    BY Zenon, <1>8, <2>1
  <2>4. q \in CmdRecord /\ \A o \in Pack : o # p => q.left[o] = c.left[o]
    BY Zenon, <1>6, <1>8, <2>1
  <2> QED BY Zenon, <1>9, <2>0, <2>2, <2>3, <2>4
<1> QED BY Zenon, <1>3, <1>10, <1>11, <1>12

-----------------------------------------------------------------------------
(* A command ends, or is killed; what it recorded has the catalogue's types.   *)
LEMMA EndStep ==
  ASSUME IInv, NEW r \in Command, Finish(r) \/ Killed(r)
  PROVE  IInv'
<1> DEFINE c == cmd[r]
<1>1. c \in CmdRecord /\ CountInv(c)
  BY Zenon, OfCommand
<1>2. cmd' = [cmd EXCEPT ![r] = Idle] /\ disk' = disk /\ up' = up /\ members' = members
  BY Zenon DEF Finish, Killed
<1>3. published \in [Pack -> Nat] /\ hints \in [Pack -> [Node -> Nat]]
  BY Zenon DEF IInv, Types, Cluster
<1>4. published' \in [Pack -> Nat] /\ hints' \in [Pack -> [Node -> Nat]]
  <2>1. CASE Finish(r)
    <3>1. published' = Recorded(c)
          /\ hints' = [p \in Pack |-> IF Observed(c, p) THEN Refreshed(hints[p], SourcesOf(c, p)) ELSE hints[p]]
      BY Zenon, <2>1 DEF Finish
    <3> HIDE DEF c
    <3>2. Recorded(c) \in [Pack -> Nat]
      <4>1. CASE c.op = "push"
        <5>1. c.pack \in Pack /\ c.intent \in [Pack -> Nat]
          <6>1. c.op \in {"push", "verify"}
            BY Zenon, <4>1
          <6> QED BY Zenon, <1>1, <6>1, CmdFields DEF CountInv
        <5>2. Desired(c) \in Nat
          BY Zenon, <5>1 DEF Desired
        <5> QED BY Zenon, <1>3, <4>1, <5>1, <5>2 DEF Recorded
      <4>2. CASE c.op # "push"
        BY Zenon, <1>3, <4>2 DEF Recorded
      <4> QED BY Zenon, <4>1, <4>2
    <3>3. \A p \in Pack : Refreshed(hints[p], SourcesOf(c, p)) \in [Node -> Nat] /\ hints[p] \in [Node -> Nat]
      <4> SUFFICES ASSUME NEW p \in Pack
                   PROVE  Refreshed(hints[p], SourcesOf(c, p)) \in [Node -> Nat] /\ hints[p] \in [Node -> Nat]
        BY Zenon
      <4>1. SourcesOf(c, p) \in SUBSET Node /\ hints[p] \in [Node -> Nat]
        BY Zenon, <1>3 DEF SourcesOf
      <4> QED BY Zenon, <4>1, RefreshedType
    <3> QED BY Zenon, <3>1, <3>2, <3>3
  <2>2. CASE Killed(r)
    BY Zenon, <1>3, <2>2 DEF Killed
  <2> QED BY Zenon, <2>1, <2>2
<1>5. Cluster' /\ Keeps
  BY Zenon, <1>2, <1>4 DEF IInv, Types, Cluster, Keeps
<1> QED BY Zenon, <1>2, <1>5, IdleIs, IdleInv, CmdStep

(* The commands no longer count on copies that may be lost with a step; the    *)
(* others stay.                                                                *)
LEMMA LossStep ==
  ASSUME IInv, Cluster', NEW L, cmd' = Without(L),
         \A n \in Node, p \in Pack : <<n, p>> \notin L /\ n \in up /\ disk[n][p] = "whole" => n \in up' /\ disk'[n][p] = "whole"
  PROVE  IInv'
<1>1. \A s \in Command : cmd'[s] = Forgotten(cmd[s], L)
  BY Zenon DEF Without, Forgotten
<1>2. cmd' = [s \in Command |-> cmd'[s]]
  BY Zenon DEF Without
<1>3. ASSUME NEW s \in Command
      PROVE  cmd'[s] \in CmdRecord /\ CountInv(cmd'[s]) /\ FindInv(cmd'[s]) /\ SteadyInv(up', disk', cmd'[s])
  <2> DEFINE c == cmd[s]
             q == Forgotten(c, L)
  <2>1. c \in CmdRecord /\ CountInv(c) /\ FindInv(c) /\ SteadyInv(up, disk, c)
    BY Zenon, OfCommand
  <2>2. cmd'[s] = q
    BY Zenon, <1>1
  <2> HIDE DEF c
  <2>3. q \in CmdRecord /\ \A x \in q.steady : x \in c.steady /\ x \notin L
    <3>1. c \in CmdRecord
      BY Zenon, <2>1
    <3> QED BY ONLY <3>1, LessSteady
  <2>4. CountInv(q) /\ FindInv(q)
    BY Zenon, <2>1, LessSteadyInv
  <2> HIDE DEF q
  <2>5. SteadyInv(up', disk', q)
    BY Zenon, <2>1, <2>3 DEF SteadyInv
  <2> QED BY Zenon, <2>2, <2>3, <2>4, <2>5
<1>4. cmd' \in [Command -> CmdRecord]
  BY Zenon, <1>2, <1>3
<1> QED BY Zenon, <1>3, <1>4 DEF IInv, Types

(* What happens to nodes and their copies.                                     *)
LEMMA NodeStep ==
  ASSUME IInv, NEW n \in Node, Down(n) \/ Leave(n) \/ Return(n) \/ \E p \in Pack : Lose(n, p)
  PROVE  IInv'
<1>1. /\ disk \in [Node -> [Pack -> Disk]] /\ up \in SUBSET Node /\ members \in SUBSET Node
      /\ published \in [Pack -> Nat] /\ hints \in [Pack -> [Node -> Nat]] /\ cmd \in [Command -> CmdRecord]
  BY Zenon DEF IInv, Types, Cluster
<1>2. CASE Down(n)
  <2> DEFINE L == {n} \X Pack
  <2>1. up' = up \ {n} /\ cmd' = Without(L) /\ disk' = disk /\ members' = members /\ published' = published /\ hints' = hints
    BY Zenon, <1>2 DEF Down
  <2>2. \A p \in Pack : <<n, p>> \in L
    OBVIOUS
  <2> HIDE DEF L
  <2>3. Cluster'
    BY Zenon, <1>1, <2>1 DEF Cluster
  <2>4. \A m \in Node, p \in Pack : <<m, p>> \notin L /\ m \in up /\ disk[m][p] = "whole" => m \in up' /\ disk'[m][p] = "whole"
    BY Zenon, <2>1, <2>2
  <2> QED BY Zenon, <2>1, <2>3, <2>4, LossStep
<1>3. ASSUME NEW p \in Pack, Lose(n, p) PROVE IInv'
  <2>1. PICK t \in {"none", "unsigned", "damaged"} : disk' = [disk EXCEPT ![n][p] = t]
    BY Zenon, <1>3 DEF Lose
  <2> DEFINE L == {<<n, p>>}
  <2>2. cmd' = Without(L) /\ up' = up /\ members' = members /\ published' = published /\ hints' = hints
    BY Zenon, <1>3 DEF Lose
  <2>3. <<n, p>> \in L
    OBVIOUS
  <2> HIDE DEF L
  <2>t. t \in Disk
    BY DEF Disk
  <2>4. disk' \in [Node -> [Pack -> Disk]] /\ \A m \in Node, o \in Pack : m # n \/ o # p => disk'[m][o] = disk[m][o]
    <3> HIDE DEF Disk
    <3> QED BY <1>1, <2>1, <2>t
  <2>5. Cluster'
    BY Zenon, <1>1, <2>2, <2>4 DEF Cluster
  <2>6. \A m \in Node, o \in Pack : <<m, o>> \notin L /\ m \in up /\ disk[m][o] = "whole" => m \in up' /\ disk'[m][o] = "whole"
    <3> SUFFICES ASSUME NEW m \in Node, NEW o \in Pack, <<m, o>> \notin L, m \in up, disk[m][o] = "whole"
                 PROVE  m \in up' /\ disk'[m][o] = "whole"
      BY Zenon
    <3>1. m # n \/ o # p
      BY Zenon, <2>3
    <3> QED BY Zenon, <3>1, <2>2, <2>4
  <2> QED BY Zenon, <2>2, <2>5, <2>6, LossStep
<1>4. CASE Leave(n) \/ Return(n)
  <2>1. /\ disk' = disk /\ published' = published /\ hints' = hints /\ cmd' = cmd
        /\ members' \in SUBSET Node /\ up' \in SUBSET Node /\ \A m \in up : m \in up'
    BY Zenon, <1>1, <1>4 DEF Leave, Return
  <2>2. Cluster'
    BY Zenon, <1>1, <2>1 DEF Cluster
  <2>3. ASSUME NEW s \in Command PROVE CountInv(cmd'[s]) /\ FindInv(cmd'[s]) /\ SteadyInv(up', disk', cmd'[s])
    <3>1. CountInv(cmd[s]) /\ FindInv(cmd[s]) /\ SteadyInv(up, disk, cmd[s]) /\ cmd'[s] = cmd[s]
      BY Zenon, <2>1, OfCommand
    <3>2. SteadyInv(up', disk', cmd[s])
      BY Zenon, <2>1, <3>1 DEF SteadyInv
    <3> QED BY Zenon, <3>1, <3>2
  <2> QED BY Zenon, <1>1, <2>1, <2>2, <2>3 DEF IInv, Types
<1> QED BY Zenon, <1>2, <1>3, <1>4

-----------------------------------------------------------------------------
(* The invariant holds of every behaviour of the owner's commands and the      *)
(* custodians, whatever fails.                                                 *)
THEOREM Invariance == Spec => []IInv
<1>1. Init => IInv
  <2> SUFFICES ASSUME Init PROVE IInv
    OBVIOUS
  <2>1. 0 \in Nat /\ "none" \in Disk
    BY DEF Disk
  <2>2. Cluster
    BY Zenon, <2>1 DEF Init, Cluster, NoIntent, Unseen
  <2>3. cmd = [r \in Command |-> Idle]
    BY Zenon DEF Init
  <2> QED BY Zenon, <2>2, <2>3, IdleIs, IdleInv DEF IInv, Types
<1>2. IInv /\ [Next]_vars => IInv'
  <2> SUFFICES ASSUME IInv, [Next]_vars PROVE IInv'
    OBVIOUS
  <2>1. ASSUME NEW r \in Command, VerifyAll(r) \/ Recover(r, 0) \/ VerifyBatch(r) \/ Candidates(r) \/ Finish(r) \/ Killed(r)
        PROVE  IInv'
    BY Zenon, <2>1, ListingStep, VerifyBatchStep, CandidatesStep, EndStep
  <2>2. ASSUME NEW r \in Command, NEW p \in Pack, Push(r, p) \/ Verify(r, p) \/ Recover(r, p) \/ Download(r, p)
        PROVE  IInv'
    BY Zenon, <2>2, PushStep, VerifyStep, ListingStep, DownloadStep
  <2>3. ASSUME NEW r \in Command, NEW n \in Node, PushProbe(r, n) \/ PushStore(r, n) \/ VerifyProbe(r, n) \/ List(r, n)
        PROVE  IInv'
    BY Zenon, <2>3, PushProbeStep, PushStoreStep, VerifyProbeStep, ListStep
  <2>4. ASSUME NEW n \in Node, Down(n) \/ Leave(n) \/ Return(n) \/ \E p \in Pack : Lose(n, p)
        PROVE  IInv'
    BY Zenon, <2>4, NodeStep
  <2>5. CASE UNCHANGED vars
    <3>1. /\ disk' = disk /\ up' = up /\ members' = members /\ published' = published /\ hints' = hints /\ cmd' = cmd
      BY Zenon, <2>5 DEF vars
    <3> QED BY Zenon, <3>1 DEF IInv, Types, Cluster
  <2> QED BY Zenon, <2>1, <2>2, <2>3, <2>4, <2>5 DEF Next
<1> QED BY <1>1, <1>2, PTL DEF Spec

(* Copies that are short of, or at, the number that is desired.                *)
LEMMA PresenceIs ==
  ASSUME NEW copies \in Nat, NEW desired \in Nat
  PROVE  /\ PresenceState(copies, desired) = "VERIFIED" => copies >= desired
         /\ PresenceState(copies, desired) \in {"DEGRADED", "FAILED"} => desired > copies
  BY DEF PresenceState

(* A push that reports the pack protected, and a verification that reports     *)
(* VERIFIED, rest on as many different nodes, each of which had the whole,     *)
(* signed pack when it answered this command.                                  *)
THEOREM ConfirmedCopiesAreReal == Spec => []ConfirmedIsReal
<1>1. IInv => ConfirmedIsReal
  <2> SUFFICES ASSUME IInv, NEW r \in Command, cmd[r].op \in {"push", "verify"},
                      PresenceState(cmd[r].copies, Desired(cmd[r])) = "VERIFIED"
               PROVE  Cardinality(cmd[r].real) >= Desired(cmd[r])
    BY Zenon DEF ConfirmedIsReal
  <2> DEFINE c == cmd[r]
  <2>1. c \in CmdRecord /\ CountInv(c)
    BY Zenon, OfCommand
  <2>2. c.copies = Cardinality(c.real) /\ c.pack \in Pack
    BY Zenon, <2>1 DEF CountInv
  <2>3. c.copies \in Nat /\ Desired(c) \in Nat
    BY Zenon, <2>1, <2>2, CmdFields DEF Desired
  <2> QED BY Zenon, <2>2, <2>3, PresenceIs
<1> QED BY <1>1, Invariance, PTL

(* A verification that does not report VERIFIED is right: fewer nodes of its   *)
(* view than desired kept the pack and answered all the while.                 *)
THEOREM AlarmsAreTrue == Spec => []NoFalseAlarm
<1>1. IInv => NoFalseAlarm
  <2> SUFFICES ASSUME IInv, NEW r \in Command, NEW p \in Pack, Answered(cmd[r]),
                      (cmd[r].op = "verify" /\ cmd[r].pack = p) \/ cmd[r].op = "verify_all",
                      PresenceState(IF cmd[r].op = "verify" THEN cmd[r].copies ELSE Cardinality(SourcesOf(cmd[r], p)),
                                    cmd[r].intent[p]) \in {"DEGRADED", "FAILED"}
               PROVE  Cardinality({n \in Node : <<n, p>> \in cmd[r].steady}) < cmd[r].intent[p]
    BY Zenon DEF NoFalseAlarm
  <2> DEFINE c == cmd[r]
             K == {n \in Node : <<n, p>> \in c.steady}
             seen == IF c.op = "verify" THEN c.copies ELSE Cardinality(SourcesOf(c, p))
  <2>1. c \in CmdRecord /\ CountInv(c) /\ FindInv(c)
    BY Zenon, OfCommand
  <2>2. c.intent[p] \in Nat /\ c.copies \in Nat /\ c.real \in SUBSET Node
    BY Zenon, <2>1, CmdFields
  <2>3. \A S \in SUBSET Node : IsFiniteSet(S) /\ Cardinality(S) \in Nat
    BY Zenon, CustodyAssumption, FS_Subset, FS_CardinalityType
  <2>4. ASSUME NEW S \in SUBSET Node, K \subseteq S, Cardinality(S) = seen
        PROVE  Cardinality(K) < c.intent[p]
    <3>1. Cardinality(K) <= Cardinality(S)
      BY Zenon, <2>3, <2>4, FS_Subset
    <3>2. Cardinality(S) \in Nat /\ Cardinality(K) \in Nat
      BY Zenon, <2>3, <2>4
    <3>3. PresenceState(Cardinality(S), c.intent[p]) \in {"DEGRADED", "FAILED"}
      BY Zenon, <2>4
    <3> HIDE DEF c, K
    <3>4. c.intent[p] > Cardinality(S)
      BY Zenon, <2>2, <3>2, <3>3, PresenceIs
    <3> QED BY <2>2, <3>1, <3>2, <3>4
  <2>5. CASE c.op = "verify" /\ c.pack = p
    <3>1. seen = c.copies
      BY Zenon, <2>5
    <3>2. c.copies = Cardinality(c.real)
      <4>1. c.op \in {"push", "verify"}
        BY Zenon, <2>5
      <4> QED BY Zenon, <2>1, <4>1 DEF CountInv
    <3>3. c.intent[p] > c.copies
      <4>1. PresenceState(c.copies, c.intent[p]) \in {"DEGRADED", "FAILED"}
        BY Zenon, <3>1
      <4> HIDE DEF c
      <4> QED BY Zenon, <2>2, <4>1, PresenceIs
    <3>4. ~Asking(c)
      <4>1. c.op = "verify" /\ Answered(c)
        BY Zenon, <2>5
      <4> HIDE DEF c
      <4> QED BY <4>1 DEF Answered
    <3> HIDE DEF c
    <3>5. Missing(c) > 0
      BY <2>2, <2>5, <3>3 DEF Missing, Desired
    <3>6. c.flight = {} /\ \A g \in 1..2 : c.groups[g] = {}
      BY Zenon, <3>4, <3>5 DEF Asking
    <3>7. K \subseteq c.real
      BY Zenon, <2>1, <2>5, <3>6 DEF FindInv
    <3> HIDE DEF K, seen
    <3>8. Cardinality(K) < c.intent[p]
      BY Zenon, <2>2, <2>4, <3>1, <3>2, <3>7
    <3> QED BY Zenon, <3>8 DEF K, c
  <2>6. CASE c.op = "verify_all"
    <3>1. c.op # "verify"
      BY <2>6
    <3>2. seen = Cardinality(SourcesOf(c, p))
      BY Zenon, <3>1
    <3>3. c.flight = {}
      <4>1. Answered(c)
        OBVIOUS
      <4> HIDE DEF c
      <4> QED BY <2>6, <4>1 DEF Answered
    <3> HIDE DEF c
    <3>4. K \subseteq SourcesOf(c, p) /\ SourcesOf(c, p) \in SUBSET Node
      <4>1. c.op \in {"verify_all", "recover"}
        BY Zenon, <2>6
      <4> QED BY Zenon, <2>1, <3>3, <4>1 DEF FindInv, SourcesOf
    <3> HIDE DEF K, seen
    <3>5. Cardinality(K) < c.intent[p]
      BY Zenon, <2>4, <3>2, <3>4
    <3> QED BY Zenon, <3>5 DEF K, c
  <2> QED BY Zenon, <2>5, <2>6
<1> QED BY <1>1, Invariance, PTL

(* A recovery ends with a pack at least as new as every pack it was asked for  *)
(* that a node of its view kept whole, and answered for, all the while.        *)
THEOREM TheNewestIsRecovered == Spec => []NewestRecovered
<1>1. IInv => NewestRecovered
  <2> SUFFICES ASSUME IInv, NEW r \in Command, cmd[r].op = "download", Answered(cmd[r]),
                      NEW x \in cmd[r].steady, cmd[r].pack \in {0, x[2]}
               PROVE  cmd[r].valid # {} /\ Best(cmd[r]) >= x[2]
    BY Zenon DEF NewestRecovered
  <2> DEFINE c == cmd[r]
  <2>1. c \in CmdRecord /\ FindInv(c)
    BY Zenon, OfCommand
  <2>2. c.steady \in SUBSET (Node \X Pack) /\ c.valid \in SUBSET Pack
    BY Zenon, <2>1, CmdFields
  <2>3. x[1] \in Node /\ x[2] \in Pack /\ <<x[1], x[2]>> \in c.steady
    <3> HIDE DEF c
    <3>1. x \in c.steady
      BY Zenon DEF c
    <3> QED BY <2>2, <3>1
  <2>4. \A p \in Pack : c.left[p] = {}
    <3>1. c.op = "download" /\ Answered(c)
      OBVIOUS
    <3> HIDE DEF c
    <3> QED BY <3>1 DEF Answered
  <2>5. x[2] \in c.valid
    BY Zenon, <2>1, <2>3, <2>4 DEF FindInv
  <2>6. c.valid \in SUBSET Nat /\ IsFiniteSet(c.valid)
    <3>1. Pack \in SUBSET Nat
      BY CustodyAssumption
    <3> QED BY Zenon, <3>1, <2>2, CustodyAssumption, FS_Subset
  <2> HIDE DEF c
  <2>7. c.valid # {} /\ Max(c.valid) >= x[2]
    BY Zenon, <2>5, <2>6, MaxOfFinite
  <2> QED BY Zenon, <2>7 DEF Best, c
<1> QED BY <1>1, Invariance, PTL
====
