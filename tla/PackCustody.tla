---------------------------- MODULE PackCustody ----------------------------
(***************************************************************************)
(* The owner's side of the custody of metadata packs: `metadata push'      *)
(* gives copies of a pack to other nodes, `metadata pack verify' audits    *)
(* them against the intention recorded in the catalogue, and `metadata     *)
(* recover' finds the newest pack on the network.  Several commands run at *)
(* a time, each with several requests in flight, over nodes that go away,  *)
(* return, and lose or damage what they keep.                              *)
(*                                                                         *)
(* A pack is named by its generation.  How a custodian admits and prunes   *)
(* packs on its disk is MetadataPackStore; how packs are made and what an  *)
(* import does with one are MetadataGraph and MetadataExchange.            *)
(***************************************************************************)
EXTENDS Integers, FiniteSets, FiniteSetsExt, Functions

CONSTANTS
    Node,           \* remote members, numbered in the order of their ids and addresses
    Pack,           \* the owner's packs, numbered by vault_generation
    Score,          \* Score[p][n]: the place of n by its _hrw_score for p
    Command,        \* the commands that may run at the same time
    Rf,             \* the numbers of copies a push may ask for
    Parallelism,    \* target_parallelism
    MaxCommands,    \* bound: commands started
    MaxFaults       \* bound: events that take a node or a copy away, and lost answers

ASSUME CustodyAssumption ==
    /\ Node \subseteq Nat /\ Pack \subseteq Nat \ {0} /\ Rf \subseteq Nat \ {0}
    /\ IsFiniteSet(Node) /\ IsFiniteSet(Pack) /\ Parallelism \in Nat \ {0}
    /\ \A p \in Pack : Score[p] \in [Node -> Nat] /\ IsInjective(Score[p])

VARIABLES
    disk,       \* what a node has of a pack: "none", "whole", "unsigned", "damaged"
    up,         \* the nodes that answer
    members,    \* the nodes in the cluster views
    published,  \* metadata_pack_publications.desired_copies; 0 is no row
    hints,      \* metadata_pack_custodian_hints.last_seen_at of each pack and node; 0 is no row
    cmd,        \* what each command is doing
    started, faults

vars == <<disk, up, members, published, hints, cmd, started, faults>>

NoIntent == [p \in Pack |-> 0]

Unseen == [n \in Node |-> 0]

Idle == [op |-> "idle", pack |-> 0, intent |-> NoIntent, groups |-> <<{}, {}>>, seen |-> Unseen, flight |-> {},
         storing |-> {}, copies |-> 0, sources |-> {}, real |-> {}, left |-> [p \in Pack |-> {}], valid |-> {},
         steady |-> {}]

Init ==
    /\ disk = [n \in Node |-> [p \in Pack |-> "none"]]
    /\ up = Node /\ members = Node
    /\ published = NoIntent
    /\ hints = [p \in Pack |-> Unseen]
    /\ cmd = [r \in Command |-> Idle]
    /\ started = 0 /\ faults = 0

(* History: the copies that have been whole, and their nodes in the view and *)
(* answering, ever since a command began.                                    *)
Kept == {c \in members \X Pack : c[1] \in up /\ disk[c[1]][c[2]] = "whole"}
Without(lost) == [r \in Command |-> [cmd[r] EXCEPT !.steady = @ \ lost]]

Start(r, begun) ==
    /\ cmd[r] = Idle /\ started < MaxCommands
    /\ cmd' = [cmd EXCEPT ![r] = [begun EXCEPT !.steady = Kept]]
    /\ started' = started + 1
    /\ UNCHANGED <<disk, up, members, published, hints, faults>>

-----------------------------------------------------------------------------
(* The requests.                                                            *)

(* What a custodian answers: it hashes the file and reads the sidecar.  A    *)
(* list omits what does not hash to its name or is not signed.               *)
ProbeMetadataPack(n, p) ==
    CASE disk[n][p] = "whole" -> "present"
      [] disk[n][p] = "none" -> "missing"
      [] OTHER -> "data_loss"

ListMetadataPacks(n) == {p \in Pack : disk[n][p] = "whole"}
RetrieveMetadataPack(n, p) == IF disk[n][p] = "whole" THEN {p} ELSE {}

(* What StoreMetadataPack leaves on the disk: a lost sidecar is written      *)
(* again, a damaged file stays and is refused.                               *)
StoreMetadataPack(n, p) == IF disk[n][p] = "damaged" THEN "damaged" ELSE "whole"

(* What the owner makes of it.                                               *)
Probed(n, p) == IF n \in up THEN ProbeMetadataPack(n, p) ELSE "error"
ListedBy(n) == IF n \in up THEN ListMetadataPacks(n) ELSE {}
Retrieved(n, p) == IF n \in up THEN RetrieveMetadataPack(n, p) ELSE {}

(* A request to a node that is up whose answer never comes, or comes as an   *)
(* error of the service.                                                     *)
Unanswered(n) ==
    /\ faults < MaxFaults /\ n \in up
    /\ faults' = faults + 1

-----------------------------------------------------------------------------
(* metadata push                                                            *)

(* The rf best nodes for this pack.  With strict_rf a view that has too few  *)
(* of them is not tried at all.                                              *)
Better(p, n) == {m \in members : Score[p][m] > Score[p][n]}
Targets(p, rf, strict) ==
    IF strict /\ Cardinality(members) < rf THEN {}
    ELSE {n \in members : Cardinality(Better(p, n)) < rf}

Push(r, p) ==
    \E rf \in Rf, strict \in BOOLEAN :
        Start(r, [Idle EXCEPT !.op = "push", !.pack = p, !.intent[p] = rf, !.flight = Targets(p, rf, strict)])

Confirm(c, n, isReal) ==
    [c EXCEPT !.copies = @ + 1, !.sources = @ \cup {<<n, c.pack>>},
              !.real = IF isReal THEN @ \cup {n} ELSE @]

(* A target is probed first.  An error is a failure of the target; only a    *)
(* pack that is missing or spoilt is sent.                                   *)
PushProbe(r, n) ==
    LET c == [cmd[r] EXCEPT !.flight = @ \ {n}]
        answer == Probed(n, c.pack)
    IN  /\ cmd[r].op = "push" /\ n \in cmd[r].flight
        /\ \/ /\ cmd' = [cmd EXCEPT ![r] =
                    CASE answer = "error" -> c
                      [] answer = "present" -> Confirm(c, n, disk[n][c.pack] = "whole")
                      [] OTHER -> [c EXCEPT !.storing = @ \cup {n}]]
              /\ UNCHANGED faults
           \/ Unanswered(n) /\ cmd' = [cmd EXCEPT ![r] = c]
        /\ UNCHANGED <<disk, up, members, published, hints, started>>

(* The stream to the node.  When it fails the pack may have been stored all  *)
(* the same, its answer lost, or not at all: a quota, a drain, a cut stream. *)
PushStore(r, n) ==
    LET c == [cmd[r] EXCEPT !.storing = @ \ {n}]
        after == StoreMetadataPack(n, c.pack)
        keep == disk' = [disk EXCEPT ![n][c.pack] = after]
    IN  /\ cmd[r].op = "push" /\ n \in cmd[r].storing
        /\ \/ /\ n \in up /\ keep
              /\ cmd' = [cmd EXCEPT ![r] = IF after = "whole" THEN Confirm(c, n, TRUE) ELSE c]
              /\ UNCHANGED faults
           \/ /\ Unanswered(n) /\ (keep \/ UNCHANGED disk)
              /\ cmd' = [cmd EXCEPT ![r] = c]
           \/ /\ n \notin up
              /\ cmd' = [cmd EXCEPT ![r] = c]
              /\ UNCHANGED <<disk, faults>>
        /\ UNCHANGED <<up, members, published, hints, started>>

-----------------------------------------------------------------------------
(* metadata pack verify                                                     *)

(* The hints for a pack that name nodes of the view.                         *)
Preferred(p) == {n \in members : hints[p][n] > 0}

(* Mutants of Groups: the second group repeats the first; there is none.     *)
GroupsOverlapping(p) == <<Preferred(p), members>>
GroupsOfHints(p) == <<Preferred(p), {}>>

(* The custodians seen last come first; the rest of the view is a second     *)
(* group, used only when the hints do not suffice.                           *)
Groups(p) == <<Preferred(p), members \ Preferred(p)>>

Verify(r, p) ==
    Start(r, [Idle EXCEPT !.op = "verify", !.pack = p, !.intent = published, !.seen = hints[p],
                          !.groups = IF published[p] = 0 THEN <<{}, members>> ELSE Groups(p)])

(* Probes go out in batches no larger than what is still missing; without a  *)
(* publication everyone is asked.                                            *)
Desired(c) == c.intent[c.pack]
Missing(c) == IF Desired(c) = 0 THEN Parallelism ELSE Desired(c) - c.copies
Asking(c) == c.flight # {} \/ (Missing(c) > 0 /\ \E g \in 1..2 : c.groups[g] # {})

(* last_seen_at DESC, node_id ASC: the first of those still to be asked.     *)
Before(c, m, n) == c.seen[m] > c.seen[n] \/ (c.seen[m] = c.seen[n] /\ m < n)
First(c, G, size) == {n \in G : Cardinality({m \in G : Before(c, m, n)}) < size}

VerifyBatch(r) ==
    LET c == cmd[r]
        g == IF c.groups[1] # {} THEN 1 ELSE 2
        batch == First(c, c.groups[g], Min({Parallelism, Missing(c)}))
    IN  /\ c.op = "verify" /\ c.flight = {} /\ Asking(c)
        /\ cmd' = [cmd EXCEPT ![r] = [c EXCEPT !.flight = batch, !.groups[g] = @ \ batch]]
        /\ UNCHANGED <<disk, up, members, published, hints, started, faults>>

VerifyProbe(r, n) ==
    LET c == [cmd[r] EXCEPT !.flight = @ \ {n}]
    IN  /\ cmd[r].op = "verify" /\ n \in cmd[r].flight
        /\ \/ /\ cmd' = [cmd EXCEPT ![r] =
                    IF Probed(n, c.pack) = "present" THEN Confirm(c, n, disk[n][c.pack] = "whole") ELSE c]
              /\ UNCHANGED faults
           \/ /\ Unanswered(n)
              /\ cmd' = [cmd EXCEPT ![r] = [c EXCEPT !.steady = @ \ {<<n, c.pack>>}]]
        /\ UNCHANGED <<disk, up, members, published, hints, started>>

-----------------------------------------------------------------------------
(* verify --all and recover list what every member has                      *)

VerifyAll(r) == Start(r, [Idle EXCEPT !.op = "verify_all", !.intent = published, !.flight = members])

(* With --target-hash (p) only that pack is a candidate; 0 is any.           *)
Recover(r, p) == Start(r, [Idle EXCEPT !.op = "recover", !.pack = p, !.flight = members])

List(r, n) ==
    LET c == [cmd[r] EXCEPT !.flight = @ \ {n}]
    IN  /\ cmd[r].op \in {"verify_all", "recover"} /\ n \in cmd[r].flight
        /\ \/ /\ cmd' = [cmd EXCEPT ![r] = [c EXCEPT !.sources = @ \cup ({n} \X ListedBy(n))]]
              /\ UNCHANGED faults
           \/ /\ Unanswered(n)
              /\ cmd' = [cmd EXCEPT ![r] = [c EXCEPT !.steady = @ \ ({n} \X Pack)]]
        /\ UNCHANGED <<disk, up, members, published, hints, started>>

SourcesOf(c, p) == {n \in Node : <<n, p>> \in c.sources}

Candidates(r) ==
    LET c == cmd[r]
    IN  /\ c.op = "recover" /\ c.flight = {}
        /\ cmd' = [cmd EXCEPT ![r] = [c EXCEPT !.op = "download",
                    !.left = [p \in Pack |-> IF c.pack \in {0, p} THEN SourcesOf(c, p) ELSE {}]]]
        /\ UNCHANGED <<disk, up, members, published, hints, started, faults>>

(* A mutant of Alternatives: the first source is the only one.               *)
AlternativesNone(sources) == {}

(* The sources of a pack once the first of them has failed.                  *)
Alternatives(sources) == sources \ {Min(sources)}

(* One source of a pack at a time, by address; the file is checked against   *)
(* its hash and signature, and a source that fails leaves the next one.      *)
Download(r, p) ==
    LET c == cmd[r]
        n == Min(c.left[p])
        next == [c EXCEPT !.left[p] = Alternatives(@)]
    IN  /\ c.op = "download" /\ c.left[p] # {}
        /\ \/ /\ cmd' = [cmd EXCEPT ![r] =
                    IF Retrieved(n, p) = {} THEN next
                    ELSE [c EXCEPT !.left[p] = {}, !.valid = @ \cup {p}]]
              /\ UNCHANGED faults
           \/ /\ Unanswered(n)
              /\ cmd' = [cmd EXCEPT ![r] = [next EXCEPT !.steady = @ \ {<<n, p>>}]]
        /\ UNCHANGED <<disk, up, members, published, hints, started>>

-----------------------------------------------------------------------------
(* The end of a command: one transaction on the catalogue.                  *)

Answered(c) ==
    \/ c.op = "push" /\ c.flight = {} /\ c.storing = {}
    \/ c.op = "verify" /\ ~Asking(c)
    \/ c.op = "verify_all" /\ c.flight = {}
    \/ c.op = "download" /\ \A p \in Pack : c.left[p] = {}

(* metadata_pack_presence_state; 0 desired copies stand for None             *)
PresenceState(copies, desired) ==
    CASE desired = 0 -> "UNKNOWN"
      [] desired > 0 /\ copies >= desired -> "VERIFIED"
      [] desired > copies /\ copies > 0 -> "DEGRADED"
      [] OTHER -> "FAILED"

(* Of the packs that were downloaded and validated, the newest.              *)
Best(c) == Max(c.valid)

(* A push records its intention even when it found too few nodes.            *)
Recorded(c) == IF c.op = "push" THEN [published EXCEPT ![c.pack] = Desired(c)] ELSE published

(* The nodes observed now are seen later than all others.                    *)
Refreshed(old, seen) == [n \in Node |-> IF n \in seen THEN 1 + Max(Range(old)) ELSE old[n]]

(* A push makes a publication of the pack; a verification goes by the rows   *)
(* it read when it began.                                                    *)
Observed(c, p) == c.intent[p] > 0 /\ SourcesOf(c, p) # {}

Finish(r) ==
    LET c == cmd[r]
    IN  /\ Answered(c)
        /\ published' = Recorded(c)
        /\ hints' = [p \in Pack |-> IF Observed(c, p) THEN Refreshed(hints[p], SourcesOf(c, p)) ELSE hints[p]]
        /\ cmd' = [cmd EXCEPT ![r] = Idle]
        /\ UNCHANGED <<disk, up, members, started, faults>>

(* The command is killed; requests already sent have had their effect.       *)
Killed(r) ==
    /\ cmd[r] # Idle /\ faults < MaxFaults
    /\ cmd' = [cmd EXCEPT ![r] = Idle] /\ faults' = faults + 1
    /\ UNCHANGED <<disk, up, members, published, hints, started>>

-----------------------------------------------------------------------------
(* The custodians: quotas and ages, damage, lost sidecars, nodes that go     *)
(* away, and views that leave out nodes.                                     *)

Lose(n, p) ==
    /\ faults < MaxFaults /\ disk[n][p] \in {"whole", "unsigned"}
    /\ \E s \in {"none", "unsigned", "damaged"} \ {disk[n][p]} : disk' = [disk EXCEPT ![n][p] = s]
    /\ cmd' = Without({<<n, p>>}) /\ faults' = faults + 1
    /\ UNCHANGED <<up, members, published, hints, started>>

Down(n) ==
    /\ n \in up /\ faults < MaxFaults
    /\ up' = up \ {n} /\ cmd' = Without({n} \X Pack) /\ faults' = faults + 1
    /\ UNCHANGED <<disk, members, published, hints, started>>

Leave(n) ==
    /\ n \in members /\ faults < MaxFaults
    /\ members' = members \ {n} /\ faults' = faults + 1
    /\ UNCHANGED <<disk, up, published, hints, cmd, started>>

Return(n) ==
    /\ n \notin up \cap members
    /\ up' = up \cup {n} /\ members' = members \cup {n}
    /\ UNCHANGED <<disk, published, hints, cmd, started, faults>>

Next ==
    \/ \E r \in Command :
        \/ VerifyAll(r) \/ Recover(r, 0) \/ VerifyBatch(r) \/ Candidates(r) \/ Finish(r) \/ Killed(r)
        \/ \E p \in Pack : Push(r, p) \/ Verify(r, p) \/ Recover(r, p) \/ Download(r, p)
        \/ \E n \in Node : PushProbe(r, n) \/ PushStore(r, n) \/ VerifyProbe(r, n) \/ List(r, n)
    \/ \E n \in Node : Down(n) \/ Leave(n) \/ Return(n) \/ \E p \in Pack : Lose(n, p)

Spec == Init /\ [][Next]_vars

-----------------------------------------------------------------------------
(* A push that reports the pack protected (successful_targets >= desired_rf) *)
(* and a verification that reports VERIFIED rest on as many different nodes, *)
(* each of which had the whole, signed pack on its disk when it answered     *)
(* this command.                                                             *)
ConfirmedIsReal ==
    \A r \in Command :
        LET c == cmd[r]
        IN  (c.op \in {"push", "verify"} /\ Answered(c) /\ PresenceState(c.copies, Desired(c)) = "VERIFIED")
                => Cardinality(c.real) >= Desired(c)

(* No false alarm: a verification of a published pack that does not report   *)
(* VERIFIED is right that fewer than desired_copies nodes of its view kept   *)
(* the pack and answered all the while, whatever the hints said.             *)
NoFalseAlarm ==
    \A r \in Command, p \in Pack :
        LET c == cmd[r]
            seen == IF c.op = "verify" THEN c.copies ELSE Cardinality(SourcesOf(c, p))
        IN  (/\ Answered(c)
             /\ (c.op = "verify" /\ c.pack = p) \/ c.op = "verify_all"
             /\ PresenceState(seen, c.intent[p]) \in {"DEGRADED", "FAILED"})
                => Cardinality({n \in Node : <<n, p>> \in c.steady}) < c.intent[p]

(* A recovery ends with a pack at least as new as every pack it was asked    *)
(* for that a node of its view kept whole, and answered for, from the        *)
(* beginning to the end; so it never fails, or falls back to an older        *)
(* catalogue, because of damaged or vanished copies elsewhere.               *)
NewestRecovered ==
    \A r \in Command :
        (cmd[r].op = "download" /\ Answered(cmd[r]))
            => \A c \in cmd[r].steady : cmd[r].pack \in {0, c[2]} => cmd[r].valid # {} /\ Best(cmd[r]) >= c[2]
=============================================================================
