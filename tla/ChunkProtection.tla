--------------------------- MODULE ChunkProtection ---------------------------
(***************************************************************************)
(* The evidence of remote copies: the table chunk_protection of the catalog*)
(* and the three commands that write it.  backup records how many copies   *)
(* are desired, push replicates to the nodes HRW chooses and records what  *)
(* they acknowledged, verify asks the chosen nodes again and records what  *)
(* they still hold.  Each command reads the membership view once, works    *)
(* for a long time without a transaction, and then writes what it found    *)
(* over the row as it is by then.                                          *)
(*                                                                         *)
(* One push and one verify run at a time, each beside the other, beside    *)
(* captures, changes of the cluster and losses on the nodes (the nodes     *)
(* collect received chunks by age).                                        *)
(***************************************************************************)
EXTENDS Integers, FiniteSets, FiniteSetsExt

CONSTANTS
    Node,       \* the remote nodes; the origin is never a target
    Chunk,      \* the chunk hashes
    Score,      \* Score[c][n]: the place of n by its _hrw_score for c and its name
    CaptureRf,  \* the values of desired_rf captures run with
    PushRf,     \* the values of rf pushes run with
    CommitEvery,\* commit_every
    MaxFaults   \* bound: view changes, losses, failing calls and crashes

ASSUME ProtectionAssumption ==
    /\ CaptureRf \subseteq Nat /\ PushRf \subseteq Nat \ {0}
    /\ CommitEvery \in Nat \ {0} /\ MaxFaults \in Nat
    /\ IsFiniteSet(Node)
    /\ \A c \in Chunk : /\ Score[c] \in [Node -> Nat]
                        /\ \A m, n \in Node : Score[c][m] = Score[c][n] => m = n

(* compute_placement_epoch: an injective digest of the rf and the nodes      *)
Epoch(k, E) == <<k, E>>
NoEpoch == <<0, {}>>

(* hrw_top_k_node_ids over the eligible nodes: those that fewer than k beat  *)
Better(c, n, E) == {m \in E : Score[c][m] > Score[c][n]}
Targets(c, k, E) == {n \in E : Cardinality(Better(c, n, E)) < k}

NoRow == [state |-> "none", rf |-> 0, copies |-> 0, epoch |-> NoEpoch]
NoPush == [pc |-> "idle", rf |-> 0, view |-> {}, scope |-> {}, chunks |-> {}, left |-> {}, acks |-> {}]
NoVerify == [pc |-> "idle", all |-> FALSE, view |-> {}, rfs |-> <<>>, left |-> {}, seen |-> {}]

VARIABLES
    row,        \* row[c]: the row of c in chunk_protection
    eligible,   \* the nodes the membership view reports
    held,       \* the pairs <<n, c>> with c in the store of n
    lost,       \* the pairs that were there and are not any more (history)
    push,       \* the running push: view, chunks, targets left, pairs acknowledged
    verify,     \* the running verify: view, rf of each candidate, targets left, pairs seen
    faults      \* the faults so far

vars == <<row, eligible, held, lost, push, verify, faults>>

Protected(r) == r.state \in {"PLACED", "VERIFIED"}

Init ==
    /\ row = [c \in Chunk |-> NoRow]
    /\ eligible = Node /\ held = {} /\ lost = {}
    /\ push = NoPush /\ verify = NoVerify
    /\ faults = 0

Fault == faults < MaxFaults /\ faults' = faults + 1

-----------------------------------------------------------------------------
(* The cluster.                                                             *)

ViewChange ==
    /\ Fault
    /\ eligible' \in SUBSET Node \ {eligible}
    /\ UNCHANGED <<row, held, lost, push, verify>>

Lose(p) ==
    /\ Fault
    /\ p \in held
    /\ held' = held \ {p} /\ lost' = lost \cup {p}
    /\ UNCHANGED <<row, eligible, push, verify>>

-----------------------------------------------------------------------------
(* backup: _ensure_recipe_protection; a row is raised, never lowered, and
   loses its evidence when it is                                            *)
RaiseKeepingEvidence(r, k) ==
    IF r.state = "none" THEN [NoRow EXCEPT !.state = "PENDING", !.rf = k]
    ELSE IF r.rf < k THEN [r EXCEPT !.rf = k] ELSE r
Raise(r, k) ==
    IF r.state = "none" THEN [NoRow EXCEPT !.state = "PENDING", !.rf = k]
    ELSE IF r.rf < k THEN [r EXCEPT !.rf = k, !.state = IF Protected(r) THEN "DEGRADED" ELSE @]
    ELSE r

EnsureProtection(c, k) ==
    /\ row' = [row EXCEPT ![c] = Raise(@, k)]
    /\ UNCHANGED <<eligible, held, lost, push, verify, faults>>

(* is_record_sufficient, what the fast path of backup relies on             *)
IsSufficientAnyEpoch(r, k, e) ==
    k = 0 \/ (Protected(r) /\ r.rf >= k /\ r.copies >= k)
IsSufficient(r, k, e) ==
    k = 0 \/ (Protected(r) /\ r.rf >= k /\ r.epoch = e /\ r.copies >= k)

-----------------------------------------------------------------------------
(* push_to_network.                                                         *)

(* the view; a strict push with too few targets returns at once.  A push of
   the default scope goes over all rows, another one over the chunks S      *)
PushView(k, start, S) ==
    /\ push.pc = "idle"
    /\ push' = [NoPush EXCEPT !.pc = start, !.rf = k, !.view = eligible, !.scope = S]
    /\ UNCHANGED <<row, eligible, held, lost, verify, faults>>

ScheduledPush == \E k \in PushRf : PushView(k, "stale", Chunk)

PushEpoch == Epoch(push.rf, push.view)

(* mark_stale_protection, one transaction                                   *)
MarkStale ==
    /\ push.pc = "stale"
    /\ row' = [c \in Chunk |->
                 IF Protected(row[c]) /\ (row[c].rf < push.rf \/ row[c].epoch # PushEpoch)
                 THEN [row[c] EXCEPT !.state = "DEGRADED"] ELSE row[c]]
    /\ push' = [push EXCEPT !.pc = "select"]
    /\ UNCHANGED <<eligible, held, lost, verify, faults>>

(* get_pending_protection_chunks, or its variant for a scope                *)
IsPending(r) ==
    /\ r.state # "none"
    /\ ~Protected(r) \/ r.rf < push.rf \/ r.epoch # PushEpoch

PushSelect ==
    /\ push.pc = "select"
    /\ LET P == {c \in push.scope : IsPending(row[c])}
       IN  push' = IF P = {} THEN NoPush
                   ELSE [push EXCEPT !.pc = "send", !.chunks = P,
                           !.left = UNION {Targets(c, push.rf, push.view) : c \in P}]
    /\ UNCHANGED <<row, eligible, held, lost, verify, faults>>

Planned(n) == {c \in push.chunks : n \in Targets(c, push.rf, push.view)}

(* _execute_target_plan, _apply_target_result: the target holds H of what it
   is asked about, stores S of the rest, and A is acknowledged              *)
PushTarget(n) ==
    LET H == {c \in Planned(n) : <<n, c>> \in held}
    IN  \E S \in SUBSET (Planned(n) \ H), A \in SUBSET Planned(n) :
          /\ push.pc = "send" /\ n \in push.left
          /\ A \subseteq H \cup S
          /\ H \subseteq A \/ A \cup S = {}     \* the probe answers for all of H, or fails
          /\ held' = held \cup ({n} \X S) /\ lost' = lost \ ({n} \X S)
          /\ push' = [push EXCEPT !.left = @ \ {n}, !.acks = @ \cup ({n} \X A)]
          /\ IF A = Planned(n) THEN UNCHANGED faults ELSE Fault
          /\ UNCHANGED <<row, eligible, verify>>

(* replication_push_state over the confirmed copies                         *)
PushStateStrict(copies, k) ==
    CASE copies > k -> "PLACED" [] copies \in 1..k -> "DEGRADED" [] OTHER -> "FAILED"
PushState(copies, k) ==
    CASE copies >= k -> "PLACED" [] copies \in 1..k - 1 -> "DEGRADED" [] OTHER -> "FAILED"

Acked(c) == Cardinality({n \in Node : <<n, c>> \in push.acks})

(* flush_updates: the rows of the outcomes of B, one transaction             *)
Flush(B) ==
    row' = [c \in Chunk |-> IF c \notin B THEN row[c]
              ELSE [state |-> PushState(Acked(c), push.rf), rf |-> push.rf,
                    copies |-> Acked(c), epoch |-> PushEpoch]]

PushRecord(B) ==
    /\ push.pc = "send" /\ push.left = {}
    /\ B \subseteq push.chunks /\ Cardinality(B) = Min({CommitEvery, Cardinality(push.chunks)})
    /\ Flush(B)
    /\ push' = IF B = push.chunks THEN NoPush ELSE [push EXCEPT !.chunks = @ \ B]
    /\ UNCHANGED <<eligible, held, lost, verify, faults>>

(* an interrupt flushes the outcomes B that wait; with none it is a crash    *)
PushInterrupt(B) ==
    /\ Fault
    /\ push.pc # "idle"
    /\ B = {} \/ (push.pc = "send" /\ push.left = {} /\ B \subseteq push.chunks)
    /\ Cardinality(B) < CommitEvery
    /\ Flush(B)
    /\ push' = NoPush
    /\ UNCHANGED <<eligible, held, lost, verify>>

-----------------------------------------------------------------------------
(* verify_remote_protection.                                                *)

VerifyView ==
    /\ verify.pc = "idle"
    /\ verify' \in {[NoVerify EXCEPT !.pc = "select", !.view = eligible, !.all = b] : b \in BOOLEAN}
    /\ UNCHANGED <<row, eligible, held, lost, push, faults>>

(* the candidates, of the default scope or of a scope S                     *)
VerifyStates(scoped) ==
    (IF verify.all THEN {"VERIFIED"} ELSE {}) \cup {"PLACED", "DEGRADED"} \cup
    (IF scoped THEN {"PENDING", "FAILED"} ELSE {})

VerifySelect(S, scoped) ==
    /\ verify.pc = "select"
    /\ LET V == {c \in S : row[c].state \in VerifyStates(scoped) /\ row[c].rf > 0}
       IN  verify' = IF V = {} THEN NoVerify
                     ELSE [verify EXCEPT !.pc = "probe", !.rfs = [c \in V |-> row[c].rf],
                             !.left = UNION {Targets(c, row[c].rf, verify.view) : c \in V}]
    /\ UNCHANGED <<row, eligible, held, lost, push, faults>>

(* probe_target: the batches D that are answered count                      *)
VerifyTarget(n) ==
    LET Asked == {c \in DOMAIN verify.rfs : n \in Targets(c, verify.rfs[c], verify.view)}
    IN  \E D \in SUBSET Asked :
          /\ verify.pc = "probe" /\ n \in verify.left
          /\ verify' = [verify EXCEPT !.left = @ \ {n}, !.seen = @ \cup (({n} \X D) \cap held)]
          /\ IF D = Asked THEN UNCHANGED faults ELSE Fault
          /\ UNCHANGED <<row, eligible, held, lost, push>>

(* apply_chunk_verification_updates, one transaction                        *)
VerifyRecord ==
    /\ verify.pc = "probe" /\ verify.left = {}
    /\ row' = [c \in Chunk |-> IF c \notin DOMAIN verify.rfs THEN row[c]
                 ELSE LET k == verify.rfs[c]
                          copies == Cardinality({n \in Node : <<n, c>> \in verify.seen})
                      IN  [state |-> IF copies >= k THEN "VERIFIED" ELSE "DEGRADED", rf |-> k,
                           copies |-> copies, epoch |-> Epoch(k, verify.view)]]
    /\ verify' = NoVerify
    /\ UNCHANGED <<eligible, held, lost, push, faults>>

VerifyCrash ==
    /\ Fault
    /\ verify.pc # "idle" /\ verify' = NoVerify
    /\ UNCHANGED <<row, eligible, held, lost, push>>

-----------------------------------------------------------------------------
PushStep ==
    \/ MarkStale \/ PushSelect \/ \E S \in SUBSET Chunk : PushRecord(S)
    \/ \E n \in Node : PushTarget(n)

VerifyStep ==
    \/ VerifyView \/ VerifyRecord \/ VerifyCrash \/ VerifySelect(Chunk, FALSE)
    \/ \E S \in SUBSET Chunk : VerifySelect(S, TRUE)
    \/ \E n \in Node : VerifyTarget(n)

Next ==
    \/ ViewChange \/ \E p \in held : Lose(p)
    \/ \E c \in Chunk, k \in CaptureRf : EnsureProtection(c, k)
    \/ ScheduledPush \/ \E k \in PushRf, S \in SUBSET Chunk : PushView(k, "select", S)
    \/ PushStep \/ VerifyStep \/ \E B \in SUBSET Chunk : PushInterrupt(B)

Spec == Init /\ [][Next]_vars

(* the job runner starts the push of the default scope again and again, and a
   push that runs goes on                                                   *)
FairSpec == Spec /\ SF_vars(ScheduledPush) /\ WF_vars(PushStep)

-----------------------------------------------------------------------------
(* The rows and the local state of push and verify hold what the code can
   put there.                                                               *)
TypeOK ==
    /\ \A c \in Chunk :
         /\ row[c].state \in {"none", "PENDING", "PLACED", "DEGRADED", "VERIFIED", "FAILED"}
         /\ row[c].rf \in CaptureRf \cup PushRf \cup {0} /\ row[c].copies \in 0..Cardinality(Node)
    /\ eligible \subseteq Node /\ held \subseteq Node \X Chunk /\ lost \subseteq Node \X Chunk
    /\ held \cap lost = {}
    /\ push.acks \subseteq Node \X Chunk /\ push.left \subseteq push.view
    /\ verify.left \subseteq verify.view /\ DOMAIN verify.rfs \subseteq Chunk
    /\ faults \in 0..MaxFaults

(* Evidence that suffices for the nodes that are eligible now is true: each
   of the k nodes HRW chooses among them has the chunk, or had it and lost
   it, whatever views, rows and commands have overtaken each other
   (is_record_sufficient, which the fast path of backup trusts).            *)
SufficientIsStored ==
    \A c \in Chunk, k \in CaptureRf \ {0} :
        IsSufficient(row[c], k, Epoch(k, eligible)) =>
            /\ Cardinality(Targets(c, k, eligible)) = k
            /\ \A n \in Targets(c, k, eligible) : <<n, c>> \in held \cup lost

(* A row that counts as protected covers the number of copies it says are
   desired, with an epoch for that number: raising the number takes the
   evidence away (_ensure_recipe_protection, ProtectionState).              *)
ProtectedCoversIntent ==
    \A c \in Chunk : Protected(row[c]) =>
        /\ row[c].copies >= row[c].rf /\ row[c].rf >= 1
        /\ row[c].epoch[1] = row[c].rf

(* Once faults stop, repeated pushes bring every recorded chunk to
   sufficient evidence for the rf they run with, whatever verify writes in
   between, unless there are too few nodes.                                 *)
EventuallyProtected ==
    \A c \in Chunk, k \in PushRf :
        row[c].state # "none" ~>
            \/ IsSufficient(row[c], k, Epoch(k, eligible))
            \/ Cardinality(eligible) < k
=============================================================================
