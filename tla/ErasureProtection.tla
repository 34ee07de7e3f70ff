-------------------------- MODULE ErasureProtection --------------------------
(***************************************************************************)
(* Protection by erasure coding.  A push groups the chunks that are in no  *)
(* data pack into packs, registers a pack as PENDING, sends each of its    *)
(* k + m shards to a node of its own and records what it reached; it tries *)
(* again the packs that are not placed under the view it reads.  verify    *)
(* reads the recorded nodes, probes them and records a verdict.  restore   *)
(* fetches k shards from the recorded nodes and puts the chunks back into  *)
(* the local store.                                                        *)
(*                                                                         *)
(* A pack is identified by its payload, here the sequence of its chunks.   *)
(* Pushes overlap with each other and with verify: nothing in the code     *)
(* keeps them apart, only a job runs its commands one after the other.     *)
(***************************************************************************)
EXTENDS Integers, Sequences, FiniteSets, FiniteSetsExt, Functions

CONSTANTS
    Node,         \* the remote nodes; the origin is never a target
    ChunkOrder,   \* the chunks, in the order of their hashes
    Size,         \* Size[c]: the bytes of c
    PackSize,     \* ec_pack_size_bytes
    Rank,         \* Rank[p]: all nodes by decreasing _hrw_score for the pack p
    Specs,        \* the pairs <<ec_k, ec_m>> pushes run with
    Pusher,       \* the push commands that may run at once
    Scheduler,    \* the one of the job runner; the others are started by hand
    Scopes,       \* the sets of chunks pushes by hand are narrowed to
    CommitEvery,  \* commit_every
    MaxCommands,  \* bound: the pushes by hand and the verifications
    MaxFaults     \* bound: view changes, losses, failing calls and crashes

Chunk == Range(ChunkOrder)
Shard == 1..Max({s[1] + s[2] : s \in Specs})
NoSpec == <<0, 0>>
Total(s) == s[1] + s[2]

ASSUME ErasureAssumption ==
    /\ IsInjective(ChunkOrder) /\ PackSize \in Nat \ {0}
    /\ \A c \in Chunk : Size[c] \in Nat
    /\ \A s \in Specs : s[1] \in Nat \ {0} /\ s[2] \in Nat
    /\ CommitEvery \in Nat \ {0} /\ {MaxFaults, MaxCommands} \subseteq Nat
    /\ Scheduler \in Pusher /\ Scopes \subseteq SUBSET Chunk
    /\ \A p \in DOMAIN Rank : Range(Rank[p]) = Node /\ IsInjective(Rank[p])

(* compute_placement_epoch: an injective digest of the number of targets and
   the nodes                                                                *)
Epoch(s, E) == <<Total(s), E>>

(* plan_data_pack_shard_placement: shard i goes to the i-th node by score     *)
Placement(p, s, E) == [i \in 1..Total(s) |-> SelectSeq(Rank[p], LAMBDA n : n \in E)[i]]

NoRow == [spec |-> NoSpec, state |-> "none", epoch |-> <<0, {}>>, at |-> <<>>]
NoPush == [pc |-> "idle", loop |-> "retry", scope |-> {}, spec |-> NoSpec, view |-> {}, retry |-> {}, chunks |-> <<>>,
           open |-> <<>>, pack |-> <<>>, out |-> NoRow, left |-> {}, acks |-> {},
           updates |-> <<>>, errors |-> {}]
NoVerify == [pc |-> "idle", view |-> {}, rows |-> <<>>, left |-> {}, seen |-> {}]

(* the map f with v for x                                                   *)
With(f, x, v) == [y \in DOMAIN f \cup {x} |-> IF y = x THEN v ELSE f[y]]

VARIABLES
    known,      \* the chunks in the catalog
    local,      \* the chunks in the local store
    row,        \* row[p], for the registered packs: spec, state, epoch, node of each shard
    eligible,   \* the nodes the membership view reports
    held,       \* the triples <<n, p, i>> with shard i of p in the store of n
    lost,       \* the triples that were there and are not any more (history)
    push,       \* push[q]: what the push q has read, packed, sent and not yet written
    verify,     \* the running verify: view, the nodes it read, shards left, shards seen
    crossed,    \* the packs given a verdict on nodes their row had no more (history)
    cmds,       \* the commands by hand so far
    faults      \* the faults so far

vars == <<known, local, row, eligible, held, lost, push, verify, crossed, cmds, faults>>
history == <<lost, crossed>>

Protected(r) == r.state \in {"PLACED", "VERIFIED"}

Init ==
    /\ known = {} /\ local = {} /\ row = <<>>
    /\ eligible = Node /\ held = {} /\ lost = {}
    /\ push = [q \in Pusher |-> NoPush] /\ verify = NoVerify
    /\ crossed = {} /\ faults = 0 /\ cmds = 0

counters == <<cmds, faults>>
Fault == faults < MaxFaults /\ faults' = faults + 1 /\ UNCHANGED cmds
Command == cmds < MaxCommands /\ cmds' = cmds + 1 /\ UNCHANGED faults

-----------------------------------------------------------------------------
(* The surroundings: a capture stores a chunk, the local collector removes
   one, the cluster changes, a node collects a shard by age.                *)

Capture(c) ==
    /\ c \notin known \cap local
    /\ known' = known \cup {c} /\ local' = local \cup {c}
    /\ UNCHANGED <<row, eligible, held, history, push, verify, counters>>

LoseLocal(c) ==
    /\ Fault
    /\ c \in local /\ local' = local \ {c}
    /\ UNCHANGED <<known, row, eligible, held, history, push, verify>>

ViewChange ==
    /\ Fault
    /\ eligible' \in SUBSET Node \ {eligible}
    /\ UNCHANGED <<known, local, row, held, history, push, verify>>

Lose(t) ==
    /\ Fault
    /\ t \in held
    /\ held' = held \ {t} /\ lost' = lost \cup {t}
    /\ UNCHANGED <<known, local, row, eligible, push, verify, crossed>>

-----------------------------------------------------------------------------
(* push_erasure_data_packs_to_network.                                      *)

At(q, label) == push[q].pc = label

(* the view; a scope, or a limit, narrows what the push goes over           *)
PushView(q, s, S) ==
    /\ At(q, "idle")
    /\ push' = [push EXCEPT ![q] = [NoPush EXCEPT !.pc = "packs", !.spec = s, !.view = eligible,
                                                  !.scope = S]]
    /\ UNCHANGED <<known, local, row, eligible, held, history, verify>>

ScheduledPush == UNCHANGED counters /\ \E s \in Specs : PushView(Scheduler, s, Chunk)
ManualPush(q, s, S) == Command /\ PushView(q, s, S)

(* _pending_erasure_packs_by_remote_targets                                 *)
PackPendingAnyEpoch(p, E) == ~Protected(row[p])
PackPending(p, E) == ~Protected(row[p]) \/ row[p].epoch # Epoch(row[p].spec, E)

SelectPacks(q) ==
    /\ At(q, "packs")
    /\ push' = [push EXCEPT ![q] = [@ EXCEPT !.pc = "chunks",
                  !.retry = {p \in DOMAIN row : Range(p) \cap push[q].scope # {}
                                                  /\ PackPending(p, push[q].view)}]]
    /\ UNCHANGED <<known, local, row, eligible, held, history, verify, counters>>

Packed == UNION {Range(p) : p \in DOMAIN row}

(* the chunks in no pack; too few nodes for one of the packs refuse the push *)
Required(R, s, new) == {Total(row[p].spec) : p \in R} \cup IF new = <<>> THEN {} ELSE {Total(s)}

SelectChunks(q) ==
    LET new == SelectSeq(ChunkOrder, LAMBDA c : c \in (push[q].scope \cap known) \ Packed)
    IN  /\ At(q, "chunks")
        /\ push' = [push EXCEPT ![q] =
                      IF \A k \in Required(@.retry, @.spec, new) : k <= Cardinality(@.view)
                      THEN [@ EXCEPT !.pc = "next", !.chunks = new] ELSE NoPush]
        /\ UNCHANGED <<known, local, row, eligible, held, history, verify, counters>>

(* _apply_erasure_data_pack_push_update for the waiting updates of q: state,
   epoch and nodes of a pack in one transaction; the error updates leave the
   evidence alone                                                           *)
FlushedKeepingNodes(q) ==
    [p \in DOMAIN row |-> IF p \in DOMAIN push[q].updates
                            THEN [push[q].updates[p] EXCEPT !.at = row[p].at] ELSE row[p]]
Flushed(q) ==
    [p \in DOMAIN row |-> IF p \in DOMAIN push[q].updates THEN push[q].updates[p] ELSE row[p]]

(* flush_push_updates once commit_every outcomes wait, of both kinds among the
   retries, of pushes only among the new packs                              *)
Waiting(q) == Cardinality(DOMAIN push[q].updates) +
              IF push[q].loop = "retry" THEN Cardinality(push[q].errors) ELSE 0

FlushBatch(q) ==
    /\ At(q, "next") /\ Waiting(q) >= CommitEvery
    /\ row' = Flushed(q)
    /\ push' = [push EXCEPT ![q] = [@ EXCEPT !.updates = <<>>, !.errors = {}]]
    /\ UNCHANGED <<known, local, eligible, held, history, verify, counters>>

In(q, l) == At(q, "next") /\ push[q].loop = l /\ Waiting(q) < CommitEvery

(* _push_pack, up to the shards: the row to be written, but for its state     *)
Sending(m, p, s) ==
    [m EXCEPT !.pc = "send", !.pack = p, !.left = 1..Total(s), !.acks = {},
              !.out = [spec |-> s, state |-> "PENDING", epoch |-> Epoch(s, m.view),
                       at |-> Placement(p, s, m.view)]]

(* _retry_existing_pack: the pack is built again from its chunks, or the
   retry is given up with an error                                          *)
Retry(q, p) ==
    /\ In(q, "retry") /\ p \in push[q].retry
    /\ LET m == [push[q] EXCEPT !.retry = @ \ {p}]
       IN  push' = [push EXCEPT ![q] = IF Range(p) \subseteq local THEN Sending(m, p, row[p].spec)
                                       ELSE [m EXCEPT !.errors = @ \cup {p}]]
    /\ UNCHANGED <<known, local, row, eligible, held, history, verify, counters>>

EndRetries(q) ==
    /\ In(q, "retry") /\ push[q].retry = {}
    /\ push' = [push EXCEPT ![q] = [@ EXCEPT !.loop = "new"]]
    /\ UNCHANGED <<known, local, row, eligible, held, history, verify, counters>>

(* DataPackBuilder: the open pack takes a chunk unless it would overflow, and
   is closed when it is full, when the next chunk would not fit, at the end  *)
Bytes(p) == FoldFunction(LAMBDA c, n : n + Size[c], 0, p)
Fits(p, c) == p = <<>> \/ Bytes(p) + Size[c] <= PackSize

(* the next chunk is read; one that is not in the local store is passed over *)
AddChunk(q) ==
    LET m == push[q]
        c == Head(m.chunks)
    IN  /\ In(q, "new") /\ m.chunks # <<>> /\ Bytes(m.open) < PackSize
        /\ c \in local => Fits(m.open, c)
        /\ push' = [push EXCEPT ![q] = [m EXCEPT !.chunks = Tail(@),
                                                  !.open = IF c \in local THEN Append(@, c) ELSE @]]
        /\ UNCHANGED <<known, local, row, eligible, held, history, verify, counters>>

Closed(m) ==
    /\ m.open # <<>>
    /\ \/ Bytes(m.open) >= PackSize \/ m.chunks = <<>>
       \/ m.chunks # <<>> /\ Head(m.chunks) \in local /\ ~Fits(m.open, Head(m.chunks))

(* register_erasure_data_pack: a chunk is in one pack only, and a pack that is
   there already must have the same spec and the same nodes                 *)
ClashesByPack(p, r) == p \in DOMAIN row /\ (row[p].spec # r.spec \/ row[p].at # r.at)
Clashes(p, r) ==
    \/ p \in DOMAIN row /\ (row[p].spec # r.spec \/ row[p].at # r.at)
    \/ \E o \in DOMAIN row \ {p} : Range(o) \cap Range(p) # {}

(* _flush_and_push_pack: the pack is registered, or the command ends with the
   error once what waits has been written                                   *)
Register(q) ==
    LET m == Sending(push[q], push[q].open, push[q].spec)
    IN  /\ In(q, "new") /\ Closed(push[q])
        /\ \/ /\ ~Clashes(m.pack, m.out)
              /\ row' = IF m.pack \in DOMAIN row THEN row ELSE With(row, m.pack, m.out)
              /\ push' = [push EXCEPT ![q] = [m EXCEPT !.open = <<>>]]
           \/ /\ Clashes(m.pack, m.out)
              /\ row' = Flushed(q)
              /\ push' = [push EXCEPT ![q] = NoPush]
        /\ UNCHANGED <<known, local, eligible, held, history, verify, counters>>

(* _push_target_batch: the node of shard i is asked for it, and sent it when it
   is missing; a stored shard may go without its acknowledgement            *)
SendShard(q, i) ==
    LET m == push[q]
        n == m.out.at[i]
        t == <<n, m.pack, i>>
    IN  \E stored, acked \in BOOLEAN :
          /\ At(q, "send") /\ i \in m.left
          /\ acked => stored \/ t \in held
          /\ held' = IF stored THEN held \cup {t} ELSE held
          /\ lost' = IF stored THEN lost \ {t} ELSE lost
          /\ push' = [push EXCEPT ![q] = [m EXCEPT !.left = @ \ {i},
                                                    !.acks = IF acked THEN @ \cup {i} ELSE @]]
          /\ IF acked \/ n \notin eligible THEN UNCHANGED counters ELSE Fault
          /\ UNCHANGED <<known, local, row, eligible, verify, crossed>>

(* data_pack_state                                                          *)
DataPackState(n, s) ==
    CASE n >= Total(s) -> "PLACED" [] n \in s[1]..Total(s) - 1 -> "DEGRADED" [] OTHER -> "FAILED"

(* build_data_pack_push_update: all nodes of the new placement, reached or not *)
EndPack(q) ==
    LET m == push[q]
    IN  /\ At(q, "send") /\ m.left = {}
        /\ push' = [push EXCEPT ![q] = [m EXCEPT !.pc = "next", !.pack = <<>>, !.out = NoRow, !.acks = {},
                      !.updates = With(@, m.pack, [m.out EXCEPT !.state =
                                     DataPackState(Cardinality(m.acks), m.out.spec)])]]
        /\ UNCHANGED <<known, local, row, eligible, held, history, verify, counters>>

EndPush(q) ==
    /\ In(q, "new") /\ push[q].chunks = <<>> /\ push[q].open = <<>>
    /\ row' = Flushed(q)
    /\ push' = [push EXCEPT ![q] = NoPush]
    /\ UNCHANGED <<known, local, eligible, held, history, verify, counters>>

(* an interrupt or an error writes what waits, a crash does not              *)
Interrupt(q) ==
    /\ Fault
    /\ ~At(q, "idle")
    /\ row' \in {row, Flushed(q)}
    /\ push' = [push EXCEPT ![q] = NoPush]
    /\ UNCHANGED <<known, local, eligible, held, history, verify>>

-----------------------------------------------------------------------------
(* verify_erasure_data_packs.                                               *)

(* the view, then the candidates and the nodes of their shards: of the default
   scope, of a scope S, or the packs named                                  *)
VerifyView ==
    /\ Command
    /\ verify.pc = "idle"
    /\ verify' = [NoVerify EXCEPT !.pc = "select", !.view = eligible]
    /\ UNCHANGED <<known, local, row, eligible, held, history, push>>

Asked(V) == UNION {{<<p, i>> : i \in {j \in DOMAIN row[p].at : row[p].at[j] \in verify.view}} : p \in V}

VerifySelect(V) ==
    /\ verify.pc = "select" /\ V \subseteq DOMAIN row
    /\ verify' = IF V = {} THEN NoVerify
                 ELSE [verify EXCEPT !.pc = "probe", !.rows = Restrict(row, V), !.left = Asked(V)]
    /\ UNCHANGED <<known, local, row, eligible, held, history, push, counters>>

(* _probe_address: an answered probe shows whether the shard is there         *)
Probe(t) ==
    LET there == <<verify.rows[t[1]].at[t[2]], t[1], t[2]>> \in held
    IN  \E answered \in BOOLEAN :
          /\ verify.pc = "probe" /\ t \in verify.left
          /\ verify' = [verify EXCEPT !.left = @ \ {t},
                                      !.seen = IF there /\ answered THEN @ \cup {t} ELSE @]
          /\ IF answered \/ verify.rows[t[1]].at[t[2]] \notin eligible THEN UNCHANGED counters ELSE Fault
          /\ UNCHANGED <<known, local, row, eligible, held, history, push>>

(* the verdict on p from the shards seen                                    *)
Verdict(p) ==
    LET n == Cardinality({i \in Shard : <<p, i>> \in verify.seen})
        s == verify.rows[p].spec
    IN  IF n = Total(s) THEN "VERIFIED" ELSE DataPackState(n, s)

(* _apply_erasure_data_pack_verification_update: the state, by pack hash; the
   epoch and the nodes are those the row has by now                         *)
VerifyRecord ==
    /\ verify.pc = "probe" /\ verify.left = {}
    /\ row' = [p \in DOMAIN row |-> IF p \in DOMAIN verify.rows
                 THEN [row[p] EXCEPT !.state = Verdict(p)] ELSE row[p]]
    /\ crossed' = crossed \cup {p \in DOMAIN verify.rows : verify.rows[p].at # row[p].at}
    /\ verify' = NoVerify
    /\ UNCHANGED <<known, local, eligible, held, lost, push, counters>>

VerifyCrash ==
    /\ Fault
    /\ verify.pc # "idle" /\ verify' = NoVerify
    /\ UNCHANGED <<known, local, row, eligible, held, history, push>>

-----------------------------------------------------------------------------
(* restore: _retrieve_pack_shards, from the recorded nodes that are eligible,
   and _cache_reconstructed_pack_chunks                                     *)
Reached(p) == {i \in DOMAIN row[p].at : <<row[p].at[i], p, i>> \in held}

Recover(p) ==
    /\ p \in DOMAIN row
    /\ Cardinality({i \in Reached(p) : row[p].at[i] \in eligible}) >= row[p].spec[1]
    /\ ~(Range(p) \subseteq local) /\ local' = local \cup Range(p)
    /\ UNCHANGED <<known, row, eligible, held, history, push, verify, counters>>

-----------------------------------------------------------------------------
PushStep(q) ==
    \/ SelectPacks(q) \/ SelectChunks(q) \/ FlushBatch(q) \/ (\E p \in DOMAIN row : Retry(q, p))
    \/ EndRetries(q) \/ AddChunk(q) \/ Register(q) \/ (\E i \in Shard : SendShard(q, i))
    \/ EndPack(q) \/ EndPush(q)

VerifyStep ==
    \/ VerifyView \/ (\E V \in SUBSET DOMAIN row : VerifySelect(V))
    \/ (\E t \in verify.left : Probe(t)) \/ VerifyRecord \/ VerifyCrash

Next ==
    \/ \E c \in Chunk : Capture(c) \/ LoseLocal(c)
    \/ ViewChange \/ \E t \in held : Lose(t)
    \/ \E q \in Pusher : PushStep(q) \/ Interrupt(q)
    \/ ScheduledPush
    \/ \E q \in Pusher, s \in Specs, S \in Scopes : ManualPush(q, s, S)
    \/ VerifyStep \/ \E p \in DOMAIN row : Recover(p)

Spec == Init /\ [][Next]_vars

(* the job runner starts the push of the default scope again and again, and a
   push that runs goes on                                                   *)
FairSpec == Spec /\ WF_vars(ScheduledPush) /\ \A q \in Pusher : WF_vars(PushStep(q))

-----------------------------------------------------------------------------
(* The rows and the local state of push and verify hold what the code can
   put there: the shards of a pack on nodes of their own, one for each.     *)
TypeOK ==
    /\ local \subseteq known /\ known \subseteq Chunk /\ eligible \subseteq Node
    /\ held \cap lost = {} /\ held \cup lost \subseteq (Node \X (DOMAIN row) \X Shard)
    /\ \A p \in DOMAIN row :
         /\ row[p].state \in {"PENDING", "PLACED", "DEGRADED", "VERIFIED", "FAILED"}
         /\ row[p].spec \in Specs /\ Len(row[p].at) = Total(row[p].spec) /\ IsInjective(row[p].at)
    /\ \A q \in Pusher : DOMAIN push[q].updates \subseteq DOMAIN row
    /\ DOMAIN verify.rows \subseteq DOMAIN row /\ faults \in 0..MaxFaults /\ cmds \in 0..MaxCommands

(* What docs/architecture.md:201 says of the states: a PLACED or VERIFIED pack
   has all its shards and a DEGRADED one at least k, on the nodes the catalog
   names for them, but for what those nodes lost since; overlapping pushes of
   different views each write state and nodes together.  A pack whose nodes a
   push replaced while verify probed them is the exception: its verdict is
   about the nodes before.                                                  *)
StateIsStored ==
    \A p \in DOMAIN row \ crossed :
        LET there == Cardinality({i \in DOMAIN row[p].at : <<row[p].at[i], p, i>> \in held \cup lost})
        IN  /\ Protected(row[p]) => there = Total(row[p].spec)
            /\ row[p].state = "DEGRADED" => there >= row[p].spec[1]

(* A chunk is in one data pack only, however pushes that read the same
   unpacked chunks overlap, so restore finds one place for it
   (erasure_data_pack_chunks, register_erasure_data_pack).                  *)
PackedOnce == \A o, p \in DOMAIN row : o # p => Range(o) \cap Range(p) = {}

(* Once the cluster and the local store stay as they are, the scheduled push
   brings every chunk of the catalog into a pack that is placed under the
   current view, whatever verify and other pushes write in between, unless
   there are too few nodes for one of the packs or a chunk of them is not in
   the local store (_pending_erasure_packs_by_remote_targets).              *)
EventuallyPlaced ==
    []<>(\/ \A c \in known : \E p \in DOMAIN row :
              /\ c \in Range(p) /\ Protected(row[p]) /\ row[p].epoch = Epoch(row[p].spec, eligible)
         \/ Cardinality(eligible) < Max(Shard)
         \/ ~(known \subseteq local))
=============================================================================
