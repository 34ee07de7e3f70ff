-------------------------- MODULE MetadataPackStore --------------------------
(***************************************************************************)
(* The custody store of metadata packs of a node: for every pack a file    *)
(* with the encrypted bytes and a sidecar with the signature of its owner. *)
(* A pack is served only with both.  The store publishes packs one at a    *)
(* time under its lock, then prunes by age, by the quota of the owner and  *)
(* by the quota of the store, and takes a publication back when the quotas *)
(* cannot be met.                                                          *)
(*                                                                         *)
(* The lock belongs to one process.  "node" is the daemon; "gc" is the     *)
(* command `stopan gc received-metadata-packs --apply`, which opens a      *)
(* store of its own on the same directory and prunes it.  Every file       *)
(* operation is a step, any deletion may fail, and either process may die  *)
(* between two steps.                                                      *)
(***************************************************************************)
EXTENDS Integers, FiniteSets, FiniteSetsExt

CONSTANTS
    N,              \* the packs are 1..N, in the order of pack_hash
    OwnerOf, Size,  \* the owner (a number) and the bytes of each pack
    MaxPacks,       \* max_packs_per_owner
    OwnerBytes,     \* max_total_bytes_per_owner
    StoreBytes,     \* max_total_store_bytes
    MaxAge,         \* max_age_days, in units of the clock; pruning by age is on
    MaxTime,        \* bound: the clock
    MaxFaults,      \* bound: failed writes and deletions, crashes
    MaxGc           \* bound: the runs of gc

Pack == 1..N
Owner == {OwnerOf[p] : p \in Pack}
Proc == {"node", "gc"}

ASSUME PackStoreAssumption ==
    /\ {N, MaxPacks, OwnerBytes, StoreBytes, MaxAge} \subseteq Nat \ {0}
    /\ MaxTime \in Nat \ {0} /\ {MaxFaults, MaxGc} \subseteq Nat
    /\ OwnerOf \in [Pack -> Nat] /\ Size \in [Pack -> Nat \ {0}]
    /\ \A p \in Pack : Size[p] <= OwnerBytes /\ Size[p] <= StoreBytes

(* What a process is doing.  put is the pack being published, 0 for none;   *)
(* snap the mtimes read by the last scan, 0 for what is no candidate; todo *)
(* the candidates the running pass has not tried; bytes and count what it  *)
(* still has to free.                                                      *)
Idle == [pc |-> "idle", put |-> 0, pass |-> "none", snap |-> [p \in Pack |-> 0],
         owners |-> {}, todo |-> {}, bytes |-> 0, count |-> 0]
Doing(p, label, pass) == [Idle EXCEPT !.put = p, !.pc = label, !.pass = pass]

VARIABLES
    stamp,      \* stamp[p]: mtime of the file of p, 0 when there is none
    sidecars,   \* the packs with a sidecar
    now,        \* the clock
    proc,       \* proc[q]: what process q is doing
    up,         \* the daemon has started and serves
    accepted,   \* packs answered as kept and not pruned since (history)
    residue,    \* packs whose file the rollback could not delete (history)
    met,        \* gc has run while the daemon was at work (history)
    faults, gcs \* the bounded counters

vars == <<stamp, sidecars, now, proc, up, accepted, residue, met, faults, gcs>>
files == <<stamp, sidecars>>
ghosts == <<accepted, residue, met>>

Records == {p \in Pack : stamp[p] > 0}
Listed == Records \cap sidecars
TotalSize(S) ==
    LET upTo[n \in 0..N] == IF n = 0 THEN 0 ELSE upTo[n - 1] + (IF n \in S THEN Size[n] ELSE 0)
    IN  upTo[N]

(* max(0, a - b) *)
Monus(a, b) == IF a > b THEN a - b ELSE 0
ExcessRounded(n, limit) == Monus(n + 1, limit)
Excess(n, limit) == Monus(n, limit)

Init ==
    /\ stamp = [p \in Pack |-> 0] /\ sidecars = {} /\ now = 1
    /\ proc = [q \in Proc |-> Idle] /\ up = FALSE
    /\ accepted = {} /\ residue = {} /\ met = FALSE
    /\ faults = 0 /\ gcs = 0

Become(q, state) == proc' = [proc EXCEPT ![q] = state]
Goto(q, label) == Become(q, [proc[q] EXCEPT !.pc = label])
Fault == faults < MaxFaults /\ faults' = faults + 1

(* A pack does not reach its age limit during one operation.                *)
Tick ==
    /\ now < MaxTime /\ \A q \in Proc : proc[q].pc = "idle"
    /\ now' = now + 1
    /\ UNCHANGED <<files, proc, up, ghosts, faults, gcs>>

-----------------------------------------------------------------------------
(* Publication, under the lock of the daemon.                               *)

Put(p) ==
    /\ up /\ proc["node"].pc = "idle"
    /\ Become("node", Doing(p, IF stamp[p] > 0 THEN "present" ELSE "write", "none"))
    /\ met' = (met \/ proc["gc"].pc # "idle")
    /\ UNCHANGED <<files, now, up, accepted, residue, faults, gcs>>

(* The pack is already there: the sidecar is written again, and the answer  *)
(* carries the signature read back, without which a client refuses it.     *)
Resign ==
    /\ proc["node"].pc = "present"
    /\ sidecars' = sidecars \union {proc["node"].put}
    /\ Goto("node", "reaccept")
    /\ UNCHANGED <<stamp, now, up, ghosts, faults, gcs>>

ResignFails ==
    /\ proc["node"].pc = "present" /\ Fault
    /\ Become("node", Idle)
    /\ UNCHANGED <<files, now, up, ghosts, gcs>>

Reaccept ==
    /\ proc["node"].pc = "reaccept"
    /\ accepted' = accepted \union ({proc["node"].put} \cap Listed)
    /\ Become("node", Idle)
    /\ UNCHANGED <<files, now, up, residue, met, faults, gcs>>

(* A new pack: the bytes, then the sidecar, each by an atomic rename.  A    *)
(* failure takes both back.                                                *)
WritePack ==
    /\ proc["node"].pc = "write"
    /\ stamp' = [stamp EXCEPT ![proc["node"].put] = now]
    /\ Goto("node", "sign")
    /\ UNCHANGED <<sidecars, now, up, ghosts, faults, gcs>>

WriteSidecar ==
    /\ proc["node"].pc = "sign"
    /\ sidecars' = sidecars \union {proc["node"].put}
    /\ Become("node", [proc["node"] EXCEPT !.pc = "scan", !.pass = "expired"])
    /\ UNCHANGED <<stamp, now, up, ghosts, faults, gcs>>

WriteFails ==
    /\ proc["node"].pc \in {"write", "sign"} /\ Fault
    /\ Goto("node", "unsign_new")
    /\ UNCHANGED <<files, now, up, ghosts, gcs>>

(* _rollback_new_publication_unlocked: the sidecar first.  A deletion that  *)
(* fails is reported after the other one was tried.                        *)
RollbackSidecar(ok) ==
    /\ proc["node"].pc = "unsign_new"
    /\ IF ok THEN sidecars' = sidecars \ {proc["node"].put} /\ UNCHANGED faults
             ELSE proc["node"].put \in sidecars /\ Fault /\ UNCHANGED sidecars
    /\ Goto("node", "remove_new")
    /\ UNCHANGED <<stamp, now, up, ghosts, gcs>>

RollbackPack(ok) ==
    /\ proc["node"].pc = "remove_new"
    /\ LET p == proc["node"].put IN
       /\ IF ok THEN stamp' = [stamp EXCEPT ![p] = 0] /\ UNCHANGED <<faults, residue>>
                ELSE stamp[p] > 0 /\ Fault /\ residue' = residue \union {p} /\ UNCHANGED stamp
    /\ Become("node", Idle)
    /\ UNCHANGED <<sidecars, now, up, accepted, met, gcs>>

-----------------------------------------------------------------------------
(* Pruning.  The daemon prunes when it starts and after a publication; gc   *)
(* prunes once.                                                            *)

Start ==
    /\ ~up /\ proc["node"].pc = "idle"
    /\ Become("node", Doing(0, "scan", "expired"))
    /\ met' = (met \/ proc["gc"].pc # "idle")
    /\ UNCHANGED <<files, now, up, accepted, residue, faults, gcs>>

StartGc ==
    /\ proc["gc"].pc = "idle" /\ gcs < MaxGc
    /\ gcs' = gcs + 1
    /\ Become("gc", Doing(0, "scan", "expired"))
    /\ met' = (met \/ proc["node"].pc # "idle")
    /\ UNCHANGED <<files, now, up, accepted, residue, faults>>

(* The pack just published is never a candidate.  (Candidates of another    *)
(* owner with the same hash would be spared too; packs are encrypted with  *)
(* fresh keys, so no two owners have one.)                                 *)
CandidatesWithNew(put) == Records
Candidates(put) == Records \ {put}

(* What the pack just published adds to the records of owner o.             *)
Incoming(put, o) == {p \in {put} \cap Pack : OwnerOf[p] = o}

(* The records a scan finds, with their mtimes.                             *)
Seen(S) == [p \in Pack |-> IF p \in S THEN stamp[p] ELSE 0]

ScanExpired(q) ==
    /\ proc[q].pc = "scan" /\ proc[q].pass = "expired"
    /\ LET old == {p \in Candidates(proc[q].put) : stamp[p] < now - MaxAge} IN
       Become(q, [proc[q] EXCEPT !.pc = "prune", !.snap = Seen(old), !.todo = old])
    /\ UNCHANGED <<files, now, up, ghosts, faults, gcs>>

ScanOwners(q) ==
    /\ proc[q].pc = "scan" /\ proc[q].pass = "owner"
    /\ LET S == Candidates(proc[q].put) IN
       Become(q, [proc[q] EXCEPT !.pc = "owners", !.snap = Seen(S),
                    !.owners = {OwnerOf[p] : p \in IF proc[q].put = 0 THEN S ELSE {proc[q].put}}])
    /\ UNCHANGED <<files, now, up, ghosts, faults, gcs>>

ScanStore(q) ==
    /\ proc[q].pc = "scan" /\ proc[q].pass = "global"
    /\ LET S == Candidates(proc[q].put) IN
       Become(q, [proc[q] EXCEPT !.pc = "prune", !.snap = Seen(S), !.todo = S,
                    !.bytes = Excess(TotalSize(S \union {proc[q].put}), StoreBytes)])
    /\ UNCHANGED <<files, now, up, ghosts, faults, gcs>>

(* The quotas of the owners, one owner after the other, on the records of   *)
(* one scan.                                                               *)
NextOwner(q) ==
    /\ proc[q].pc = "owners" /\ proc[q].owners # {}
    /\ LET o == Min(proc[q].owners)
           mine == {p \in Pack : proc[q].snap[p] > 0 /\ OwnerOf[p] = o}
           S == mine \union Incoming(proc[q].put, o)
       IN  Become(q, [proc[q] EXCEPT
                 !.pc = "prune", !.owners = @ \ {o}, !.todo = mine,
                 !.bytes = Excess(TotalSize(S), OwnerBytes),
                 !.count = Excess(Cardinality(S), MaxPacks)])
    /\ UNCHANGED <<files, now, up, ghosts, faults, gcs>>

OwnersDone(q) ==
    /\ proc[q].pc = "owners" /\ proc[q].owners = {}
    /\ Become(q, [proc[q] EXCEPT !.pc = "scan", !.pass = "global"])
    /\ UNCHANGED <<files, now, up, ghosts, faults, gcs>>

(* Candidates are tried oldest first, as long as something is to be freed.  *)
OldestOf(S, mtime) == CHOOSE p \in S : \A o \in S :
                         mtime[p] < mtime[o] \/ (mtime[p] = mtime[o] /\ p <= o)
Oldest(c) == OldestOf(c.todo, c.snap)
Short(c) == c.bytes + c.count > 0
Wanted(c) == c.todo # {} /\ (c.pass = "expired" \/ Short(c))
Freed(c) == [c EXCEPT !.pc = "prune", !.todo = @ \ {Oldest(c)},
                      !.bytes = Monus(@, Size[Oldest(c)]), !.count = Monus(@, 1)]
Skipped(c) == [c EXCEPT !.todo = @ \ {Oldest(c)}]

(* _delete_record_unlocked: the bytes, then the sidecar.  A file that is    *)
(* not there any more, or cannot be deleted, frees nothing.                *)
PruneGone(q) ==
    /\ proc[q].pc = "prune" /\ Wanted(proc[q]) /\ stamp[Oldest(proc[q])] = 0
    /\ Become(q, Skipped(proc[q]))
    /\ UNCHANGED <<files, now, up, ghosts, faults, gcs>>

PruneFailsCounted(q) ==
    /\ proc[q].pc = "prune" /\ Wanted(proc[q]) /\ stamp[Oldest(proc[q])] > 0 /\ Fault
    /\ Become(q, Freed(proc[q]))
    /\ UNCHANGED <<files, now, up, ghosts, gcs>>

PruneFails(q) ==
    /\ proc[q].pc = "prune" /\ Wanted(proc[q]) /\ stamp[Oldest(proc[q])] > 0 /\ Fault
    /\ Become(q, Skipped(proc[q]))
    /\ UNCHANGED <<files, now, up, ghosts, gcs>>

PrunePack(q) ==
    /\ proc[q].pc = "prune" /\ Wanted(proc[q])
    /\ LET p == Oldest(proc[q]) IN
       /\ stamp[p] > 0
       /\ stamp' = [stamp EXCEPT ![p] = 0]
       /\ accepted' = accepted \ {p} /\ residue' = residue \ {p}
    /\ Goto(q, "prune_sidecar")
    /\ UNCHANGED <<sidecars, now, up, met, faults, gcs>>

PruneSidecar(q, ok) ==
    /\ proc[q].pc = "prune_sidecar"
    /\ LET p == Oldest(proc[q]) IN
       IF ok THEN sidecars' = sidecars \ {p} /\ UNCHANGED faults
             ELSE p \in sidecars /\ Fault /\ UNCHANGED sidecars
    /\ Become(q, Freed(proc[q]))
    /\ UNCHANGED <<stamp, now, up, ghosts, gcs>>

(* The end of a pass that freed enough: the next pass, or the answer.       *)
ExpiredDone(q) ==
    /\ proc[q].pc = "prune" /\ proc[q].pass = "expired" /\ ~Wanted(proc[q])
    /\ Become(q, Doing(proc[q].put, "scan", "owner"))
    /\ UNCHANGED <<files, now, up, ghosts, faults, gcs>>

OwnerDone(q) ==
    /\ proc[q].pc = "prune" /\ proc[q].pass = "owner" /\ ~Short(proc[q])
    /\ Become(q, [proc[q] EXCEPT !.pc = "owners", !.todo = {}])
    /\ UNCHANGED <<files, now, up, ghosts, faults, gcs>>

StoreDone(q) ==
    /\ proc[q].pc = "prune" /\ proc[q].pass = "global" /\ ~Short(proc[q])
    /\ Become(q, Idle)
    /\ up' = (up \/ q = "node")
    /\ accepted' = accepted \union ({proc[q].put} \cap Pack)
    /\ UNCHANGED <<files, now, residue, met, faults, gcs>>

(* MetadataPackQuotaError, when the candidates do not suffice: it takes a   *)
(* publication back, ends gc, and keeps the daemon from starting.          *)
QuotaError(q) ==
    /\ proc[q].pc = "prune" /\ proc[q].todo = {} /\ Short(proc[q])
    /\ Become(q, IF proc[q].put = 0 THEN Idle ELSE Doing(proc[q].put, "unsign_new", "none"))
    /\ UNCHANGED <<files, now, up, ghosts, faults, gcs>>

-----------------------------------------------------------------------------
Crash(q) ==
    /\ (IF q = "node" THEN up \/ proc[q].pc # "idle" ELSE proc[q].pc # "idle") /\ Fault
    /\ Become(q, Idle)
    /\ up' = (up /\ q # "node")
    /\ UNCHANGED <<files, now, ghosts, gcs>>

Next ==
    \/ Tick \/ Start \/ StartGc
    \/ \E p \in Pack : Put(p)
    \/ Resign \/ ResignFails \/ Reaccept
    \/ WritePack \/ WriteSidecar \/ WriteFails
    \/ \E ok \in BOOLEAN : RollbackSidecar(ok) \/ RollbackPack(ok)
    \/ \E q \in Proc :
         \/ ScanExpired(q) \/ ScanOwners(q) \/ ScanStore(q)
         \/ NextOwner(q) \/ OwnersDone(q)
         \/ ExpiredDone(q) \/ OwnerDone(q) \/ StoreDone(q) \/ QuotaError(q)
         \/ PruneGone(q) \/ PruneFails(q) \/ PrunePack(q)
         \/ \E ok \in BOOLEAN : PruneSidecar(q, ok)
         \/ Crash(q)

Spec == Init /\ [][Next]_vars

-----------------------------------------------------------------------------
Label == {"idle", "present", "reaccept", "write", "sign", "unsign_new", "remove_new",
          "scan", "owners", "prune", "prune_sidecar"}
ProcState == [pc : Label, put : 0..N, pass : {"none", "expired", "owner", "global"},
              snap : [Pack -> Nat], owners : SUBSET Owner, todo : SUBSET Pack,
              bytes : Nat, count : Nat]

TypeOK ==
    /\ stamp \in [Pack -> Nat] /\ sidecars \subseteq Pack /\ now \in Nat \ {0}
    /\ proc \in [Proc -> ProcState] /\ proc["gc"].put = 0 /\ up \in BOOLEAN
    /\ accepted \subseteq Pack /\ residue \subseteq Pack /\ met \in BOOLEAN
    /\ faults \in 0..MaxFaults /\ gcs \in 0..MaxGc

(* A pack whose publication was answered as kept is served, with its bytes  *)
(* and its signature, until pruning deletes it: through crashes between    *)
(* the two files, failed writes, rollbacks and repeated publications, and  *)
(* runs of gc that do not meet the daemon at work.                         *)
AcceptedServed == met \/ accepted \subseteq Listed

Mine(S, o) == {p \in S : OwnerOf[p] = o}
OwnerWithin(S, o) == Cardinality(Mine(S, o)) <= MaxPacks /\ TotalSize(Mine(S, o)) <= OwnerBytes
Within(S) == TotalSize(S) <= StoreBytes /\ \A o \in Owner : OwnerWithin(S, o)

(* While the daemon serves and no publication is under way, the packs of    *)
(* every owner and of the store are within the quotas, whatever crashes    *)
(* and failed deletions came before.  Packs whose rollback could not       *)
(* delete the file are the exception the code reports.                     *)
ServingWithinQuota == (up /\ proc["node"].pc = "idle") => Within(Records \ residue)

(* Pruning deletes a pack only when the pack has expired or the quota of    *)
(* the running pass is exceeded at that moment: no pack is lost to a count *)
(* that is out of date, as long as gc has not met the daemon at work.      *)
Needed(q, p) ==
    /\ proc[q].pass = "expired" => stamp[p] < now - MaxAge
    /\ proc[q].pass = "owner" => ~OwnerWithin(Records, OwnerOf[p])
    /\ proc[q].pass = "global" => TotalSize(Records) > StoreBytes
NoNeedlessLoss ==
    [][\A q \in Proc : ~met /\ PrunePack(q) => Needed(q, Oldest(proc[q]))]_vars

=============================================================================
