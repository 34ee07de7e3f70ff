---------------------------- MODULE MetadataGraph ----------------------------
(***************************************************************************)
(* The encrypted metadata graph: the store of its objects, the latest      *)
(* pointer, the packs made from it, their distribution, and the recovery   *)
(* of the catalogue from them.                                             *)
(*                                                                         *)
(* The contents of the catalogue are numbered in the order in which they   *)
(* come about; Graph gives the objects of each, some of which several      *)
(* contents share.  There is one vault.  A pack is what is in it: a state  *)
(* of the catalogue and a generation.                                      *)
(***************************************************************************)
EXTENDS Integers, FiniteSets, FiniteSetsExt

CONSTANTS
    MaxState,   \* bound: how many contents the catalogue takes
    Graph,      \* Graph[n]: the objects of content n
    Proc,       \* commands that run at the same time
    MaxFaults,  \* bound: crashes, power losses, losses of the machine, imports by hand
    MaxGen      \* bound on generations

State == 1..MaxState
Object == UNION {Graph[n] : n \in State}
None == 0

ASSUME GraphAssumption ==
    /\ MaxState \in Nat \ {0} /\ MaxFaults \in Nat /\ MaxGen \in Nat
    /\ DOMAIN Graph = State /\ None \notin Proc

VARIABLES
    db, top,    \* the content of the catalogue (None: empty), the last number given
    objects,    \* the objects in the store
    durable,    \* those of them whose names are on disk
    latest,     \* the latest pointer
    gen,        \* the generation counter of the vault
    local,      \* the packs in the directory of generated packs
    net,        \* the packs the custodians have
    lock,       \* the command that holds the lock of the store
    proc,
    orphans,    \* objects whose writer ended before it synced their names (history)
    behind,     \* an import left the counter behind, or took an older pack (history)
    faults

vars == <<db, top, objects, durable, latest, gen, local, net, lock, proc, orphans, behind, faults>>
store == <<objects, durable>>
history == <<orphans, behind>>

Pack == [state : State, gen : 1..MaxGen]
Idle == [pc |-> "idle", state |-> None, todo |-> {}, touched |-> {}, gen |-> None]

Init ==
    /\ db = None /\ top = None /\ objects = {} /\ durable = {} /\ latest = None /\ gen = 0
    /\ local = {} /\ net = {} /\ lock = None
    /\ proc = [r \in Proc |-> Idle] /\ orphans = {} /\ behind = FALSE /\ faults = 0

(* object_store_lock: one command at a time works on the store              *)
Free == lock = None

At(r, label) == proc[r].pc = label
Enter(r, m) == Free /\ lock' = r /\ proc' = [proc EXCEPT ![r] = m]
Leave(r, m) == lock' = (IF lock = r THEN None ELSE lock) /\ proc' = [proc EXCEPT ![r] = m]

-----------------------------------------------------------------------------
(* backup, push, verify: the catalogue changes                              *)
Work ==
    /\ top < MaxState /\ (db # None \/ top = None)
    /\ db' = top + 1 /\ top' = top + 1
    /\ UNCHANGED <<store, latest, gen, local, net, lock, proc, history, faults>>

(* export_current_state: the lock, then one read snapshot of the catalogue  *)
Export(r) ==
    /\ At(r, "idle") /\ db # None
    /\ Enter(r, [Idle EXCEPT !.pc = "put", !.state = db, !.todo = Graph[db]])
    /\ UNCHANGED <<db, top, store, latest, gen, local, net, history, faults>>

(* put_objects_batch: what is there is used again                           *)
PutObject(r, o) ==
    /\ At(r, "put") /\ o \in proc[r].todo
    /\ objects' = objects \cup {o}
    /\ proc' = [proc EXCEPT ![r].todo = @ \ {o},
                            ![r].touched = IF o \in objects THEN @ ELSE @ \cup {o}]
    /\ UNCHANGED <<db, top, durable, latest, gen, local, net, lock, history, faults>>

(* the directories in which objects were written are synced                  *)
SyncNone(r) == {}
Synced(r) == proc[r].touched

SyncDirs(r) ==
    /\ At(r, "put") /\ proc[r].todo = {}
    /\ durable' = durable \cup Synced(r)
    /\ proc' = [proc EXCEPT ![r].pc = "latest"]
    /\ UNCHANGED <<db, top, objects, latest, gen, local, net, lock, history, faults>>

(* write_latest_pointer; the import of a pack goes on to the generation     *)
WriteLatest(r) ==
    /\ At(r, "latest")
    /\ latest' = proc[r].state
    /\ \/ proc[r].gen = None /\ Leave(r, Idle)
       \/ proc[r].gen # None /\ proc' = [proc EXCEPT ![r].pc = "remember"] /\ UNCHANGED lock
    /\ UNCHANGED <<db, top, store, gen, local, net, history, faults>>

-----------------------------------------------------------------------------
Readable(n) == n # None /\ Graph[n] \subseteq objects

(* export_latest_pack: the generation is taken before the pack is written    *)
NextGenerationSame == Max({gen, 1})
NextGeneration == gen + 1

TakeGeneration(r) ==
    /\ At(r, "idle") /\ Readable(latest) /\ gen < MaxGen
    /\ gen' = NextGeneration
    /\ Enter(r, [Idle EXCEPT !.pc = "pack", !.state = latest, !.gen = gen'])
    /\ UNCHANGED <<db, top, store, latest, local, net, history, faults>>

(* the pack is written, and sent if the command is a push                   *)
WritePack(r) ==
    /\ At(r, "pack")
    /\ local' = local \cup {[state |-> proc[r].state, gen |-> proc[r].gen]}
    /\ \E next \in {Idle, [proc[r] EXCEPT !.pc = "send"]} : Leave(r, next)
    /\ UNCHANGED <<db, top, store, latest, gen, net, history, faults>>

(* find_reusable_latest_pack: the pack of the latest state with the greatest
   generation, which the counter is brought up to                           *)
OfAny == local
OfLatest == {p \in local : p.state = latest}
Newest(packs) == CHOOSE p \in packs : \A q \in packs : q.gen <= p.gen

Reuse(r) ==
    /\ At(r, "idle") /\ Free /\ latest # None /\ OfLatest # {}
    /\ gen' = Max({gen, Newest(OfLatest).gen})
    /\ proc' = [proc EXCEPT ![r] = [Idle EXCEPT !.pc = "send", !.state = latest,
                                                 !.gen = Newest(OfLatest).gen]]
    /\ UNCHANGED <<db, top, store, latest, local, net, lock, history, faults>>

(* push_metadata_pack_to_network, without the lock: the file may be gone     *)
Send(r) ==
    LET p == [state |-> proc[r].state, gen |-> proc[r].gen]
    IN  /\ At(r, "send")
        /\ net' = IF p \in local THEN net \cup {p} ELSE net
        /\ proc' = [proc EXCEPT ![r] = Idle]
        /\ UNCHANGED <<db, top, store, latest, gen, local, lock, history, faults>>

-----------------------------------------------------------------------------
(* MetadataObjectGarbageCollector.collect: what latest reaches, then the
   sweep; what is in its grace period stays                                 *)
Mark(r) ==
    /\ At(r, "idle") /\ Readable(latest)
    /\ Enter(r, [Idle EXCEPT !.pc = "sweep", !.state = latest])
    /\ UNCHANGED <<db, top, store, latest, gen, local, net, history, faults>>

Sweep(r) ==
    LET kept == {p \in local : p.state = proc[r].state
                                /\ \A q \in local : q.state = p.state => q.gen <= p.gen}
    IN  /\ At(r, "sweep")
        /\ \E gone \in SUBSET (objects \ Graph[proc[r].state]), old \in SUBSET (local \ kept) :
             objects' = objects \ gone /\ durable' = durable \ gone /\ local' = local \ old
        /\ Leave(r, Idle)
        /\ UNCHANGED <<db, top, latest, gen, net, history, faults>>

-----------------------------------------------------------------------------
(* recover_metadata_from_network: of the packs found, the one with the
   greatest generation, or the one that was asked for                       *)
Best == {p \in net : \A q \in net : q.gen <= p.gen}

(* import_pack                                                              *)
Import(r, p) ==
    /\ At(r, "idle")
    /\ Enter(r, [Idle EXCEPT !.pc = "put", !.state = p.state, !.todo = Graph[p.state], !.gen = p.gen])
    /\ UNCHANGED <<db, top, store, latest, gen, local, net, orphans>>

Recover(r, p) == db = None /\ p \in Best /\ Import(r, p) /\ UNCHANGED <<behind, faults>>

(* _remember_pack_generation, after the latest pointer                       *)
Remember(r) ==
    /\ At(r, "remember")
    /\ gen' = Max({gen, proc[r].gen})
    /\ Leave(r, Idle)
    /\ UNCHANGED <<db, top, store, latest, local, net, history, faults>>

(* import_latest_state: into an empty catalogue only                         *)
ImportDb(r) ==
    /\ At(r, "idle") /\ Free /\ db = None /\ Readable(latest)
    /\ db' = latest
    /\ UNCHANGED <<top, store, latest, gen, local, net, lock, proc, history, faults>>

-----------------------------------------------------------------------------
Fault == faults < MaxFaults /\ faults' = faults + 1

(* the command dies, or one of its writes fails and ends it                  *)
Crash(r) ==
    /\ Fault
    /\ ~At(r, "idle") /\ Leave(r, Idle)
    /\ orphans' = orphans \cup (proc[r].touched \ durable)
    /\ behind' = (behind \/ At(r, "remember"))
    /\ UNCHANGED <<db, top, store, latest, gen, local, net>>

(* power fails: names that were not synced may be lost                       *)
PowerLoss ==
    /\ Fault
    /\ \E lost \in SUBSET (objects \ durable) : objects' = objects \ lost
    /\ durable' = objects' /\ lock' = None /\ proc' = [r \in Proc |-> Idle]
    /\ behind' = (behind \/ \E r \in Proc : At(r, "remember"))
    /\ UNCHANGED <<db, top, latest, gen, local, net, orphans>>

(* the machine is lost                                                      *)
Disaster ==
    /\ Fault
    /\ db' = None /\ objects' = {} /\ durable' = {} /\ latest' = None /\ gen' = 0 /\ local' = {}
    /\ lock' = None /\ proc' = [r \in Proc |-> Idle]
    /\ UNCHANGED <<top, net, history>>

(* the user imports a pack of their choice, or recovers over a catalogue that
   is not empty: the store follows the pack and import_latest refuses        *)
Rollback(r, p) == Fault /\ p \in net /\ Import(r, p) /\ behind' = TRUE

Step(r) ==
    \/ (\E o \in Object : PutObject(r, o)) \/ SyncDirs(r) \/ WriteLatest(r) \/ Remember(r)
    \/ WritePack(r) \/ Send(r) \/ Sweep(r)

Next ==
    \/ Work \/ PowerLoss \/ Disaster
    \/ \E r \in Proc :
          \/ Export(r) \/ TakeGeneration(r) \/ Reuse(r) \/ Mark(r) \/ ImportDb(r)
          \/ Step(r) \/ Crash(r)
          \/ \E p \in net : Recover(r, p) \/ Rollback(r, p)

Spec == Init /\ [][Next]_vars

(* commands that run go on; exports and pushes are scheduled, so that one that
   waits for the lock gets it; after a disaster the user recovers            *)
FairSpec ==
    /\ Spec
    /\ \A r \in Proc : WF_vars(Step(r))
    /\ SF_vars(\E r \in Proc : Export(r))
    /\ SF_vars(\E r \in Proc : Reuse(r))
    /\ SF_vars(\E r \in Proc : TakeGeneration(r) /\ OfLatest = {})
    /\ SF_vars(\E r \in Proc : ImportDb(r))
    /\ SF_vars(\E r \in Proc, p \in net : Recover(r, p))

-----------------------------------------------------------------------------
(* A command that holds the lock is at work on the store, and only such a
   command is; no local pack has a generation that the counter has not reached,
   so the next pack is above all of them.                                   *)
TypeOK ==
    /\ {db, top, latest} \subseteq State \cup {None} /\ durable \subseteq objects
    /\ objects \subseteq Object /\ local \cup net \subseteq Pack /\ gen \in 0..MaxGen
    /\ \A r \in Proc : lock = r <=> proc[r].pc \in {"put", "latest", "remember", "pack", "sweep"}
    /\ \A p \in local : p.gen <= gen

(* "Ese latest apunta al catálogo vigente y permite importar de nuevo el
   estado" (docs/architecture.md): everything the latest pointer reaches is in
   the store, whatever exports, imports, collections and losses of power came
   between.  The exception are objects left by a command that died before it
   synced their names, which the next export uses again as they are.        *)
LatestClosed == latest # None => Graph[latest] \subseteq objects \cup orphans

(* When a push of what is still the latest state ends well, the recovery that
   compares the generations of all packs finds this state and no other, also
   when the pack was there already and the push added nothing; unless an
   import ended between the latest pointer and the counter of generations, or
   an older pack was imported by hand.                                      *)
PushedIsFound ==
    [][\A r \in Proc : ~behind /\ At(r, "send") /\ At(r, "idle")' /\ proc[r].state = latest
                         /\ [state |-> proc[r].state, gen |-> proc[r].gen] \in net' =>
          \A q \in Best' : q.state = latest]_vars

(* The catalogue stops changing at last, and then its content is what a
   recovery would find, with the same exceptions; a behaviour in which the
   bound leaves no generation for the latest state is not looked at.        *)
EventuallyDistributed ==
    \/ <>behind \/ <>[](gen = MaxGen /\ OfLatest = {})
    \/ <>[](db = None \/ \E p \in net : p.state = db /\ \A q \in net : q.gen <= p.gen)
=============================================================================
