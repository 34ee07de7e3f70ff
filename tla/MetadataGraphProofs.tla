------------------------ MODULE MetadataGraphProofs ------------------------
(***************************************************************************)
(* For any catalogue contents, numbers of commands, faults and generations:*)
(* what the latest pointer reaches is in the store, and what was pushed is *)
(* what a recovery finds.                                                  *)
(*                                                                         *)
(* LatestClosed is not inductive: a loss of power takes objects whose names*)
(* are not on disk, so StoreInv follows the names from the put to the sync *)
(* to the pointer.  PushedIsFound needs OrderInv: generations order the    *)
(* packs as their states are ordered, and no pack is ahead of the latest   *)
(* state, through losses of the machine and recoveries.                    *)
(***************************************************************************)
EXTENDS MetadataGraph, WellFoundedInduction, TLAPS

(* where a command works on the store, under the lock                         *)
Busy == {"put", "latest", "remember", "pack", "sweep"}
ProcRecord == [pc : Busy \cup {"idle", "send"}, state : State \cup {None}, todo : SUBSET Object,
               touched : SUBSET Object, gen : 0..MaxGen]
DataTypes ==
    /\ db \in State \cup {None} /\ top \in State \cup {None} /\ latest \in State \cup {None}
    /\ objects \in SUBSET Object /\ durable \in SUBSET Object /\ orphans \in SUBSET Object
    /\ gen \in 0..MaxGen /\ local \in SUBSET Pack /\ net \in SUBSET Pack
    /\ behind \in BOOLEAN
    /\ \A p \in local : p.gen <= gen
LockInv ==
    /\ lock \in Proc \cup {None} /\ proc \in [Proc -> ProcRecord]
    /\ \A r \in Proc : lock = r <=> proc[r].pc \in Busy
    /\ \A r \in Proc : proc[r].pc \in Busy => proc[r].state \in State
Types == DataTypes /\ LockInv
(* an object whose name is not on disk is an orphan, or an export or import
   has just written it                                                       *)
Known == \A o \in objects : o \in durable \/ o \in orphans \/ \E r \in Proc : At(r, "put") /\ o \in proc[r].touched
(* what the pointer reaches is on disk, orphans apart                          *)
Closed == latest # None => Graph[latest] \subseteq durable \cup orphans
(* what the command at work may rely on                                        *)
Working(r) ==
    /\ At(r, "put") => proc[r].touched \subseteq objects /\ Graph[proc[r].state] \subseteq proc[r].todo \cup objects
    /\ At(r, "latest") => Graph[proc[r].state] \subseteq durable \cup orphans
    /\ At(r, "sweep") => proc[r].state = latest
    /\ At(r, "pack") => proc[r].state = latest /\ proc[r].gen = gen /\ gen # None
    /\ At(r, "remember") => proc[r].gen # None
StoreInv == durable \subseteq objects /\ Known /\ Closed /\ \A r \in Proc : Working(r)
(* the packs of the vault; who imports and who exports                         *)
Packs == net \cup local
Importing(r) == proc[r].pc \in {"put", "latest", "remember"} /\ proc[r].gen # None
Exporting(r) == proc[r].pc \in {"put", "latest"} /\ proc[r].gen = None
Upto(n) == \A q \in Packs : q.state <= n
(* the states anyone knows of                                                  *)
Numbers == {db, latest, None} \cup {proc[r].state : r \in Proc} \cup {q.state : q \in Packs}
NumberInv == \A n \in Numbers : n <= top
(* a later generation has a later state                                        *)
Ordered == \A p, q \in Packs : p.gen <= q.gen => p.state <= q.state
(* the counter has reached the packs of the custodians, once there is anything
   to export and no import is about to write it                               *)
Counted == (db # None \/ latest # None) /\ (\A r \in Proc : ~At(r, "remember")) => \A q \in net : q.gen <= gen
(* no pack is ahead of the latest state or of the catalogue                    *)
Current ==
    /\ latest # None => Upto(latest)
    /\ db # None => latest <= db /\ Upto(db)
    /\ latest = None => local = {}
    /\ db = None /\ latest # None => \E q \in net : q.state = latest
(* nor ahead of what an import or export will make the latest state            *)
Moving(r) ==
    /\ Importing(r) =>
          /\ db = None /\ Upto(proc[r].state)
          /\ [state |-> proc[r].state, gen |-> proc[r].gen] \in net
          /\ \A q \in net : q.gen <= proc[r].gen \/ q.gen <= gen
    /\ Exporting(r) => db # None /\ latest <= proc[r].state /\ proc[r].state <= db /\ Upto(proc[r].state)
    /\ At(r, "pack") => \A q \in Packs : q.gen < gen
OrderInv == Ordered /\ Counted /\ Current /\ \A r \in Proc : Moving(r)
IInv == Types /\ StoreInv /\ NumberInv /\ (~behind => OrderInv)

-----------------------------------------------------------------------------
(* A nonempty finite set of integers has a greatest element.                 *)
LEMMA MaxExists ==
  ASSUME NEW n \in Nat, NEW S \in SUBSET (0..n), S # {}
  PROVE  \E m \in S : \A y \in S : m >= y
<1> DEFINE R == OpToRel(<, Nat)
<1> DEFINE T == {n - x : x \in S}
<1>1. T \subseteq Nat /\ T # {}
  <2>1. \A x \in S : n - x \in Nat
    OBVIOUS
  <2> QED BY Zenon, <2>1
<1>2. \E t \in T : \A u \in T : ~ (<<u, t>> \in R)
  <2>1. IsWellFoundedOn(R, Nat)
    BY Zenon, NatLessThanWellFounded
  <2> HIDE DEF R, T
  <2> QED BY Zenon, <1>1, <2>1, WFMin
<1>3. \A u, t \in Nat : u < t => <<u, t>> \in R
  BY Zenon DEF OpToRel
<1>4. PICK m \in S : \A y \in S : ~(n - y < n - m)
  <2> HIDE DEF R
  <2> QED BY Zenon, <1>1, <1>2, <1>3
<1> QED BY <1>4

(* Max of two integers is the greater of them.                               *)
LEMMA Max2 == ASSUME NEW a \in Int, NEW b \in Int PROVE Max({a,b}) = IF a >= b THEN a ELSE b
<1>1. \E m \in {a,b} : \A y \in {a,b} : m >= y
  OBVIOUS
<1>2. Max({a,b}) \in {a,b} /\ \A y \in {a,b} : Max({a,b}) >= y
  BY Zenon, <1>1 DEF Max
<1> QED BY <1>2

(* find_reusable_latest_pack finds a pack, so the counter, which is above all
   local packs, stays.                                                       *)
LEMMA NewestIsOne ==
  ASSUME GraphAssumption, Types, OfLatest # {}
  PROVE  Newest(OfLatest) \in OfLatest /\ Max({gen, Newest(OfLatest).gen}) = gen
<1> DEFINE G == {p.gen : p \in OfLatest}
<1>1. \A p \in OfLatest : p \in local /\ p \in Pack /\ p.gen \in 1..MaxGen /\ p.gen <= gen
  BY Zenon DEF OfLatest, Types, DataTypes, Pack
<1>2. G \in SUBSET (0..MaxGen) /\ G # {}
  BY <1>1 DEF GraphAssumption
<1>4. \E m \in G : \A y \in G : m >= y
  <2> HIDE DEF G
  <2> QED BY Zenon, <1>2, MaxExists DEF GraphAssumption
<1>5. PICK p \in OfLatest : \A q \in OfLatest : p.gen >= q.gen
  BY Zenon, <1>4
<1>6. \A q \in OfLatest : q.gen <= p.gen
  BY Zenon, <1>1, <1>5
<1>7. Newest(OfLatest) \in OfLatest
  BY Zenon, <1>6 DEF Newest
<1>8. gen \in Int /\ Newest(OfLatest).gen \in Int /\ gen >= Newest(OfLatest).gen
  BY <1>1, <1>7 DEF Types, DataTypes
<1> QED BY Zenon, <1>7, <1>8, Max2

(* The step changes the record of r to one with these fields, and that of no
   other command.                                                            *)
Becomes(r, pc, state, todo, touched, g) ==
    /\ proc'[r].pc = pc /\ proc'[r].state = state /\ proc'[r].todo = todo
    /\ proc'[r].touched = touched /\ proc'[r].gen = g
    /\ \A u \in Proc \ {r} : proc'[u] = proc[u]

(* A command that goes on, enters or leaves, with the lock as it should be.   *)
LEMMA Moved ==
  ASSUME GraphAssumption, LockInv, NEW r \in Proc,
         proc' \in [Proc -> ProcRecord], \A u \in Proc \ {r} : proc'[u] = proc[u],
         proc'[r].pc \in Busy => proc'[r].state \in State /\ lock \in {None, r} /\ lock' = r,
         proc'[r].pc \notin Busy => lock' = IF lock = r THEN None ELSE lock
  PROVE  LockInv'
<1>0. None \notin Proc /\ lock \in Proc \cup {None}
  BY Zenon DEF GraphAssumption, LockInv
<1>3. lock' \in Proc \cup {None}
  BY Zenon, <1>0
<1>4. \A u \in Proc : lock = u <=> proc[u].pc \in Busy
  BY Zenon DEF LockInv
<1>5. \A u \in Proc : lock' = u <=> proc'[u].pc \in Busy
  BY <1>0, <1>4
<1>6. \A u \in Proc : proc'[u].pc \in Busy => proc'[u].state \in State
  BY Zenon DEF LockInv
<1> QED BY Zenon, <1>3, <1>5, <1>6 DEF LockInv

(* The same when the record is replaced as a whole.                           *)
LEMMA Replaced ==
  ASSUME GraphAssumption, LockInv, NEW r \in Proc, NEW m \in ProcRecord,
         proc' = [proc EXCEPT ![r] = m],
         m.pc \in Busy => m.state \in State /\ lock \in {None, r} /\ lock' = r,
         m.pc \notin Busy => lock' = IF lock = r THEN None ELSE lock
  PROVE  LockInv' /\ Becomes(r, m.pc, m.state, m.todo, m.touched, m.gen)
<1>1. proc'[r] = m /\ (\A u \in Proc \ {r} : proc'[u] = proc[u]) /\ proc' \in [Proc -> ProcRecord]
  BY Zenon DEF LockInv
<1> QED BY Zenon, <1>1, Moved DEF Becomes

(* An idle command has an empty record. *)
LEMMA IdleType ==
  ASSUME GraphAssumption
  PROVE  /\ Idle \in ProcRecord /\ Idle.pc = "idle" /\ Idle.state = None
         /\ Idle.todo = {} /\ Idle.touched = {} /\ Idle.gen = None
<1>1. None \in 0..MaxGen
  BY DEF None, GraphAssumption
<1> QED BY Zenon, <1>1 DEF ProcRecord, Idle

(* What each step makes of the record of its command, and that it keeps the
   types and the lock.                                                       *)
LEMMA ExportEffect ==
  ASSUME GraphAssumption, Types, NEW r \in Proc, Export(r)
  PROVE  Types' /\ Becomes(r, "put", db, Graph[db], {}, None)
<1>1. db \in State /\ Graph[db] \subseteq Object
  BY Zenon DEF Export, Types, DataTypes, Object
<1> DEFINE m == [Idle EXCEPT !.pc = "put", !.state = db, !.todo = Graph[db]]
<1>2. m.pc = "put" /\ m.state = db /\ m.todo = Graph[db] /\ m.touched = {} /\ m.gen = None
  BY Zenon DEF Idle
<1>6. m \in ProcRecord
  BY Zenon, <1>1, IdleType DEF ProcRecord, Busy
<1>3. proc' = [proc EXCEPT ![r] = m] /\ lock = None /\ lock' = r
  BY Zenon DEF Export, Enter, Free
<1> HIDE DEF m
<1>4. LockInv' /\ Becomes(r, m.pc, m.state, m.todo, m.touched, m.gen)
  BY Zenon, <1>1, <1>2, <1>3, <1>6, Replaced DEF Types, Busy
<1>5. DataTypes'
  BY Zenon DEF Export, store, history, Types, DataTypes
<1> QED BY Zenon, <1>2, <1>4, <1>5 DEF Types

(* put_objects_batch: one object less to do, one more touched if it is new. *)
LEMMA PutObjectEffect ==
  ASSUME GraphAssumption, Types, NEW r \in Proc, NEW o \in Object, PutObject(r, o)
  PROVE  Types' /\ Becomes(r, "put", proc[r].state, proc[r].todo \ {o},
                      IF o \in objects THEN proc[r].touched ELSE proc[r].touched \cup {o}, proc[r].gen)
<1>1. proc[r] \in ProcRecord /\ proc[r].pc = "put" /\ proc[r].state \in State /\ lock = r /\ lock' = r
  BY Zenon DEF PutObject, Types, LockInv, At, Busy
<1>2. proc' \in [Proc -> ProcRecord]
  BY Zenon, <1>1 DEF PutObject, ProcRecord, Types, LockInv
<1>3. Becomes(r, "put", proc[r].state, proc[r].todo \ {o},
                      IF o \in objects THEN proc[r].touched ELSE proc[r].touched \cup {o}, proc[r].gen)
  BY Zenon, <1>1 DEF PutObject, ProcRecord, Becomes, Types, LockInv
<1>4. LockInv'
  BY Zenon, <1>1, <1>2, <1>3, Moved DEF Types, Becomes, Busy
<1>5. DataTypes'
  BY Zenon DEF PutObject, history, Types, DataTypes
<1> QED BY Zenon, <1>3, <1>4, <1>5 DEF Types

(* The directories are synced and the latest pointer is next. *)
LEMMA SyncDirsEffect ==
  ASSUME GraphAssumption, Types, NEW r \in Proc, SyncDirs(r)
  PROVE  Types' /\ Becomes(r, "latest", proc[r].state, proc[r].todo, proc[r].touched, proc[r].gen)
<1>1. proc[r] \in ProcRecord /\ proc[r].pc = "put" /\ proc[r].state \in State /\ lock = r /\ lock' = r
  BY Zenon DEF SyncDirs, Types, LockInv, At, Busy
<1>2. proc' \in [Proc -> ProcRecord]
  BY Zenon, <1>1 DEF SyncDirs, ProcRecord, Types, LockInv, Busy
<1>3. Becomes(r, "latest", proc[r].state, proc[r].todo, proc[r].touched, proc[r].gen)
  BY Zenon, <1>1 DEF SyncDirs, ProcRecord, Becomes, Types, LockInv
<1>4. LockInv'
  BY Zenon, <1>1, <1>2, <1>3, Moved DEF Types, Becomes, Busy
<1>5. DataTypes'
  BY Zenon, <1>1 DEF SyncDirs, history, Synced, Types, DataTypes, ProcRecord
<1> QED BY Zenon, <1>3, <1>4, <1>5 DEF Types

(* An import goes on from the latest pointer to the generation. *)
LEMMA WriteLatestOnEffect ==
  ASSUME GraphAssumption, Types, NEW r \in Proc, WriteLatest(r), proc[r].gen # None
  PROVE  Types' /\ Becomes(r, "remember", proc[r].state, proc[r].todo, proc[r].touched, proc[r].gen)
<1>1. proc[r] \in ProcRecord /\ proc[r].pc = "latest" /\ proc[r].state \in State /\ lock = r /\ lock' = r
  BY Zenon DEF WriteLatest, Types, LockInv, At, Busy
<1>2. proc' \in [Proc -> ProcRecord]
  BY <1>1 DEF WriteLatest, ProcRecord, Types, LockInv, Busy
<1>3. Becomes(r, "remember", proc[r].state, proc[r].todo, proc[r].touched, proc[r].gen)
  BY <1>1 DEF WriteLatest, ProcRecord, Becomes, Types, LockInv
<1>4. LockInv'
  BY Zenon, <1>1, <1>2, <1>3, Moved DEF Types, Becomes, Busy
<1>5. DataTypes'
  BY Zenon, <1>1 DEF WriteLatest, store, history, Types, DataTypes, ProcRecord
<1> QED BY Zenon, <1>3, <1>4, <1>5 DEF Types

(* An export ends with the latest pointer. *)
LEMMA WriteLatestEndEffect ==
  ASSUME GraphAssumption, Types, NEW r \in Proc, WriteLatest(r), proc[r].gen = None
  PROVE  Types' /\ Becomes(r, "idle", None, {}, {}, None)
<1>1. proc[r] \in ProcRecord /\ "idle" \notin Busy
  BY Zenon DEF Types, LockInv, Busy
<1>2. proc' = [proc EXCEPT ![r] = Idle] /\ lock' = (IF lock = r THEN None ELSE lock)
  BY Zenon DEF WriteLatest, Leave
<1>3. LockInv' /\ Becomes(r, Idle.pc, Idle.state, Idle.todo, Idle.touched, Idle.gen)
  BY Zenon, <1>1, <1>2, IdleType, Replaced DEF Types
<1>4. DataTypes'
  <2>1. proc[r].pc = "latest" /\ proc[r].state \in State
    BY Zenon DEF WriteLatest, At, Types, LockInv, Busy
  <2> QED BY Zenon, <2>1 DEF WriteLatest, store, history, Types, DataTypes
<1> QED BY Zenon, <1>3, <1>4, IdleType DEF Types

(* A push ends; it never held the lock. *)
LEMMA SendEffect ==
  ASSUME GraphAssumption, Types, NEW r \in Proc, Send(r)
  PROVE  Types' /\ Becomes(r, "idle", None, {}, {}, None)
<1>1. proc[r] \in ProcRecord /\ "idle" \notin Busy
  BY Zenon DEF Types, LockInv, Busy
<1>2. proc' = [proc EXCEPT ![r] = Idle] /\ lock' = (IF lock = r THEN None ELSE lock)
  BY Zenon DEF Send, At, Types, LockInv, Busy
<1>3. LockInv' /\ Becomes(r, Idle.pc, Idle.state, Idle.todo, Idle.touched, Idle.gen)
  BY Zenon, <1>1, <1>2, IdleType, Replaced DEF Types
<1>4. DataTypes'
  BY Zenon DEF Send, store, history, Types, DataTypes
<1> QED BY Zenon, <1>3, <1>4, IdleType DEF Types

(* A collection ends with its sweep. *)
LEMMA SweepEffect ==
  ASSUME GraphAssumption, Types, NEW r \in Proc, Sweep(r)
  PROVE  Types' /\ Becomes(r, "idle", None, {}, {}, None)
<1>1. proc[r] \in ProcRecord /\ "idle" \notin Busy
  BY Zenon DEF Types, LockInv, Busy
<1>2. proc' = [proc EXCEPT ![r] = Idle] /\ lock' = (IF lock = r THEN None ELSE lock)
  BY Zenon DEF Sweep, Leave
<1>3. LockInv' /\ Becomes(r, Idle.pc, Idle.state, Idle.todo, Idle.touched, Idle.gen)
  BY Zenon, <1>1, <1>2, IdleType, Replaced DEF Types
<1>4. DataTypes'
  BY Zenon DEF Sweep, history, Types, DataTypes
<1> QED BY Zenon, <1>3, <1>4, IdleType DEF Types

(* An import ends; the counter has reached the generation of its pack. *)
LEMMA RememberEffect ==
  ASSUME GraphAssumption, Types, NEW r \in Proc, Remember(r)
  PROVE  Types' /\ Becomes(r, "idle", None, {}, {}, None) /\ gen' >= gen /\ gen' >= proc[r].gen
<1>1. proc[r] \in ProcRecord /\ "idle" \notin Busy
  BY Zenon DEF Types, LockInv, Busy
<1>2. proc' = [proc EXCEPT ![r] = Idle] /\ lock' = (IF lock = r THEN None ELSE lock)
  BY Zenon DEF Remember, Leave
<1>3. LockInv' /\ Becomes(r, Idle.pc, Idle.state, Idle.todo, Idle.touched, Idle.gen)
  BY Zenon, <1>1, <1>2, IdleType, Replaced DEF Types
<1>5. gen' \in 0..MaxGen /\ gen' >= gen /\ gen' >= proc[r].gen
  BY <1>1, Max2 DEF Remember, Types, DataTypes, ProcRecord
<1>6. \A p \in local : p.gen \in Int
  BY DEF Types, DataTypes, Pack
<1>7. \A p \in local : p.gen <= gen'
  BY <1>5, <1>6 DEF Types, DataTypes
<1>4. DataTypes'
  BY Zenon, <1>5, <1>7 DEF Remember, store, history, Types, DataTypes
<1> QED BY Zenon, <1>3, <1>4, <1>5, IdleType DEF Types

(* A command that dies gives the lock back. *)
LEMMA CrashEffect ==
  ASSUME GraphAssumption, Types, NEW r \in Proc, Crash(r)
  PROVE  Types' /\ Becomes(r, "idle", None, {}, {}, None)
<1>1. proc[r] \in ProcRecord /\ "idle" \notin Busy
  BY Zenon DEF Types, LockInv, Busy
<1>2. proc' = [proc EXCEPT ![r] = Idle] /\ lock' = (IF lock = r THEN None ELSE lock)
  BY Zenon DEF Crash, Leave
<1>3. LockInv' /\ Becomes(r, Idle.pc, Idle.state, Idle.todo, Idle.touched, Idle.gen)
  BY Zenon, <1>1, <1>2, IdleType, Replaced DEF Types
<1>4. DataTypes'
  BY Zenon, <1>1 DEF Crash, store, Types, DataTypes, ProcRecord, At
<1> QED BY Zenon, <1>3, <1>4, IdleType DEF Types

(* export_latest_pack has its generation, the pack is next. *)
LEMMA TakeGenerationEffect ==
  ASSUME GraphAssumption, Types, NEW r \in Proc, TakeGeneration(r)
  PROVE  Types' /\ Becomes(r, "pack", latest, {}, {}, gen')
<1>1. latest \in State /\ gen' = gen + 1 /\ gen \in 0..MaxGen /\ gen' \in 0..MaxGen
  BY DEF TakeGeneration, Readable, Types, DataTypes, NextGeneration, GraphAssumption
<1> DEFINE m == [Idle EXCEPT !.pc = "pack", !.state = latest, !.gen = gen']
<1>2. m.pc = "pack" /\ m.state = latest /\ m.todo = {} /\ m.touched = {} /\ m.gen = gen'
  BY Zenon DEF Idle
<1>3. m \in ProcRecord
  BY Zenon, <1>1, IdleType DEF ProcRecord, Busy
<1>4. proc' = [proc EXCEPT ![r] = m] /\ lock = None /\ lock' = r
  BY Zenon DEF TakeGeneration, Enter, Free
<1>7. \A p \in local : p.gen <= gen'
  <2>1. \A p \in local : p.gen \in Int /\ p.gen <= gen
    BY DEF Types, DataTypes, Pack
  <2> QED BY <1>1, <2>1
<1> HIDE DEF m
<1>5. LockInv' /\ Becomes(r, m.pc, m.state, m.todo, m.touched, m.gen)
  BY Zenon, <1>1, <1>2, <1>3, <1>4, Replaced DEF Types, Busy
<1>6. DataTypes'
  BY Zenon, <1>1, <1>7 DEF TakeGeneration, store, history, Types, DataTypes
<1> QED BY Zenon, <1>2, <1>5, <1>6 DEF Types

(* A collection has marked what latest reaches. *)
LEMMA MarkEffect ==
  ASSUME GraphAssumption, Types, NEW r \in Proc, Mark(r)
  PROVE  Types' /\ Becomes(r, "sweep", latest, {}, {}, None)
<1>1. latest \in State
  BY Zenon DEF Mark, Readable, Types, DataTypes
<1> DEFINE m == [Idle EXCEPT !.pc = "sweep", !.state = latest]
<1>2. m.pc = "sweep" /\ m.state = latest /\ m.todo = {} /\ m.touched = {} /\ m.gen = None
  BY Zenon DEF Idle
<1>3. m \in ProcRecord
  BY Zenon, <1>1, IdleType DEF ProcRecord, Busy
<1>4. proc' = [proc EXCEPT ![r] = m] /\ lock = None /\ lock' = r
  BY Zenon DEF Mark, Enter, Free
<1> HIDE DEF m
<1>5. LockInv' /\ Becomes(r, m.pc, m.state, m.todo, m.touched, m.gen)
  BY Zenon, <1>1, <1>2, <1>3, <1>4, Replaced DEF Types, Busy
<1>6. DataTypes'
  BY Zenon DEF Mark, store, history, Types, DataTypes
<1> QED BY Zenon, <1>2, <1>5, <1>6 DEF Types

(* import_pack has the lock and all objects of the pack to put. *)
LEMMA ImportEffect ==
  ASSUME GraphAssumption, Types, NEW r \in Proc, NEW p \in net, Import(r, p), behind' \in BOOLEAN
  PROVE  Types' /\ Becomes(r, "put", p.state, Graph[p.state], {}, p.gen)
<1>1. p.state \in State /\ p.gen \in 0..MaxGen /\ Graph[p.state] \subseteq Object
  <2>1. p.state \in State /\ p.gen \in 1..MaxGen
    BY Zenon DEF Types, DataTypes, Pack
  <2>2. p.gen \in 0..MaxGen
    BY <2>1 DEF GraphAssumption
  <2> QED BY Zenon, <2>1, <2>2 DEF Object
<1> DEFINE m == [Idle EXCEPT !.pc = "put", !.state = p.state, !.todo = Graph[p.state], !.gen = p.gen]
<1>2. m.pc = "put" /\ m.state = p.state /\ m.todo = Graph[p.state] /\ m.touched = {} /\ m.gen = p.gen
  BY Zenon DEF Idle
<1>3. m \in ProcRecord
  BY Zenon, <1>1, IdleType DEF ProcRecord, Busy
<1>4. proc' = [proc EXCEPT ![r] = m] /\ lock = None /\ lock' = r
  BY Zenon DEF Import, Enter, Free
<1> HIDE DEF m
<1>5. LockInv' /\ Becomes(r, m.pc, m.state, m.todo, m.touched, m.gen)
  BY Zenon, <1>1, <1>2, <1>3, <1>4, Replaced DEF Types, Busy
<1>6. DataTypes'
  BY Zenon DEF Import, store, Types, DataTypes
<1> QED BY Zenon, <1>2, <1>5, <1>6 DEF Types

(* A push of a reusable pack: the counter stays. *)
LEMMA ReuseEffect ==
  ASSUME GraphAssumption, Types, NEW r \in Proc, Reuse(r)
  PROVE  Types' /\ Becomes(r, "send", latest, {}, {}, Newest(OfLatest).gen) /\ gen' = gen
<1>0. Newest(OfLatest) \in OfLatest /\ gen' = gen
  BY Zenon, NewestIsOne DEF Reuse
<1>1. latest \in State /\ Newest(OfLatest).gen \in 0..MaxGen
  <2>1. Newest(OfLatest) \in Pack
    BY Zenon, <1>0 DEF OfLatest, Types, DataTypes
  <2>2. Newest(OfLatest).gen \in 1..MaxGen
    BY Zenon, <2>1 DEF Pack
  <2> QED BY <2>2 DEF GraphAssumption, Reuse, Types, DataTypes
<1> DEFINE m == [Idle EXCEPT !.pc = "send", !.state = latest, !.gen = Newest(OfLatest).gen]
<1>2. m.pc = "send" /\ m.state = latest /\ m.todo = {} /\ m.touched = {} /\ m.gen = Newest(OfLatest).gen
  BY Zenon DEF Idle
<1>3. m \in ProcRecord
  BY Zenon, <1>1, IdleType DEF ProcRecord, Busy
<1>4. proc' = [proc EXCEPT ![r] = m] /\ lock = None /\ lock' = None
  BY Zenon DEF Reuse, Free
<1> HIDE DEF m
<1>5. LockInv' /\ Becomes(r, m.pc, m.state, m.todo, m.touched, m.gen)
  BY Zenon, <1>1, <1>2, <1>3, <1>4, Replaced DEF Types, Busy
<1>6. DataTypes'
  BY Zenon, <1>0 DEF Reuse, store, history, Types, DataTypes
<1> QED BY Zenon, <1>2, <1>5, <1>6, <1>0 DEF Types

(* The pack is in the directory; the command ends or sends it. *)
LEMMA WritePackEffect ==
  ASSUME GraphAssumption, Types, NEW r \in Proc, WritePack(r), StoreInv,
         NEW p, p = [state |-> proc[r].state, gen |-> proc[r].gen]
  PROVE  Types' /\ proc'[r].pc \in {"idle", "send"} /\ proc'[r].state \in {None, proc[r].state}
                /\ (\A u \in Proc \ {r} : proc'[u] = proc[u]) /\ local' = local \cup {p}
<1>0. proc[r].gen = gen /\ gen # None
  BY Zenon DEF WritePack, StoreInv, Working
<1>1. proc[r] \in ProcRecord /\ proc[r].pc = "pack" /\ proc[r].state \in State /\ lock = r
  BY Zenon DEF WritePack, Types, LockInv, At, Busy
<1>2. PICK m \in {Idle, [proc[r] EXCEPT !.pc = "send"]} : Leave(r, m)
  BY Zenon DEF WritePack
<1>3. m \in ProcRecord /\ m.pc \in {"idle", "send"} /\ m.state \in {None, proc[r].state}
  BY Zenon, <1>1, <1>2, IdleType DEF ProcRecord
<1>4. LockInv' /\ Becomes(r, m.pc, m.state, m.todo, m.touched, m.gen)
  BY Zenon, <1>2, <1>3, Replaced DEF Types, Busy, Leave
<1>5. p \in Pack /\ p.gen = gen
  BY <1>0, <1>1 DEF Pack, ProcRecord, None
<1>6. local' = local \cup {p}
  BY Zenon DEF WritePack
<1>7. \A q \in local' : q.gen <= gen
  BY <1>5, <1>6 DEF Types, DataTypes
<1>8. DataTypes'
  BY Zenon, <1>5, <1>6, <1>7 DEF WritePack, store, history, Types, DataTypes
<1> QED BY Zenon, <1>3, <1>4, <1>6, <1>8 DEF Types, Becomes

(* A loss of power, of the machine                                            *)
LEMMA AllIdle ==
  ASSUME GraphAssumption, lock' = None, proc' = [r \in Proc |-> Idle]
  PROVE  LockInv' /\ \A r \in Proc : proc'[r] = Idle
<1>1. "idle" \notin Busy
  BY Zenon DEF Busy
<1> QED BY Zenon, <1>1, IdleType DEF LockInv, GraphAssumption

-----------------------------------------------------------------------------
(* The lock keeps the others from the store.                                 *)
LEMMA Alone ==
  ASSUME LockInv, GraphAssumption, NEW r \in Proc, lock \in {None, r}
  PROVE  \A u \in Proc \ {r} : proc[u].pc \notin Busy
  BY Zenon DEF LockInv, GraphAssumption

(* A command that is idle or sends claims nothing about the store.           *)
LEMMA NotBusy ==
  /\ \A u \in Proc : proc[u].pc \notin Busy =>
        ~At(u, "put") /\ ~At(u, "latest") /\ ~At(u, "sweep") /\ ~At(u, "pack") /\ ~At(u, "remember") /\ Working(u)
  /\ \A u \in Proc : proc'[u].pc \notin Busy =>
        ~At(u, "put")' /\ ~At(u, "latest")' /\ ~At(u, "sweep")' /\ ~At(u, "pack")' /\ ~At(u, "remember")' /\ Working(u)'
  BY Zenon DEF At, Busy, Working

(* What leaves the store, the pointer and the working commands alone keeps
   what is known of them. *)
LEMMA StoreKept ==
  ASSUME StoreInv, UNCHANGED <<objects, durable, latest, gen, orphans>>,
         \A u \in Proc : proc'[u] = proc[u] \/ (proc[u].pc \notin Busy /\ proc'[u].pc \notin Busy)
  PROVE  StoreInv'
<1>1. Known'
  <2> SUFFICES ASSUME NEW o \in objects, o \notin durable, o \notin orphans
               PROVE  \E r \in Proc : At(r, "put")' /\ o \in proc'[r].touched
    BY Zenon DEF Known
  <2>1. PICK r \in Proc : At(r, "put") /\ o \in proc[r].touched
    BY Zenon DEF StoreInv, Known
  <2>2. proc'[r] = proc[r]
    BY Zenon, <2>1, NotBusy
  <2> QED BY Zenon, <2>1, <2>2 DEF At
<1>2. ASSUME NEW u \in Proc PROVE Working(u)'
  <2>1. CASE proc'[u] = proc[u]
    BY Zenon, <2>1 DEF Working, At, StoreInv
  <2>2. CASE proc'[u].pc \notin Busy
    BY Zenon, <2>2, NotBusy
  <2> QED BY Zenon, <2>1, <2>2
<1> QED BY Zenon, <1>1, <1>2 DEF StoreInv, Closed

(* An object whose name is not on disk is an orphan or was written by the
   export or import that holds the lock.                                     *)
LEMMA NamesKnown ==
  ASSUME StoreInv, Types, GraphAssumption, NEW r \in Proc, lock \in {None, r}
  PROVE  /\ ~At(r, "put") => objects \subseteq durable \cup orphans
         /\ objects \subseteq durable \cup orphans \cup proc[r].touched
  BY Zenon, Alone, NotBusy DEF StoreInv, Known, Types

(* A step of the holder of the lock: only its own claim is to be shown. *)
LEMMA StoreCombine ==
  ASSUME NEW r \in Proc, \A u \in Proc \ {r} : proc'[u].pc \notin Busy,
         Working(r)', durable' \subseteq objects',
         objects' \subseteq durable' \cup orphans' \/ (At(r, "put")' /\ objects' \subseteq durable' \cup orphans' \cup proc'[r].touched),
         latest' # None => Graph[latest'] \subseteq durable' \cup orphans'
  PROVE  StoreInv'
<1>1. \A u \in Proc : Working(u)'
  BY Zenon, NotBusy
<1>2. Known'
  BY Zenon DEF Known
<1> QED BY Zenon, <1>1, <1>2 DEF StoreInv, Closed

(* An export starts: all its objects are to do, and no name is in doubt. *)
LEMMA ExportStore ==
  ASSUME GraphAssumption, Types, StoreInv, NEW r \in Proc, Export(r)
  PROVE  StoreInv'
<1>1. Becomes(r, "put", db, Graph[db], {}, None)
  BY Zenon, ExportEffect
<1>2. lock = None /\ ~At(r, "put") /\ UNCHANGED <<objects, durable, latest, orphans>>
  BY Zenon DEF Export, Enter, Free, At, store, history
<1>3. \A u \in Proc \ {r} : proc'[u].pc \notin Busy
  BY Zenon, <1>1, <1>2, Alone DEF Becomes, Types
<1>4. Working(r)'
  BY Zenon, <1>1, <1>2 DEF Working, Becomes, At
<1>5. objects \subseteq durable \cup orphans
  BY Zenon, <1>2, NamesKnown
<1> QED BY Zenon, <1>2, <1>3, <1>4, <1>5, StoreCombine DEF StoreInv, Closed

(* So does an import. *)
LEMMA ImportStore ==
  ASSUME GraphAssumption, Types, StoreInv, NEW r \in Proc, NEW p \in net, Import(r, p), behind' \in BOOLEAN
  PROVE  StoreInv'
<1>1. Becomes(r, "put", p.state, Graph[p.state], {}, p.gen)
  BY Zenon, ImportEffect
<1>2. lock = None /\ ~At(r, "put") /\ UNCHANGED <<objects, durable, latest, orphans>>
  BY Zenon DEF Import, Enter, Free, At, store
<1>3. \A u \in Proc \ {r} : proc'[u].pc \notin Busy
  BY Zenon, <1>1, <1>2, Alone DEF Becomes, Types
<1>4. Working(r)'
  BY Zenon, <1>1, <1>2 DEF Working, Becomes, At
<1>5. objects \subseteq durable \cup orphans
  BY Zenon, <1>2, NamesKnown
<1> QED BY Zenon, <1>2, <1>3, <1>4, <1>5, StoreCombine DEF StoreInv, Closed

(* A pack is made of the latest state with the new generation. *)
LEMMA TakeGenerationStore ==
  ASSUME GraphAssumption, Types, StoreInv, NEW r \in Proc, TakeGeneration(r)
  PROVE  StoreInv'
<1>1. Becomes(r, "pack", latest, {}, {}, gen')
  BY Zenon, TakeGenerationEffect
<1>2. lock = None /\ ~At(r, "put") /\ UNCHANGED <<objects, durable, latest, orphans>>
  BY Zenon DEF TakeGeneration, Enter, Free, At, store, history
<1>3. \A u \in Proc \ {r} : proc'[u].pc \notin Busy
  BY Zenon, <1>1, <1>2, Alone DEF Becomes, Types
<1>6. gen' # None
  BY DEF TakeGeneration, NextGeneration, Types, DataTypes, None
<1>4. Working(r)'
  BY Zenon, <1>1, <1>2, <1>6 DEF Working, Becomes, At
<1>5. objects \subseteq durable \cup orphans
  BY Zenon, <1>2, NamesKnown
<1> QED BY Zenon, <1>2, <1>3, <1>4, <1>5, StoreCombine DEF StoreInv, Closed

(* A collection works with the latest state. *)
LEMMA MarkStore ==
  ASSUME GraphAssumption, Types, StoreInv, NEW r \in Proc, Mark(r)
  PROVE  StoreInv'
<1>1. Becomes(r, "sweep", latest, {}, {}, None)
  BY Zenon, MarkEffect
<1>2. lock = None /\ ~At(r, "put") /\ UNCHANGED <<objects, durable, latest, orphans>>
  BY Zenon DEF Mark, Enter, Free, At, store, history
<1>3. \A u \in Proc \ {r} : proc'[u].pc \notin Busy
  BY Zenon, <1>1, <1>2, Alone DEF Becomes, Types
<1>4. Working(r)'
  BY Zenon, <1>1, <1>2 DEF Working, Becomes, At
<1>5. objects \subseteq durable \cup orphans
  BY Zenon, <1>2, NamesKnown
<1> QED BY Zenon, <1>2, <1>3, <1>4, <1>5, StoreCombine DEF StoreInv, Closed

(* An object that is put is new and touched, or its name was known before. *)
LEMMA PutObjectStore ==
  ASSUME GraphAssumption, Types, StoreInv, NEW r \in Proc, NEW o \in Object, PutObject(r, o)
  PROVE  StoreInv'
<1> DEFINE T == IF o \in objects THEN proc[r].touched ELSE proc[r].touched \cup {o}
<1>1. Becomes(r, "put", proc[r].state, proc[r].todo \ {o}, T, proc[r].gen)
  BY Zenon, PutObjectEffect
<1>2. At(r, "put") /\ objects' = objects \cup {o} /\ UNCHANGED <<durable, latest, orphans>>
  BY Zenon DEF PutObject, history
<1>3. lock = r
  BY Zenon, <1>2 DEF Types, LockInv, At, Busy
<1>4. \A u \in Proc \ {r} : proc'[u].pc \notin Busy
  BY Zenon, <1>1, <1>3, Alone DEF Becomes, Types
<1>5. proc[r].touched \subseteq objects /\ Graph[proc[r].state] \subseteq proc[r].todo \cup objects
  BY Zenon, <1>2 DEF StoreInv, Working
<1>6. T \subseteq objects' /\ objects' \subseteq durable \cup orphans \cup T
  <2>1. objects \subseteq durable \cup orphans \cup proc[r].touched
    BY Zenon, <1>3, NamesKnown
  <2> QED BY Zenon, <1>2, <1>5, <2>1
<1>7. Graph[proc[r].state] \subseteq (proc[r].todo \ {o}) \cup objects'
  BY Zenon, <1>2, <1>5
<1> HIDE DEF T
<1>8. Working(r)'
  BY Zenon, <1>1, <1>6, <1>7 DEF Working, Becomes, At
<1>9. durable' \subseteq objects' /\ At(r, "put")' /\ proc'[r].touched = T
  BY Zenon, <1>1, <1>2 DEF StoreInv, Becomes, At
<1> QED BY Zenon, <1>2, <1>4, <1>6, <1>8, <1>9, StoreCombine DEF StoreInv, Closed

(* Once the directories are synced, all objects of the state are on disk,
   except for orphans that were found there and used again. *)
LEMMA SyncDirsStore ==
  ASSUME GraphAssumption, Types, StoreInv, NEW r \in Proc, SyncDirs(r)
  PROVE  StoreInv'
<1>1. Becomes(r, "latest", proc[r].state, proc[r].todo, proc[r].touched, proc[r].gen)
  BY Zenon, SyncDirsEffect
<1>2. /\ At(r, "put") /\ proc[r].todo = {} /\ durable' = durable \cup proc[r].touched
      /\ UNCHANGED <<objects, latest, orphans>>
  BY Zenon DEF SyncDirs, Synced, history
<1>3. lock = r
  BY Zenon, <1>2 DEF Types, LockInv, At, Busy
<1>4. \A u \in Proc \ {r} : proc'[u].pc \notin Busy
  BY Zenon, <1>1, <1>3, Alone DEF Becomes, Types
<1>5. proc[r].touched \subseteq objects /\ Graph[proc[r].state] \subseteq objects
  BY Zenon, <1>2 DEF StoreInv, Working
<1>6. objects \subseteq durable \cup orphans \cup proc[r].touched
  BY Zenon, <1>3, NamesKnown
<1>7. objects \subseteq durable' \cup orphans /\ Graph[proc[r].state] \subseteq durable' \cup orphans
  BY Zenon, <1>2, <1>5, <1>6
<1>8. Working(r)'
  BY Zenon, <1>1, <1>2, <1>7 DEF Working, Becomes, At
<1>9. durable' \subseteq objects' /\ (latest # None => Graph[latest] \subseteq durable' \cup orphans)
  BY Zenon, <1>2, <1>5 DEF StoreInv, Closed
<1> QED BY Zenon, <1>2, <1>4, <1>7, <1>8, <1>9, StoreCombine

(* So the state that the pointer moves to is closed. *)
LEMMA WriteLatestStore ==
  ASSUME GraphAssumption, Types, StoreInv, NEW r \in Proc, WriteLatest(r)
  PROVE  StoreInv'
<1>1. /\ \A u \in Proc \ {r} : proc'[u] = proc[u]
      /\ proc'[r].pc = "idle" \/ (proc'[r].pc = "remember" /\ proc'[r].gen # None)
  BY Zenon, WriteLatestEndEffect, WriteLatestOnEffect DEF Becomes
<1>2. At(r, "latest") /\ latest' = proc[r].state /\ UNCHANGED <<objects, durable, orphans>>
  BY Zenon DEF WriteLatest, store, history
<1>3. lock = r
  BY Zenon, <1>2 DEF Types, LockInv, At, Busy
<1>4. \A u \in Proc \ {r} : proc'[u].pc \notin Busy
  BY Zenon, <1>1, <1>3, Alone DEF Types
<1>5. Graph[proc[r].state] \subseteq durable \cup orphans
  BY Zenon, <1>2 DEF StoreInv, Working
<1>6. ~At(r, "put") /\ objects \subseteq durable \cup orphans
  <2>1. ~At(r, "put")
    BY Zenon, <1>2 DEF At
  <2> QED BY Zenon, <1>3, <2>1, NamesKnown
<1>7. Working(r)'
  BY Zenon, <1>1 DEF Working, At
<1> QED BY Zenon, <1>2, <1>4, <1>5, <1>6, <1>7, StoreCombine DEF StoreInv

(* The end of an import and of a pack leave the store alone. *)
LEMMA LeaveStore ==
  ASSUME GraphAssumption, Types, StoreInv, NEW r \in Proc, Remember(r) \/ WritePack(r)
  PROVE  StoreInv'
<1>1. (\A u \in Proc \ {r} : proc'[u] = proc[u]) /\ proc'[r].pc \in {"idle", "send"}
  BY Zenon, RememberEffect, WritePackEffect DEF Becomes
<1>2. proc[r].pc \in {"remember", "pack"} /\ UNCHANGED <<objects, durable, latest, orphans>>
  BY Zenon DEF Remember, WritePack, store, history, At
<1>3. lock = r /\ ~At(r, "put")
  BY Zenon, <1>2 DEF Types, LockInv, At, Busy
<1>4. \A u \in Proc \ {r} : proc'[u].pc \notin Busy
  BY Zenon, <1>1, <1>3, Alone DEF Types
<1>5. objects \subseteq durable \cup orphans
  BY Zenon, <1>3, NamesKnown
<1>6. Working(r)'
  BY Zenon, <1>1 DEF Working, At
<1> QED BY Zenon, <1>2, <1>4, <1>5, <1>6, StoreCombine DEF StoreInv, Closed

(* A sweep spares what latest reaches: the lock kept the pointer in place. *)
LEMMA SweepStore ==
  ASSUME GraphAssumption, Types, StoreInv, NEW r \in Proc, Sweep(r)
  PROVE  StoreInv'
<1>1. (\A u \in Proc \ {r} : proc'[u] = proc[u]) /\ proc'[r].pc = "idle"
  BY Zenon, SweepEffect DEF Becomes
<1>2. At(r, "sweep") /\ ~At(r, "put") /\ UNCHANGED <<latest, orphans>>
  BY Zenon DEF Sweep, history, At
<1>3. PICK gone \in SUBSET (objects \ Graph[proc[r].state]) : objects' = objects \ gone /\ durable' = durable \ gone
  BY Zenon DEF Sweep
<1>4. lock = r /\ proc[r].state = latest
  BY Zenon, <1>2 DEF Types, LockInv, At, Busy, StoreInv, Working
<1>5. \A u \in Proc \ {r} : proc'[u].pc \notin Busy
  BY Zenon, <1>1, <1>4, Alone DEF Types
<1>6. objects \subseteq durable \cup orphans /\ durable \subseteq objects
  BY Zenon, <1>2, <1>4, NamesKnown DEF StoreInv
<1>7. objects' \subseteq durable' \cup orphans /\ durable' \subseteq objects'
  BY Zenon, <1>3, <1>6
<1>8. latest # None => Graph[latest] \subseteq durable' \cup orphans
  BY Zenon, <1>3, <1>4 DEF StoreInv, Closed
<1>9. Working(r)'
  BY Zenon, <1>1 DEF Working, At
<1> QED BY Zenon, <1>2, <1>5, <1>7, <1>8, <1>9, StoreCombine

(* What a command that dies had touched and not synced becomes an orphan. *)
LEMMA CrashStore ==
  ASSUME GraphAssumption, Types, StoreInv, NEW r \in Proc, Crash(r)
  PROVE  StoreInv'
<1>1. (\A u \in Proc \ {r} : proc'[u] = proc[u]) /\ proc'[r].pc = "idle"
  BY Zenon, CrashEffect DEF Becomes
<1>2. orphans' = orphans \cup (proc[r].touched \ durable) /\ UNCHANGED <<objects, durable, latest, gen>>
  BY Zenon DEF Crash, store
<1>3. ASSUME NEW u \in Proc PROVE Working(u)'
  <2>1. CASE u = r
    BY Zenon, <1>1, <2>1 DEF Working, At
  <2>2. CASE u # r
    <3>1. proc'[u] = proc[u] /\ Working(u)
      BY Zenon, <1>1, <2>2 DEF StoreInv
    <3> QED BY Zenon, <1>2, <3>1 DEF Working, At
  <2> QED BY Zenon, <2>1, <2>2
<1>4. Known'
  <2> SUFFICES ASSUME NEW o \in objects, o \notin durable, o \notin orphans'
               PROVE  \E u \in Proc : At(u, "put")' /\ o \in proc'[u].touched
    BY Zenon, <1>2 DEF Known
  <2>1. PICK u \in Proc : At(u, "put") /\ o \in proc[u].touched
    BY Zenon, <1>2 DEF StoreInv, Known
  <2>2. u # r
    BY Zenon, <1>2, <2>1
  <2> QED BY Zenon, <1>1, <2>1, <2>2 DEF At
<1> QED BY Zenon, <1>2, <1>3, <1>4 DEF StoreInv, Closed

(* A loss of power takes names that were not on disk; a loss of the machine
   takes all. *)
LEMMA LossStore ==
  ASSUME GraphAssumption, Types, StoreInv, PowerLoss \/ Disaster
  PROVE  Types' /\ StoreInv' /\ \A r \in Proc : proc'[r] = Idle
<1>1. LockInv' /\ \A r \in Proc : proc'[r] = Idle
  BY Zenon, AllIdle DEF PowerLoss, Disaster
<1>2. \A r \in Proc : Working(r)'
  <2>1. \A r \in Proc : proc'[r].pc = "idle"
    BY Zenon, <1>1, IdleType
  <2> QED BY Zenon, <2>1 DEF Working, At
<1>3. CASE PowerLoss
  <2>1. durable' = objects' /\ objects' \subseteq objects /\ durable \subseteq objects' /\ UNCHANGED <<latest, orphans>>
    BY Zenon, <1>3 DEF PowerLoss, StoreInv
  <2>2. Known' /\ Closed'
    BY Zenon, <2>1 DEF Known, Closed, StoreInv
  <2>3. DataTypes'
    BY Zenon, <1>3, <2>1 DEF PowerLoss, Types, DataTypes
  <2> QED BY Zenon, <1>1, <1>2, <2>1, <2>2, <2>3 DEF StoreInv, Types
<1>4. CASE Disaster
  <2>1. objects' = {} /\ durable' = {} /\ latest' = None
    BY Zenon, <1>4 DEF Disaster
  <2>2. Known' /\ Closed'
    BY Zenon, <2>1 DEF Known, Closed
  <2>3. 0 \in 0..MaxGen
    BY DEF GraphAssumption
  <2>4. DataTypes'
    BY Zenon, <1>4, <2>3 DEF Disaster, history, Types, DataTypes
  <2> QED BY Zenon, <1>1, <1>2, <2>1, <2>2, <2>4 DEF StoreInv, Types
<1> QED BY Zenon, <1>3, <1>4

(* Work and ImportDb change the catalogue only.                               *)
LEMMA CatalogueOnly ==
  ASSUME GraphAssumption, Types, StoreInv, Work \/ \E r \in Proc : ImportDb(r)
  PROVE  Types' /\ StoreInv' /\ UNCHANGED <<latest, gen, local, net, proc, behind>>
<1>1. UNCHANGED <<objects, durable, latest, gen, local, net, lock, proc, orphans, behind>>
  BY Zenon DEF Work, ImportDb, store, history
<1>2. StoreInv'
  BY Zenon, <1>1, StoreKept
<1>3. db' \in State \cup {None} /\ top' \in State \cup {None}
  BY DEF Work, ImportDb, Types, DataTypes, State, None, GraphAssumption
<1>4. Types'
  BY Zenon, <1>1, <1>3 DEF Types, DataTypes, LockInv
<1> QED BY Zenon, <1>1, <1>2, <1>4

(* Every step keeps the types, the lock and what is known of the store.       *)
LEMMA NextStore ==
  ASSUME GraphAssumption, Types, StoreInv, [Next]_vars
  PROVE  Types' /\ StoreInv'
<1>1. CASE Work \/ \E r \in Proc : ImportDb(r)
  BY Zenon, <1>1, CatalogueOnly
<1>2. CASE PowerLoss \/ Disaster
  BY Zenon, <1>2, LossStore
<1>3. ASSUME NEW r \in Proc, Export(r) \/ TakeGeneration(r) \/ Mark(r) PROVE Types' /\ StoreInv'
  BY Zenon, <1>3, ExportEffect, ExportStore, TakeGenerationEffect, TakeGenerationStore, MarkEffect, MarkStore
<1>4. ASSUME NEW r \in Proc, NEW p \in net, Recover(r, p) \/ Rollback(r, p) PROVE Types' /\ StoreInv'
  <2>1. Import(r, p) /\ behind' \in BOOLEAN
    BY Zenon, <1>4 DEF Recover, Rollback, Types, DataTypes
  <2> QED BY Zenon, <2>1, ImportEffect, ImportStore
<1>5. ASSUME NEW r \in Proc, Reuse(r) \/ Send(r) PROVE Types' /\ StoreInv'
  <2>1. Types' /\ (\A u \in Proc \ {r} : proc'[u] = proc[u]) /\ proc'[r].pc \in {"idle", "send"} /\ gen' = gen
    BY Zenon, <1>5, ReuseEffect, SendEffect DEF Becomes, Send
  <2>2. proc[r].pc \notin Busy /\ proc'[r].pc \notin Busy /\ UNCHANGED <<objects, durable, latest, orphans>>
    BY Zenon, <1>5, <2>1 DEF Reuse, Send, At, Busy, store, history
  <2> QED BY Zenon, <2>1, <2>2, StoreKept
<1>6. ASSUME NEW r \in Proc, Crash(r) \/ Sweep(r) \/ SyncDirs(r) PROVE Types' /\ StoreInv'
  BY Zenon, <1>6, CrashEffect, CrashStore, SweepEffect, SweepStore, SyncDirsEffect, SyncDirsStore
<1>7. ASSUME NEW r \in Proc, NEW o \in Object, PutObject(r, o) PROVE Types' /\ StoreInv'
  BY Zenon, <1>7, PutObjectEffect, PutObjectStore
<1>8. ASSUME NEW r \in Proc, WriteLatest(r) PROVE Types' /\ StoreInv'
  BY Zenon, <1>8, WriteLatestEndEffect, WriteLatestOnEffect, WriteLatestStore
<1>9. ASSUME NEW r \in Proc, Remember(r) \/ WritePack(r) PROVE Types' /\ StoreInv'
  BY Zenon, <1>9, RememberEffect, WritePackEffect, LeaveStore
<1>10. CASE UNCHANGED vars
  <2>1. UNCHANGED <<db, top, objects, durable, latest, gen, local, net, lock, proc, orphans, behind>>
    BY Zenon, <1>10 DEF vars
  <2> QED BY Zenon, <2>1, StoreKept DEF Types, DataTypes, LockInv
<1> QED BY Zenon, <1>1, <1>2, <1>3, <1>4, <1>5, <1>6, <1>7, <1>8, <1>9, <1>10 DEF Next, Step

(* The store starts empty. *)
LEMMA InitStore == ASSUME GraphAssumption, Init PROVE Types /\ StoreInv
<1>1. LockInv /\ \A r \in Proc : Working(r)
  <2>1. "idle" \notin Busy
    BY Zenon DEF Busy
  <2>2. \A r \in Proc : proc[r] = Idle
    BY Zenon DEF Init
  <2> QED BY Zenon, <2>1, <2>2, IdleType DEF LockInv, Init, Working, At, GraphAssumption
<1>2. DataTypes
  <2>1. 0 \in 0..MaxGen
    BY DEF GraphAssumption
  <2> QED BY Zenon, <2>1 DEF Init, DataTypes
<1> QED BY Zenon, <1>1, <1>2 DEF Init, StoreInv, Known, Closed, Types

-----------------------------------------------------------------------------
(* A command goes on with what it does, or does nothing to the store.         *)
SameWork(u) ==
    \/ proc'[u].pc \notin Busy
    \/ /\ proc'[u].state = proc[u].state /\ proc'[u].gen = proc[u].gen
       /\ proc'[u].pc = proc[u].pc \/ (proc[u].pc = "put" /\ proc'[u].pc = "latest")

(* States and generations are numbers. *)
LEMMA PackNumbers ==
  ASSUME GraphAssumption, Types
  PROVE  /\ \A q \in Packs : q \in Pack /\ q.state \in Int /\ q.state >= 1 /\ q.state \in State /\ q.gen \in Int /\ q.gen >= 1
         /\ db \in Int /\ latest \in Int /\ top \in Int /\ gen \in Int /\ db >= 0 /\ latest >= 0 /\ top >= 0
         /\ \A r \in Proc : proc[r].state \in Int /\ proc[r].gen \in Int
  BY DEF Types, DataTypes, LockInv, Packs, Pack, State, None, ProcRecord, GraphAssumption

(* Commands that go on, and packs that go from the directory to the
   custodians, keep the order of the packs. *)
LEMMA OrderKept ==
  ASSUME GraphAssumption, Types, Types', OrderInv, UNCHANGED <<db, latest>>, gen' >= gen,
         net \subseteq net', net' \subseteq net \cup local, local' \subseteq local,
         (\A u \in Proc : ~At(u, "remember")') =>
             (\A u \in Proc : ~At(u, "remember")) \/ (\A q \in net : q.gen <= gen'),
         \A u \in Proc : SameWork(u) \/ Moving(u)'
  PROVE  OrderInv'
<1>1. Packs' \subseteq Packs
  BY Zenon DEF Packs
<1>2. \A q \in net' : q.gen <= gen => q.gen <= gen'
  BY PackNumbers, <1>1 DEF Packs, Types, DataTypes
<1>3. \A q \in local : q.gen <= gen
  BY Zenon DEF Types, DataTypes
<1>4. Ordered'
  BY Zenon, <1>1 DEF Ordered, OrderInv
<1>5. \A n : Upto(n) => Upto(n)'
  BY Zenon, <1>1 DEF Upto
<1>6. Current'
  BY Zenon, <1>5 DEF Current, OrderInv
<1>7. Counted'
  BY Zenon, <1>2, <1>3 DEF Counted, OrderInv
<1>8. ASSUME NEW u \in Proc, SameWork(u) PROVE Moving(u)'
  <2>1. CASE proc'[u].pc \notin Busy
    BY Zenon, <2>1 DEF Moving, Importing, Exporting, At, Busy
  <2>2. CASE proc'[u].pc \in Busy
    <3>1. Moving(u) /\ proc'[u].state = proc[u].state /\ proc'[u].gen = proc[u].gen
      BY Zenon, <1>8, <2>2 DEF SameWork, OrderInv
    <3>2. (Importing(u)' => Importing(u)) /\ (Exporting(u)' => Exporting(u)) /\ (At(u, "pack")' => At(u, "pack"))
      BY Zenon, <1>8, <2>2, <3>1 DEF SameWork, Importing, Exporting, At
    <3>3. \A q \in Packs : q.gen < gen => q.gen < gen'
      BY PackNumbers DEF Types, DataTypes
    <3>4. Importing(u)' => /\ db' = None /\ (\A q \in Packs' : q.state <= proc'[u].state)
                           /\ [state |-> proc'[u].state, gen |-> proc'[u].gen] \in net'
                           /\ \A q \in net' : q.gen <= proc'[u].gen \/ q.gen <= gen'
      BY Zenon, <1>1, <1>2, <1>3, <3>1, <3>2 DEF Moving, Upto
    <3>6. Exporting(u)' => /\ db' # None /\ latest' <= proc'[u].state /\ proc'[u].state <= db'
                           /\ \A q \in Packs' : q.state <= proc'[u].state
      BY Zenon, <1>1, <3>1, <3>2 DEF Moving, Upto
    <3>7. At(u, "pack")' => \A q \in Packs' : q.gen < gen'
      BY Zenon, <1>1, <3>2, <3>1, <3>3 DEF Moving
    <3> QED BY Zenon, <3>4, <3>6, <3>7 DEF Moving, Upto
  <2> QED BY Zenon, <2>1, <2>2
<1> QED BY Zenon, <1>4, <1>6, <1>7, <1>8 DEF OrderInv

(* The steps that start an export, a pack, a collection or a recovery.        *)
LEMMA EnterOrder ==
  ASSUME GraphAssumption, Types, Types', StoreInv, OrderInv, NEW r \in Proc,
         Export(r) \/ TakeGeneration(r) \/ Mark(r) \/ \E p \in net : Recover(r, p)
  PROVE  OrderInv'
<1>1. /\ lock = None /\ UNCHANGED <<db, latest, net, local>>
      /\ gen' = gen \/ (TakeGeneration(r) /\ gen' = gen + 1)
  BY Zenon DEF Export, TakeGeneration, Mark, Recover, Import, Enter, Free, NextGeneration
<1>2. gen' >= gen
  BY <1>1 DEF Types, DataTypes
<1>3. \A u \in Proc : ~At(u, "remember")
  BY Zenon, <1>1, NotBusy DEF Types, LockInv, GraphAssumption
<1>4. \A u \in Proc \ {r} : proc'[u] = proc[u]
  <2>1. CASE Export(r) \/ TakeGeneration(r) \/ Mark(r)
    BY Zenon, <2>1, ExportEffect, TakeGenerationEffect, MarkEffect DEF Becomes
  <2>2. ASSUME NEW p \in net, Recover(r, p) PROVE \A u \in Proc \ {r} : proc'[u] = proc[u]
    <3>1. Import(r, p) /\ behind' \in BOOLEAN
      BY Zenon, <2>2 DEF Recover, Types, DataTypes
    <3> QED BY Zenon, <3>1, ImportEffect DEF Becomes
  <2> QED BY Zenon, <2>1, <2>2
<1>5. Packs' = Packs
  BY Zenon, <1>1 DEF Packs
<1>6. ASSUME Export(r) PROVE Moving(r)'
  <2>1. Becomes(r, "put", db, Graph[db], {}, None) /\ db # None
    BY Zenon, <1>6, ExportEffect DEF Export
  <2>2. db <= db /\ latest <= db /\ \A q \in Packs : q.state <= db
    <3>1. db <= db
      BY PackNumbers
    <3> QED BY Zenon, <2>1, <3>1 DEF OrderInv, Current, Upto
  <2>3. ~Importing(r)' /\ ~At(r, "pack")' /\ proc'[r].state = db
    BY Zenon, <2>1 DEF Becomes, Importing, At
  <2> QED BY Zenon, <1>1, <1>5, <2>1, <2>2, <2>3 DEF Moving, Upto
<1>7. ASSUME TakeGeneration(r) PROVE Moving(r)'
  <2>1. Becomes(r, "pack", latest, {}, {}, gen') /\ gen' = gen + 1 /\ latest # None
    BY Zenon, <1>7, TakeGenerationEffect DEF TakeGeneration, NextGeneration, Readable
  <2>2. \A q \in net : q.gen <= gen
    BY Zenon, <1>3, <2>1 DEF OrderInv, Counted
  <2>3. \A q \in Packs : q.gen < gen'
    BY <2>1, <2>2, PackNumbers DEF Packs, Types, DataTypes
  <2>4. ~Importing(r)' /\ ~Exporting(r)'
    BY Zenon, <2>1 DEF Becomes, Importing, Exporting
  <2> QED BY Zenon, <1>5, <2>3, <2>4 DEF Moving
<1>8. ASSUME Mark(r) PROVE Moving(r)'
  <2>1. proc'[r].pc = "sweep"
    BY Zenon, <1>8, MarkEffect DEF Becomes
  <2> QED BY Zenon, <2>1 DEF Moving, Importing, Exporting, At
<1>9. ASSUME NEW p \in net, Recover(r, p) PROVE Moving(r)'
  <2>1. Import(r, p) /\ behind' \in BOOLEAN /\ p \in Best /\ db = None
    BY Zenon, <1>9 DEF Recover, Types, DataTypes
  <2>2. Becomes(r, "put", p.state, Graph[p.state], {}, p.gen)
    BY Zenon, <2>1, ImportEffect
  <2>3. (\A q \in net : q.gen <= p.gen) /\ p \in Packs
    BY Zenon, <2>1 DEF Best, Packs
  <2>4. \A q \in net : q.state <= p.state
    BY Zenon, <2>3 DEF OrderInv, Ordered, Packs
  <2>5. \A q \in local : q.state <= p.state
    <3> SUFFICES ASSUME NEW q \in local PROVE q.state <= p.state
      BY Zenon
    <3>1. latest # None /\ q.state <= latest
      BY Zenon DEF OrderInv, Current, Upto, Packs
    <3>2. PICK t \in net : t.state = latest
      BY Zenon, <2>1, <3>1 DEF OrderInv, Current
    <3> QED BY <2>4, <3>1, <3>2, PackNumbers DEF Packs
  <2>6. \A q \in Packs : q.state <= p.state
    BY Zenon, <2>4, <2>5 DEF Packs
  <2>7. p = [state |-> p.state, gen |-> p.gen] /\ p.gen # None
    BY PackNumbers, <2>3 DEF Pack, None
  <2>8. proc'[r].state = p.state /\ proc'[r].gen = p.gen /\ ~Exporting(r)' /\ ~At(r, "pack")'
    BY Zenon, <2>2, <2>7 DEF Becomes, Exporting, At
  <2>9. [state |-> proc'[r].state, gen |-> proc'[r].gen] \in net
    BY Zenon, <2>7, <2>8
  <2> QED BY Zenon, <1>1, <1>5, <2>1, <2>3, <2>6, <2>8, <2>9 DEF Moving, Upto
<1>10. Moving(r)'
  BY Zenon, <1>6, <1>7, <1>8, <1>9
<1>11. \A u \in Proc \ {r} : SameWork(u)
  BY Zenon, <1>4 DEF SameWork
<1> QED BY Zenon, <1>1, <1>2, <1>3, <1>10, <1>11, OrderKept

(* The steps of a command that neither move the latest pointer nor write a
   pack.                                                                     *)
LEMMA GoOnOrder ==
  ASSUME GraphAssumption, Types, Types', StoreInv, OrderInv, ~behind', NEW r \in Proc,
         \/ \E o \in Object : PutObject(r, o)
         \/ SyncDirs(r) \/ Send(r) \/ Sweep(r) \/ Reuse(r) \/ Crash(r) \/ Remember(r)
  PROVE  OrderInv'
<1>1. UNCHANGED <<db, latest>>
  BY Zenon DEF PutObject, SyncDirs, Send, Sweep, Reuse, Crash, Remember
<1>0. \A u \in Proc \ {r} : proc'[u] = proc[u]
  <2>1. CASE \E o \in Object : PutObject(r, o)
    BY Zenon, <2>1, PutObjectEffect DEF Becomes
  <2>2. CASE SyncDirs(r)
    BY Zenon, <2>2, SyncDirsEffect DEF Becomes
  <2>3. CASE Send(r) \/ Sweep(r) \/ Reuse(r) \/ Crash(r) \/ Remember(r)
    BY Zenon, <2>3, SendEffect, SweepEffect, ReuseEffect, CrashEffect, RememberEffect DEF Becomes
  <2> QED BY Zenon, <2>1, <2>2, <2>3
<1>2. net \subseteq net' /\ net' \subseteq net \cup local /\ local' \subseteq local
  BY Zenon DEF PutObject, SyncDirs, Send, Sweep, Reuse, Crash, Remember
<1>3. gen' >= gen
  <2>1. CASE Remember(r)
    BY Zenon, <2>1, RememberEffect
  <2>2. CASE Reuse(r)
    BY <2>2, ReuseEffect DEF Types, DataTypes
  <2>3. CASE gen' = gen
    BY <2>3 DEF Types, DataTypes
  <2> QED BY Zenon, <2>1, <2>2, <2>3 DEF PutObject, SyncDirs, Send, Sweep, Crash
<1>4. \A u \in Proc : SameWork(u)
  <2>1. ASSUME NEW o \in Object, PutObject(r, o) PROVE \A u \in Proc : SameWork(u)
    <3>1. proc[r].pc = "put"
      BY Zenon, <2>1 DEF PutObject, At
    <3>2. proc'[r].pc = "put" /\ proc'[r].state = proc[r].state /\ proc'[r].gen = proc[r].gen
      BY Zenon, <2>1, PutObjectEffect DEF Becomes
    <3> QED BY Zenon, <1>0, <3>1, <3>2 DEF SameWork
  <2>2. CASE SyncDirs(r)
    <3>1. proc[r].pc = "put"
      BY Zenon, <2>2 DEF SyncDirs, At
    <3> QED BY Zenon, <2>2, <3>1, SyncDirsEffect DEF SameWork, Becomes
  <2>3. CASE Send(r) \/ Sweep(r) \/ Reuse(r) \/ Crash(r) \/ Remember(r)
    <3>1. proc'[r].pc \in {"idle", "send"} /\ \A u \in Proc \ {r} : proc'[u] = proc[u]
      BY Zenon, <2>3, SendEffect, SweepEffect, ReuseEffect, CrashEffect, RememberEffect DEF Becomes
    <3>2. proc'[r].pc \notin Busy
      BY Zenon, <3>1 DEF Busy
    <3> QED BY Zenon, <3>1, <3>2 DEF SameWork
  <2> QED BY Zenon, <2>1, <2>2, <2>3
<1>5. CASE Remember(r)
  <2>1. At(r, "remember") /\ gen' >= proc[r].gen /\ net' = net
    BY Zenon, <1>5, RememberEffect DEF Remember
  <2>2. proc[r].gen = None \/ Importing(r)
    BY Zenon, <2>1 DEF Importing, At
  <2>3. ASSUME NEW q \in net PROVE q.gen <= gen'
    <3>1. CASE Importing(r)
      <4>1. q.gen <= proc[r].gen \/ q.gen <= gen
        BY Zenon, <3>1 DEF OrderInv, Moving
      <4> QED BY <1>3, <2>1, <4>1, PackNumbers DEF Packs, Types, DataTypes
    <3>2. CASE proc[r].gen = None
      BY Zenon, <3>2, <2>1 DEF StoreInv, Working
    <3> QED BY Zenon, <2>2, <3>1, <3>2
  <2> QED BY Zenon, <1>1, <1>2, <1>3, <1>4, <2>3, OrderKept
<1>6. CASE ~Remember(r)
  <2>1. ASSUME NEW u \in Proc, At(u, "remember") PROVE At(u, "remember")'
    <3>1. CASE u = r
      BY Zenon, <1>6, <2>1, <3>1 DEF PutObject, SyncDirs, Send, Sweep, Reuse, Crash, At
    <3>2. CASE u # r
      BY Zenon, <1>0, <2>1, <3>2 DEF At
    <3> QED BY Zenon, <3>1, <3>2
  <2> QED BY Zenon, <1>1, <1>2, <1>3, <1>4, <2>1, OrderKept
<1> QED BY Zenon, <1>5, <1>6

(* The latest pointer moves to an exported or recovered state.                *)
LEMMA WriteLatestOrder ==
  ASSUME GraphAssumption, Types, Types', StoreInv, OrderInv, NEW r \in Proc, WriteLatest(r)
  PROVE  OrderInv'
<1>1. At(r, "latest") /\ latest' = proc[r].state /\ UNCHANGED <<db, gen, local, net>>
  BY Zenon DEF WriteLatest
<1>2. lock = r /\ proc[r].state \in State
  BY Zenon, <1>1 DEF Types, LockInv, At, Busy
<1>3. Packs' = Packs /\ latest' # None /\ Ordered'
  <2>1. proc[r].state # None
    BY <1>2 DEF State, None
  <2>2. Packs' = Packs
    BY Zenon, <1>1 DEF Packs
  <2> QED BY Zenon, <1>1, <2>1, <2>2 DEF Ordered, OrderInv
<1>4. \A u \in Proc \ {r} : proc[u].pc \notin Busy
  BY Zenon, <1>2, Alone DEF Types
<1>5. CASE proc[r].gen # None
  <2>1. Becomes(r, "remember", proc[r].state, proc[r].todo, proc[r].touched, proc[r].gen)
    BY Zenon, <1>5, WriteLatestOnEffect
  <2>2. Importing(r) /\ Moving(r)
    BY Zenon, <1>1, <1>5 DEF Importing, At, OrderInv
  <2>3. /\ db = None /\ \A q \in Packs : q.state <= proc[r].state
        /\ [state |-> proc[r].state, gen |-> proc[r].gen] \in net
        /\ \A q \in net : q.gen <= proc[r].gen \/ q.gen <= gen
    BY Zenon, <2>2 DEF Moving, Upto
  <2>4. \E q \in net : q.state = proc[r].state
    BY Zenon, <2>3
  <2>5. Current'
    BY Zenon, <1>1, <1>3, <2>3, <2>4 DEF Current, Upto
  <2>6. Counted'
    BY Zenon, <2>1 DEF Counted, Becomes, At
  <2>7. Moving(r)'
    BY Zenon, <1>1, <1>3, <2>1, <2>3 DEF Moving, Becomes, Upto, Exporting, At
  <2>8. ASSUME NEW u \in Proc \ {r} PROVE Moving(u)'
    <3>1. proc'[u].pc \notin Busy
      BY Zenon, <1>4, <2>1 DEF Becomes
    <3> QED BY Zenon, <3>1 DEF Moving, Importing, Exporting, At, Busy
  <2> QED BY Zenon, <1>3, <2>5, <2>6, <2>7, <2>8 DEF OrderInv
<1>6. CASE proc[r].gen = None
  <2>1. Becomes(r, "idle", None, {}, {}, None)
    BY Zenon, <1>6, WriteLatestEndEffect
  <2>2. Exporting(r) /\ Moving(r)
    BY Zenon, <1>1, <1>6 DEF Exporting, At, OrderInv
  <2>3. db # None /\ proc[r].state <= db /\ \A q \in Packs : q.state <= proc[r].state
    BY Zenon, <2>2 DEF Moving, Upto
  <2>4. Current'
    BY Zenon, <1>1, <1>3, <2>3 DEF Current, Upto, OrderInv
  <2>5. \A u \in Proc : ~At(u, "remember")
    BY Zenon, <1>1, <1>4, NotBusy DEF At
  <2>6. Counted'
    BY Zenon, <1>1, <2>3, <2>5 DEF Counted, OrderInv
  <2>7. ASSUME NEW u \in Proc PROVE Moving(u)'
    <3>1. proc'[u].pc \notin Busy
      BY Zenon, <1>4, <2>1 DEF Becomes, Busy
    <3> QED BY Zenon, <3>1 DEF Moving, Importing, Exporting, At, Busy
  <2> QED BY Zenon, <1>3, <2>4, <2>6, <2>7 DEF OrderInv
<1> QED BY Zenon, <1>5, <1>6

(* A new pack has the latest state and a generation above all others.         *)
LEMMA WritePackOrder ==
  ASSUME GraphAssumption, Types, Types', StoreInv, OrderInv, NEW r \in Proc, WritePack(r)
  PROVE  OrderInv'
<1> DEFINE p == [state |-> proc[r].state, gen |-> proc[r].gen]
<1>1. At(r, "pack") /\ UNCHANGED <<db, latest, gen, net>> /\ local' = local \cup {p}
  BY Zenon DEF WritePack
<1>2. proc'[r].pc \notin Busy /\ \A u \in Proc \ {r} : proc'[u] = proc[u]
  BY Zenon, WritePackEffect DEF Busy
<1>3. lock = r /\ proc[r].state = latest /\ proc[r].gen = gen /\ proc[r].state \in State
  BY Zenon, <1>1 DEF Types, LockInv, At, Busy, StoreInv, Working
<1>4. p.state = latest /\ p.gen = gen /\ latest # None
  BY <1>3 DEF State, None
<1> HIDE DEF p
<1>5. \A q \in Packs : q.gen < gen /\ q.state <= latest
  BY Zenon, <1>1, <1>4 DEF OrderInv, Moving, Current, Upto
<1>6. Packs' = Packs \cup {p} /\ latest <= latest
  <2>1. latest <= latest
    BY PackNumbers
  <2> QED BY Zenon, <1>1, <2>1 DEF Packs
<1>7. Ordered'
  <2> SUFFICES ASSUME NEW a \in Packs', NEW b \in Packs', a.gen <= b.gen PROVE a.state <= b.state
    BY Zenon DEF Ordered
  <2>1. CASE a \in Packs /\ b \in Packs
    BY Zenon, <2>1 DEF OrderInv, Ordered
  <2>2. CASE b = p
    BY Zenon, <1>4, <1>5, <1>6, <2>2
  <2>3. CASE a = p /\ b \in Packs
    BY <1>4, <1>5, <2>3, PackNumbers
  <2> QED BY Zenon, <1>6, <2>1, <2>2, <2>3
<1>8. Current'
  BY Zenon, <1>1, <1>4, <1>5, <1>6 DEF Current, Upto, OrderInv
<1>9. \A u \in Proc : proc'[u].pc \notin Busy
  BY Zenon, <1>2, <1>3, Alone DEF Types
<1>10. Counted'
  <2>1. \A u \in Proc : ~At(u, "remember")
    BY Zenon, <1>1, <1>3, Alone, NotBusy DEF At, Types
  <2> QED BY Zenon, <1>1, <2>1 DEF Counted, OrderInv
<1>11. \A u \in Proc : Moving(u)'
  BY Zenon, <1>9 DEF Moving, Importing, Exporting, At, Busy
<1> QED BY Zenon, <1>7, <1>8, <1>10, <1>11 DEF OrderInv

(* The catalogue changes, or is imported.                                     *)
LEMMA CatalogueOrder ==
  ASSUME GraphAssumption, Types, Types', StoreInv, NumberInv, OrderInv, Work \/ \E r \in Proc : ImportDb(r)
  PROVE  OrderInv'
<1>1. UNCHANGED <<latest, gen, local, net, proc>>
  BY Zenon, CatalogueOnly
<1>2. Packs' = Packs /\ Ordered'
  BY Zenon, <1>1 DEF Packs, Ordered, OrderInv
<1>3. CASE Work
  <2>1. db' = top + 1 /\ (db # None \/ top = None)
    BY Zenon, <1>3 DEF Work
  <2>2. latest <= top /\ db <= top /\ \A q \in Packs : q.state <= top
    BY Zenon DEF NumberInv, Numbers
  <2>3. db' # None /\ latest <= db' /\ db <= db' /\ \A q \in Packs : q.state <= db'
    BY <2>1, <2>2, PackNumbers DEF None
  <2>4. db = None => Packs = {}
    BY <2>1, <2>2, PackNumbers DEF None
  <2>5. Current'
    BY Zenon, <1>1, <1>2, <2>3 DEF Current, Upto, OrderInv
  <2>6. Counted'
    BY Zenon, <1>1, <2>4 DEF Counted, OrderInv, At, Packs
  <2>7. ASSUME NEW u \in Proc PROVE Moving(u)'
    <3>1. ~Importing(u)
      BY Zenon, <2>4 DEF OrderInv, Moving, Packs
    <3>2. Exporting(u) => proc[u].state <= db'
      <4>1. Exporting(u) => proc[u].state <= db
        BY Zenon DEF OrderInv, Moving
      <4> QED BY <2>1, <2>3, <4>1, PackNumbers
    <3>3. (Importing(u)' <=> Importing(u)) /\ (Exporting(u)' <=> Exporting(u)) /\ (At(u, "pack")' <=> At(u, "pack"))
      BY Zenon, <1>1 DEF Importing, Exporting, At
    <3> QED BY Zenon, <1>1, <1>2, <2>3, <3>1, <3>2, <3>3 DEF Moving, Upto, OrderInv
  <2> QED BY Zenon, <1>2, <2>5, <2>6, <2>7 DEF OrderInv
<1>4. ASSUME NEW r \in Proc, ImportDb(r) PROVE OrderInv'
  <2>1. lock = None /\ db' = latest /\ latest # None
    BY Zenon, <1>4 DEF ImportDb, Free, Readable
  <2>2. latest <= latest
    BY PackNumbers
  <2>3. Current'
    BY Zenon, <1>1, <1>2, <2>1, <2>2 DEF Current, Upto, OrderInv
  <2>4. Counted'
    BY Zenon, <1>1, <2>1 DEF Counted, OrderInv, At
  <2>5. \A u \in Proc : proc'[u].pc \notin Busy
    BY Zenon, <1>1, <2>1 DEF Types, LockInv, GraphAssumption
  <2>6. \A u \in Proc : Moving(u)'
    BY Zenon, <2>5 DEF Moving, Importing, Exporting, At, Busy
  <2> QED BY Zenon, <1>2, <2>3, <2>4, <2>6 DEF OrderInv
<1> QED BY Zenon, <1>3, <1>4

(* A loss of power keeps the order unless an import was about to write the
   counter; after a loss of the machine there is no latest state. *)
LEMMA LossOrder ==
  ASSUME GraphAssumption, Types, Types', StoreInv, OrderInv, ~behind', PowerLoss \/ Disaster
  PROVE  OrderInv'
<1>1. \A u \in Proc : proc'[u].pc \notin Busy
  BY Zenon, LossStore, IdleType DEF Busy
<1>2. CASE PowerLoss
  <2>1. UNCHANGED <<db, latest, gen, local, net>> /\ \A u \in Proc : ~At(u, "remember")
    BY Zenon, <1>2 DEF PowerLoss
  <2>2. gen' >= gen
    BY <2>1 DEF Types, DataTypes
  <2>3. \A u \in Proc : SameWork(u)
    BY Zenon, <1>1 DEF SameWork
  <2> QED BY Zenon, <2>1, <2>2, <2>3, OrderKept
<1>3. CASE Disaster
  <2>1. db' = None /\ latest' = None /\ local' = {} /\ net' = net
    BY Zenon, <1>3 DEF Disaster
  <2>2. Ordered'
    BY Zenon, <2>1 DEF Ordered, OrderInv, Packs
  <2>3. Current' /\ Counted'
    BY Zenon, <2>1 DEF Current, Counted
  <2>4. \A u \in Proc : Moving(u)'
    BY Zenon, <1>1 DEF Moving, Importing, Exporting, At, Busy
  <2> QED BY Zenon, <2>2, <2>3, <2>4 DEF OrderInv
<1> QED BY Zenon, <1>2, <1>3

-----------------------------------------------------------------------------
(* No state is numbered above the last number given.                          *)
LEMMA NumberKept ==
  ASSUME GraphAssumption, Types, Types', NumberInv, top' >= top,
         db' \in Numbers \cup {top'}, latest' \in Numbers,
         \A u \in Proc : proc'[u].state \in Numbers,
         \A q \in Packs' : q.state \in Numbers
  PROVE  NumberInv'
<1>1. Numbers' \subseteq Numbers \cup {top'}
  BY Zenon DEF Numbers
<1>2. \A n \in Numbers : n \in Int /\ n <= top
  BY PackNumbers DEF Numbers, NumberInv, None
<1>3. top \in Int /\ top' \in Int
  BY DEF Types, DataTypes, State, None
<1>4. \A n \in Numbers \cup {top'} : n <= top'
  BY <1>2, <1>3
<1> QED BY Zenon, <1>1, <1>4 DEF NumberInv

(* Every step keeps to the numbers given so far. *)
LEMMA NextNumber ==
  ASSUME GraphAssumption, Types, Types', StoreInv, NumberInv, [Next]_vars
  PROVE  NumberInv'
<1>0. /\ db \in Numbers /\ latest \in Numbers /\ None \in Numbers
      /\ (\A u \in Proc : proc[u].state \in Numbers) /\ \A q \in Packs : q.state \in Numbers
  BY Zenon DEF Numbers
<1>1. top \in Int /\ top >= top /\ top + 1 >= top
  BY PackNumbers
<1>2. CASE Work \/ \E r \in Proc : ImportDb(r)
  <2>1. UNCHANGED <<latest, local, net, proc>>
    BY Zenon, <1>2, CatalogueOnly
  <2>2. Packs' = Packs
    BY Zenon, <2>1 DEF Packs
  <2>3. top' >= top /\ db' \in Numbers \cup {top'}
    BY Zenon, <1>0, <1>1, <1>2 DEF Work, ImportDb
  <2> QED BY Zenon, <1>0, <2>1, <2>2, <2>3, NumberKept
<1>3. CASE PowerLoss \/ Disaster
  <2>1. \A u \in Proc : proc'[u].state = None
    BY Zenon, <1>3, LossStore, IdleType
  <2>2. top' = top /\ db' \in {db, None} /\ latest' \in {latest, None} /\ Packs' \subseteq Packs
    BY Zenon, <1>3 DEF PowerLoss, Disaster, Packs
  <2> QED BY Zenon, <1>0, <1>1, <2>1, <2>2, NumberKept
<1>4. ASSUME NEW r \in Proc,
             \/ Export(r) \/ TakeGeneration(r) \/ Mark(r) \/ Reuse(r) \/ SyncDirs(r)
             \/ Sweep(r) \/ Send(r) \/ Crash(r) \/ Remember(r)
      PROVE  NumberInv'
  <2>1. \A u \in Proc : proc'[u].state \in {proc[u].state, db, latest, None}
    <3>1. CASE Export(r) \/ TakeGeneration(r) \/ Mark(r) \/ Reuse(r)
      BY Zenon, <3>1, ExportEffect, TakeGenerationEffect, MarkEffect, ReuseEffect DEF Becomes
    <3>2. CASE SyncDirs(r) \/ Sweep(r) \/ Send(r) \/ Crash(r) \/ Remember(r)
      BY Zenon, <3>2, SyncDirsEffect, SweepEffect, SendEffect, CrashEffect, RememberEffect DEF Becomes
    <3> QED BY Zenon, <1>4, <3>1, <3>2
  <2>2. UNCHANGED <<db, top, latest>>
    BY Zenon, <1>4 DEF Export, TakeGeneration, Mark, Reuse, SyncDirs, Sweep, Send, Crash, Remember
  <2>3. Packs' \subseteq Packs
    BY Zenon, <1>4 DEF Export, TakeGeneration, Mark, Reuse, SyncDirs, Sweep, Send, Crash, Remember, Packs
  <2> QED BY Zenon, <1>0, <1>1, <2>1, <2>2, <2>3, NumberKept
<1>5. ASSUME NEW r \in Proc, NEW o \in Object, PutObject(r, o) PROVE NumberInv'
  <2>1. \A u \in Proc : proc'[u].state = proc[u].state
    BY Zenon, <1>5, PutObjectEffect DEF Becomes
  <2>2. UNCHANGED <<db, top, latest>> /\ Packs' = Packs
    BY Zenon, <1>5 DEF PutObject, Packs
  <2> QED BY Zenon, <1>0, <1>1, <2>1, <2>2, NumberKept
<1>6. ASSUME NEW r \in Proc, NEW p \in net, Recover(r, p) \/ Rollback(r, p) PROVE NumberInv'
  <2>1. Import(r, p) /\ behind' \in BOOLEAN /\ p \in Packs
    BY Zenon, <1>6 DEF Recover, Rollback, Types, DataTypes, Packs
  <2>2. \A u \in Proc : proc'[u].state \in {proc[u].state, p.state}
    BY Zenon, <2>1, ImportEffect DEF Becomes
  <2>3. UNCHANGED <<db, top, latest>> /\ Packs' = Packs
    BY Zenon, <2>1 DEF Import, Packs
  <2> QED BY Zenon, <1>0, <1>1, <2>1, <2>2, <2>3, NumberKept
<1>7. ASSUME NEW r \in Proc, WriteLatest(r) PROVE NumberInv'
  <2>1. \A u \in Proc : proc'[u].state \in {proc[u].state, None}
    BY Zenon, <1>7, WriteLatestOnEffect, WriteLatestEndEffect DEF Becomes
  <2>2. UNCHANGED <<db, top>> /\ Packs' = Packs /\ latest' = proc[r].state
    BY Zenon, <1>7 DEF WriteLatest, Packs
  <2> QED BY Zenon, <1>0, <1>1, <2>1, <2>2, NumberKept
<1>8. ASSUME NEW r \in Proc, WritePack(r) PROVE NumberInv'
  <2> DEFINE p == [state |-> proc[r].state, gen |-> proc[r].gen]
  <2>1. \A u \in Proc : proc'[u].state \in {proc[u].state, None}
    BY Zenon, <1>8, WritePackEffect
  <2>2. UNCHANGED <<db, top, latest>> /\ Packs' = Packs \cup {p}
    BY Zenon, <1>8 DEF WritePack, Packs
  <2>3. p.state = proc[r].state
    BY Zenon
  <2> HIDE DEF p
  <2> QED BY Zenon, <1>0, <1>1, <2>1, <2>2, <2>3, NumberKept
<1>9. CASE UNCHANGED vars
  BY Zenon, <1>9 DEF vars, NumberInv, Numbers, Packs
<1> QED BY Zenon, <1>2, <1>3, <1>4, <1>5, <1>6, <1>7, <1>8, <1>9 DEF Next, Step

(* Every step keeps the order of the packs, unless it puts the counter behind. *)
LEMMA NextOrder ==
  ASSUME GraphAssumption, Types, Types', StoreInv, NumberInv, OrderInv, ~behind', [Next]_vars
  PROVE  OrderInv'
<1>1. CASE Work \/ \E r \in Proc : ImportDb(r)
  BY Zenon, <1>1, CatalogueOrder
<1>2. CASE PowerLoss \/ Disaster
  BY Zenon, <1>2, LossOrder
<1>3. ASSUME NEW r \in Proc, Export(r) \/ TakeGeneration(r) \/ Mark(r) \/ \E p \in net : Recover(r, p) \/ Rollback(r, p)
      PROVE  OrderInv'
  BY Zenon, <1>3, EnterOrder DEF Rollback
<1>4. ASSUME NEW r \in Proc, Reuse(r) \/ Crash(r) PROVE OrderInv'
  BY Zenon, <1>4, GoOnOrder
<1>5. ASSUME NEW r \in Proc, Step(r) PROVE OrderInv'
  BY Zenon, <1>5, GoOnOrder, WriteLatestOrder, WritePackOrder DEF Step
<1>6. CASE UNCHANGED vars
  BY Zenon, <1>6 DEF vars, OrderInv, Ordered, Counted, Current, Moving, Importing, Exporting, At, Upto, Packs
<1> QED BY Zenon, <1>1, <1>2, <1>3, <1>4, <1>5, <1>6 DEF Next

(* The history variable behind never goes back. *)
LEMMA BehindStays == ASSUME [Next]_vars, behind PROVE behind'
<1>1. CASE Work \/ PowerLoss \/ Disaster
  BY Zenon, <1>1 DEF Work, PowerLoss, Disaster, history
<1>2. ASSUME NEW r \in Proc, Export(r) \/ TakeGeneration(r) \/ Reuse(r) \/ Mark(r) \/ ImportDb(r) \/ Crash(r)
      PROVE  behind'
  BY Zenon, <1>2 DEF Export, TakeGeneration, Reuse, Mark, ImportDb, Crash, history
<1>3. ASSUME NEW r \in Proc, Step(r) PROVE behind'
  BY Zenon, <1>3 DEF Step, PutObject, SyncDirs, WriteLatest, Remember, WritePack, Send, Sweep, history
<1>4. ASSUME NEW r \in Proc, NEW p \in net, Recover(r, p) \/ Rollback(r, p) PROVE behind'
  BY Zenon, <1>4 DEF Recover, Rollback
<1>5. CASE UNCHANGED vars
  BY Zenon, <1>5 DEF vars
<1> QED BY Zenon, <1>1, <1>2, <1>3, <1>4, <1>5 DEF Next

(* The invariant holds at first. *)
LEMMA InitIInv == ASSUME GraphAssumption, Init PROVE IInv
<1>1. Types /\ StoreInv
  BY Zenon, InitStore
<1>2. \A r \in Proc : proc[r].state = None /\ proc[r].pc = "idle"
  BY Zenon, IdleType DEF Init
<1>3. NumberInv
  BY <1>2 DEF Init, NumberInv, Numbers, Packs, None
<1>4. OrderInv
  BY Zenon, <1>2 DEF Init, OrderInv, Ordered, Counted, Current, Moving, Importing, Exporting, At, Packs
<1> QED BY Zenon, <1>1, <1>3, <1>4 DEF IInv

(* Every step keeps it. *)
LEMMA NextIInv == ASSUME GraphAssumption, IInv, [Next]_vars PROVE IInv'
<1>1. Types' /\ StoreInv'
  BY Zenon, NextStore DEF IInv
<1>2. NumberInv'
  BY Zenon, <1>1, NextNumber DEF IInv
<1>3. ~behind' => OrderInv'
  BY Zenon, <1>1, NextOrder, BehindStays DEF IInv
<1> QED BY Zenon, <1>1, <1>2, <1>3 DEF IInv

-----------------------------------------------------------------------------
(* The inductive invariant of the metadata graph holds always. *)
THEOREM Invariance == Spec => []IInv
<1> USE GraphAssumption
<1>1. Init => IInv
  BY Zenon, InitIInv
<1>2. IInv /\ [Next]_vars => IInv'
  BY Zenon, NextIInv
<1> QED BY <1>1, <1>2, PTL DEF Spec

(* LatestClosed: whatever exports, imports, collections, crashes and losses
   of power do, everything the latest pointer reaches is in the store or is
   an orphan (write_latest_pointer, MetadataObjectGarbageCollector). *)
THEOREM LatestIsClosed == Spec => []LatestClosed
<1>1. IInv => LatestClosed
  BY Zenon DEF IInv, StoreInv, Closed, LatestClosed
<1> QED BY <1>1, Invariance, PTL

(* The packs the custodians have after a step were there or in the directory. *)
LEMMA NetFrom == ASSUME [Next]_vars PROVE net' \subseteq Packs
<1>1. CASE Work \/ PowerLoss \/ Disaster
  BY Zenon, <1>1 DEF Work, PowerLoss, Disaster, Packs
<1>2. ASSUME NEW r \in Proc, Export(r) \/ TakeGeneration(r) \/ Reuse(r) \/ Mark(r) \/ ImportDb(r) \/ Crash(r)
      PROVE  net' \subseteq Packs
  BY Zenon, <1>2 DEF Export, TakeGeneration, Reuse, Mark, ImportDb, Crash, Packs
<1>3. ASSUME NEW r \in Proc, Step(r) PROVE net' \subseteq Packs
  BY Zenon, <1>3 DEF Step, PutObject, SyncDirs, WriteLatest, Remember, WritePack, Send, Sweep, Packs
<1>4. ASSUME NEW r \in Proc, NEW p \in net, Recover(r, p) \/ Rollback(r, p) PROVE net' \subseteq Packs
  BY Zenon, <1>4 DEF Recover, Rollback, Import, Packs
<1>5. CASE UNCHANGED vars
  BY Zenon, <1>5 DEF vars, Packs
<1> QED BY Zenon, <1>1, <1>2, <1>3, <1>4, <1>5 DEF Next

(* PushedIsFound: the recovery finds the state of a push that ended well,
   since generations order the packs as their states are ordered
   (push_metadata_pack_to_network, recover_metadata_from_network). *)
THEOREM PushIsFound == Spec => PushedIsFound
<1> DEFINE A == \A r \in Proc : ~behind /\ At(r, "send") /\ At(r, "idle")' /\ proc[r].state = latest
                         /\ [state |-> proc[r].state, gen |-> proc[r].gen] \in net' =>
                \A q \in Best' : q.state = latest
<1> USE GraphAssumption
<1>1. IInv /\ [Next]_vars => A
  <2> SUFFICES ASSUME IInv, [Next]_vars, NEW r \in Proc, ~behind, proc[r].state = latest,
                      [state |-> proc[r].state, gen |-> proc[r].gen] \in net', NEW q \in Best'
               PROVE  q.state = latest
    BY Zenon
  <2> DEFINE p == [state |-> proc[r].state, gen |-> proc[r].gen]
  <2>1. p \in Packs /\ q \in Packs /\ p.gen <= q.gen
    BY Zenon, NetFrom DEF Best
  <2>2. p.state = latest
    BY Zenon
  <2> HIDE DEF p
  <2>3. Types /\ OrderInv
    BY Zenon DEF IInv
  <2>4. latest <= q.state
    BY Zenon, <2>1, <2>2, <2>3 DEF OrderInv, Ordered
  <2>5. latest # None
    BY <2>1, <2>2, <2>3, PackNumbers DEF None
  <2>6. q.state <= latest
    BY Zenon, <2>1, <2>3, <2>5 DEF OrderInv, Current, Upto
  <2> QED BY <2>1, <2>3, <2>4, <2>6, PackNumbers
<1> QED BY <1>1, Invariance, PTL DEF Spec, PushedIsFound
====
