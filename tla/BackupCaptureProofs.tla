------------------------ MODULE BackupCaptureProofs ------------------------
(***************************************************************************)
(* For any files, contents, chunks, policies and numbers of snapshots,     *)
(* workers and events: a row that still describes its file has the file's  *)
(* chunks, captures that meet no collection are kept, and settled snapshots*)
(* do not change.                                                          *)
(*                                                                         *)
(* RowsDescribeFiles needs Prefix: what a worker has read is a prefix of   *)
(* the file as long as the row of the walk still describes it.             *)
(* QuietCapturesKept needs WriteInv, which follows a chunk from the        *)
(* planner's answer over the index and the store to the recipe, and GcInv: *)
(* what a collection at work may remove is referred to only by captures    *)
(* that it met.                                                            *)
(***************************************************************************)
EXTENDS BackupCapture, WellFoundedInduction, TLAPS

Row == [ver : -1..MaxVer, recipe : Seq(Chunk) \cup {NoRecipe}]
Status == {"CREATING", "COMPLETE", "FAILED"}
(* where the coordinator is before the snapshot is settled                     *)
Open == {"walk", "reuse", "submit", "waitFirst", "waitAll", "collect", "leave", "unwind", "finish"}

DiskTypes == ver \in [File -> 0..MaxVer] /\ cas \in [Chunk -> {"none", "fresh", "old"}]
DbTypes ==
    /\ status \in Seq(Status) /\ Len(status) <= MaxSnap
    /\ item \in Seq([File -> Row]) /\ Len(item) = Len(status)
CoordTypes ==
    /\ cur \in {0, Len(status)} /\ (pc = "idle" <=> cur = 0)
    /\ todo \in SUBSET File /\ reused \in SUBSET File /\ pending \in SUBSET File
WorkTypes == task \in [File -> TaskRecord] /\ index \in [Chunk -> {"unknown", "yes", "no"}]
Types == DiskTypes /\ DbTypes /\ CoordTypes /\ WorkTypes /\ met \in [1..MaxSnap -> BOOLEAN]

(* a running capture is being created; the files it will reuse have a recipe
   of the same version; a file is walked before it is processed                *)
CoordInv ==
    /\ pc \in Open => status[cur] = "CREATING"
    /\ pc = "reuse" => \A f \in reused :
          /\ PrevSnapshot \in 1..cur - 1 /\ status[PrevSnapshot] = "COMPLETE"
          /\ item[PrevSnapshot][f].recipe # NoRecipe
          /\ item[PrevSnapshot][f].ver = item[cur][f].ver
    /\ pending \cap todo = {}
    /\ \A f \in File : task[f].st # "none" => cur # 0 /\ f \notin todo

(* what a worker has read is the beginning of the file, as long as the row of
   the walk describes the file                                                *)
Prefix(f) ==
    task[f].st \in Active \cup {"queued", "ok"} /\ item[cur][f].ver = ver[f] =>
        /\ Len(task[f].chunks) <= Len(Body(f))
        /\ \A i \in 1..Len(task[f].chunks) : task[f].chunks[i] = Body(f)[i]
        /\ task[f].st = "ok" => Len(task[f].chunks) = Len(Body(f))
(* no row is ahead of its file                                                 *)
PastRows == \A s \in Snap, f \in File : item[s][f].ver <= ver[f]
RowInv == PastRows /\ RowsDescribeFiles /\ \A f \in File : Prefix(f)

Kept(c) == Stored(c) \/ c \in Synced
(* the worker has still to decide on its last chunk                            *)
Undecided == {"remember", "check", "replace"}
(* the chunks a worker has passed are kept, and so is one it saw               *)
Held(f) ==
    /\ task[f].st = "remember" /\ task[f].saw => Stored(Here(f))
    /\ task[f].st \in Active \cup {"queued", "ok"} =>
         \A i \in 1..Len(task[f].chunks) :
             Kept(task[f].chunks[i]) \/ (i = Len(task[f].chunks) /\ task[f].st \in Undecided)
Alive == {"CREATING", "COMPLETE"}
(* a collection meets the capture it runs beside, and keeps what the others
   refer to                                                                   *)
GcInv ==
    /\ cur # 0 /\ gcPc # "idle" => met[cur]
    /\ gcPc # "idle" => \A s \in Snap : s # cur /\ status[s] \in Alive /\ ~met[s] => Refs(s) \subseteq gcKeep
    /\ gcFile \cap gcKeep = {}
    /\ gcPc = "idle" => gcFile = {}
(* in an unmet capture the answers of the index are true                       *)
WriteInv == cur # 0 /\ ~met[cur] => (\A c \in Chunk : index[c] = "yes" => Stored(c)) /\ \A f \in File : Held(f)
Begun == \A f \in File : task[f].st \in Undecided => Len(task[f].chunks) > 0
QuietInv == GcInv /\ WriteInv /\ QuietCapturesKept

(* The inductive invariant.                                                    *)
IInv == Types /\ CoordInv /\ Begun /\ RowInv /\ QuietInv

-----------------------------------------------------------------------------
(* A sequence with one place changed. *)
LEMMA SeqExcept ==
  ASSUME NEW S, NEW q \in Seq(S), NEW i \in 1..Len(q), NEW x \in S
  PROVE  /\ [q EXCEPT ![i] = x] \in Seq(S) /\ Len([q EXCEPT ![i] = x]) = Len(q)
         /\ [q EXCEPT ![i] = x][i] = x /\ \A j \in 1..Len(q) : j # i => [q EXCEPT ![i] = x][j] = q[j]
  OBVIOUS

(* A sequence with one element more. *)
LEMMA SeqAppend ==
  ASSUME NEW S, NEW q \in Seq(S), NEW x \in S
  PROVE  /\ Append(q, x) \in Seq(S) /\ Len(Append(q, x)) = Len(q) + 1
         /\ Append(q, x)[Len(q) + 1] = x /\ \A j \in 1..Len(q) : Append(q, x)[j] = q[j]
  OBVIOUS

(* Sequences of the same length with the same elements are equal. *)
LEMMA SeqEqual ==
  ASSUME NEW S, NEW q \in Seq(S), NEW b \in Seq(S), Len(q) = Len(b), \A i \in 1..Len(q) : q[i] = b[i]
  PROVE  q = b
<1>1. q = [i \in 1..Len(q) |-> q[i]] /\ b = [i \in 1..Len(b) |-> b[i]]
  OBVIOUS
<1>2. [i \in 1..Len(q) |-> q[i]] = [i \in 1..Len(b) |-> b[i]]
  BY Zenon
<1> QED BY Zenon, <1>1, <1>2

(* Range collects the elements of a sequence. *)
LEMMA SetOf ==
  ASSUME NEW S, NEW q \in Seq(S)
  PROVE  \A c : c \in Range(q) <=> \E i \in 1..Len(q) : q[i] = c
  BY DEF Range

(* A set of numbers below a bound has a greatest element, and Max is it. *)
LEMMA MaxExists ==
  ASSUME NEW n \in Nat, NEW S \in SUBSET (0..n), S # {}
  PROVE  Max(S) \in S /\ \A y \in S : Max(S) >= y
<1> DEFINE R == OpToRel(<, Nat)
<1> DEFINE T == {n - x : x \in S}
<1>1. T \subseteq Nat /\ T # {}
  <2>1. \A x \in S : n - x \in Nat
    OBVIOUS
  <2> QED BY Zenon, <2>1
<1>2. \E t \in T : \A u \in T : ~ (<<u, t>> \in R)
  <2>1. IsWellFoundedOn(R, Nat)
    BY NatLessThanWellFounded
  <2> HIDE DEF R, T
  <2> QED BY Zenon, <1>1, <2>1, WFMin
<1>3. \A u, t \in Nat : u < t => <<u, t>> \in R
  BY DEF OpToRel
<1>4. PICK m \in S : \A y \in S : ~(n - y < n - m)
  <2> HIDE DEF R
  <2> QED BY Zenon, <1>1, <1>2, <1>3
<1>5. \E g \in S : \A y \in S : g >= y
  BY <1>4
<1> QED BY Zenon, <1>5 DEF Max

(* get_prev_snapshot_id is an earlier snapshot that is complete.              *)
LEMMA PrevIsComplete ==
  ASSUME CaptureAssumption, Types, PrevSnapshot # 0
  PROVE  PrevSnapshot \in 1..cur - 1 /\ status[PrevSnapshot] = "COMPLETE"
<1> DEFINE Before == {s \in 1..cur - 1 : status[s] = "COMPLETE"}
<1>1. PrevSnapshot = Max(Before) /\ Before # {}
  BY Zenon DEF PrevSnapshot
<1>2. cur \in Nat
  BY DEF Types, CoordTypes, DbTypes
<1>3. Before \in SUBSET (0..cur)
  BY <1>2
<1>4. Max(Before) \in Before
  <2> HIDE DEF Before
  <2> QED BY Zenon, <1>1, <1>2, <1>3, MaxExists
<1> QED BY <1>1, <1>4

(* The running capture is the last snapshot.                                 *)
LEMMA Running1 ==
  ASSUME Types, pc # "idle"
  PROVE  cur \in Snap /\ cur = Len(status) /\ cur # 0 /\ cur \in 1..Len(item) /\ Snap = 1..Len(item) /\ cur \in 1..MaxSnap
  BY DEF Types, CoordTypes, DbTypes, Snap

(* A step of the coordinator that changes the rows of its snapshot to r.      *)
LEMMA RowsChange ==
  ASSUME Types, pc # "idle", NEW r \in [File -> Row], item' = [item EXCEPT ![cur] = r]
  PROVE  /\ item' \in Seq([File -> Row]) /\ Len(item') = Len(item)
         /\ item'[cur] = r /\ \A s \in Snap : s # cur => item'[s] = item[s]
<1>1. cur \in 1..Len(item) /\ Snap = 1..Len(item) /\ item \in Seq([File -> Row])
  BY Zenon, Running1 DEF Types, DbTypes
<1> QED BY <1>1, SeqExcept

(* A row of the catalog. *)
LEMMA RowType ==
  ASSUME Types, NEW s \in Snap, NEW f \in File
  PROVE  item[s] \in [File -> Row] /\ item[s][f] \in Row /\ item[s][f].ver \in Int /\ item[s][f].recipe \in Seq(Chunk) \cup {NoRecipe}
<1>1. item[s] \in [File -> Row]
  BY DEF Types, DbTypes, Snap
<1>2. item[s][f] \in Row
  BY <1>1
<1> QED BY <1>1, <1>2 DEF Row

(* What add_items makes of the rows.                                          *)
LEMMA AddBatchEffect ==
  ASSUME CaptureAssumption, Types, AddBatch
  PROVE  \E B \in SUBSET todo :
           /\ item' \in Seq([File -> Row]) /\ Len(item') = Len(item)
           /\ \A s \in Snap : s # cur => item'[s] = item[s]
           /\ \A f \in File : item'[cur][f] = IF f \in B THEN [ver |-> ver[f], recipe |-> NoRecipe] ELSE item[cur][f]
           /\ todo' = todo \ B /\ pending' \subseteq B /\ reused' \subseteq B
           /\ \A f \in reused' : PrevSnapshot # 0 /\ IsUnchanged(f)
<1>1. PICK B \in SUBSET todo :
           /\ item' = [item EXCEPT ![cur] = [f \in File |->
                           IF f \in B THEN [ver |-> ver[f], recipe |-> NoRecipe] ELSE @[f]]]
           /\ todo' = todo \ B
           /\ reused' = IF mode = "safe" \/ PrevSnapshot = 0 THEN {} ELSE {f \in B : IsUnchanged(f)}
           /\ pending' = B \ reused'
  BY Zenon DEF AddBatch
<1> DEFINE r == [f \in File |-> IF f \in B THEN [ver |-> ver[f], recipe |-> NoRecipe] ELSE item[cur][f]]
<1>2. item' = [item EXCEPT ![cur] = r]
  BY Zenon, <1>1
<1>3. pc # "idle" /\ cur \in Snap
  <2>1. pc # "idle"
    BY Zenon DEF AddBatch
  <2> QED BY Zenon, <2>1, Running1
<1>4. r \in [File -> Row]
  <2>1. \A f \in File : item[cur][f] \in Row
    BY Zenon, <1>3, RowType
  <2>2. \A f \in File : ver[f] \in -1..MaxVer
    BY DEF Types, DiskTypes, CaptureAssumption
  <2> QED BY <2>1, <2>2 DEF Row
<1>5. \A f \in File : r[f] = IF f \in B THEN [ver |-> ver[f], recipe |-> NoRecipe] ELSE item[cur][f]
  BY Zenon
<1> HIDE DEF r
<1>6. /\ item' \in Seq([File -> Row]) /\ Len(item') = Len(item)
      /\ item'[cur] = r /\ \A s \in Snap : s # cur => item'[s] = item[s]
  BY Zenon, <1>2, <1>3, <1>4, RowsChange
<1>7. pending' \subseteq B /\ reused' \subseteq B /\ \A f \in reused' : PrevSnapshot # 0 /\ IsUnchanged(f)
  BY Zenon, <1>1
<1> QED BY Zenon, <1>1, <1>5, <1>6, <1>7

(* reuse_item_recipes copies recipes of the previous snapshot.                *)
LEMMA ReuseEffect ==
  ASSUME CaptureAssumption, Types, CoordInv, ReuseItemRecipes
  PROVE  /\ item' \in Seq([File -> Row]) /\ Len(item') = Len(item)
         /\ \A s \in Snap : s # cur => item'[s] = item[s]
         /\ \A f \in File \ reused : item'[cur][f] = item[cur][f]
         /\ \A f \in reused : /\ item'[cur][f].ver = item[cur][f].ver
                              /\ item'[cur][f].recipe = item[PrevSnapshot][f].recipe
<1>1. pc = "reuse" /\ pc # "idle"
  BY Zenon DEF ReuseItemRecipes
<1>2. cur \in Snap
  BY Zenon, <1>1, Running1
<1> DEFINE r == [f \in File |-> IF f \in reused THEN [item[cur][f] EXCEPT !.recipe = item[PrevSnapshot][f].recipe] ELSE item[cur][f]]
<1>3. item' = [item EXCEPT ![cur] = r]
  BY Zenon DEF ReuseItemRecipes
<1>4. \A f \in File : item[cur][f] \in Row
  BY Zenon, <1>2, RowType
<1>5. \A f \in reused : f \in File /\ item[PrevSnapshot][f].recipe \in Seq(Chunk) \cup {NoRecipe}
  <2> SUFFICES ASSUME NEW f \in reused PROVE f \in File /\ item[PrevSnapshot][f].recipe \in Seq(Chunk) \cup {NoRecipe}
    BY Zenon
  <2>1. f \in File /\ PrevSnapshot \in 1..cur - 1
    BY Zenon, <1>1 DEF CoordInv, Types, CoordTypes
  <2>2. PrevSnapshot \in Snap
    BY <1>2, <2>1 DEF Snap, Types, DbTypes
  <2> QED BY Zenon, <2>1, <2>2, RowType
<1>6. r \in [File -> Row]
  BY Zenon, <1>4, <1>5 DEF Row
<1>7. /\ \A f \in File \ reused : r[f] = item[cur][f]
      /\ \A f \in reused : r[f].ver = item[cur][f].ver /\ r[f].recipe = item[PrevSnapshot][f].recipe
  BY <1>4, <1>5 DEF Row
<1> HIDE DEF r
<1>8. /\ item' \in Seq([File -> Row]) /\ Len(item') = Len(item)
      /\ item'[cur] = r /\ \A s \in Snap : s # cur => item'[s] = item[s]
  BY Zenon, <1>1, <1>3, <1>6, RowsChange
<1> QED BY Zenon, <1>7, <1>8

(* consolidate_item_recipe writes the recipe a worker returned.               *)
LEMMA CollectEffect ==
  ASSUME CaptureAssumption, Types, NEW f \in File, Collect(f)
  PROVE  /\ item' \in Seq([File -> Row]) /\ Len(item') = Len(item)
         /\ \A s \in Snap : s # cur => item'[s] = item[s]
         /\ \A g \in File : item'[cur][g].ver = item[cur][g].ver
         /\ \A g \in File : \/ item'[cur][g] = item[cur][g]
                            \/ g = f /\ task[f].st = "ok" /\ item'[cur][f].recipe = task[f].chunks
<1>1. pc = "collect" /\ pc # "idle"
  BY Zenon DEF Collect
<1>2. cur \in Snap /\ cur \in 1..Len(item)
  BY Zenon, <1>1, Running1
<1>3. \A g \in File : item[cur][g] \in Row
  BY Zenon, <1>2, RowType
<1>4. CASE task[f].st # "ok"
  <2>1. item' = item
    BY Zenon, <1>4 DEF Collect
  <2> QED BY Zenon, <2>1 DEF Types, DbTypes
<1>5. CASE task[f].st = "ok"
  <2> DEFINE r == [item[cur] EXCEPT ![f].recipe = task[f].chunks]
  <2>1. item' = [item EXCEPT ![cur] = r]
    BY Zenon, <1>5 DEF Collect
  <2>2. item[cur] \in [File -> Row] /\ task[f].chunks \in Seq(Chunk)
    <3>1. task[f] \in TaskRecord
      BY Zenon DEF Types, WorkTypes
    <3>2. task[f].chunks \in Seq(Chunk)
      BY <3>1 DEF TaskRecord
    <3> QED BY Zenon, <1>2, <3>2, RowType
  <2>3. r \in [File -> Row]
    BY Zenon, <2>2 DEF Row
  <2>4. /\ \A g \in File \ {f} : r[g] = item[cur][g]
        /\ r[f].ver = item[cur][f].ver /\ r[f].recipe = task[f].chunks
    BY <2>2 DEF Row
  <2> HIDE DEF r
  <2>5. /\ item' \in Seq([File -> Row]) /\ Len(item') = Len(item)
        /\ item'[cur] = r /\ \A s \in Snap : s # cur => item'[s] = item[s]
    BY Zenon, <1>1, <2>1, <2>3, RowsChange
  <2> QED BY Zenon, <1>5, <2>4, <2>5
<1> QED BY Zenon, <1>4, <1>5

(* create_snapshot: one more snapshot, without recipes.                       *)
LEMMA CreateEffect ==
  ASSUME CaptureAssumption, Types, CreateSnapshot
  PROVE  /\ status' \in Seq(Status) /\ Len(status') = Len(status) + 1 /\ Len(status') <= MaxSnap
         /\ item' \in Seq([File -> Row]) /\ Len(item') = Len(status')
         /\ cur = 0 /\ cur' = Len(status') /\ cur' # 0 /\ cur' \notin Snap /\ Snap' = Snap \cup {cur'}
         /\ (\A s \in Snap : status'[s] = status[s] /\ item'[s] = item[s])
         /\ status'[cur'] = "CREATING" /\ \A f \in File : item'[cur'][f] = NoItem
         /\ met' \in [1..MaxSnap -> BOOLEAN] /\ met'[cur'] = (gcPc # "idle")
         /\ \A s \in Snap : met'[s] = met[s]
<1> DEFINE r == [f \in File |-> NoItem]
<1>1. /\ status' = Append(status, "CREATING") /\ item' = Append(item, r) /\ cur' = Len(status) + 1
      /\ met' = [met EXCEPT ![cur'] = (gcPc # "idle")] /\ pc = "idle" /\ Len(status) < MaxSnap
  BY Zenon DEF CreateSnapshot
<1>2. r \in [File -> Row] /\ \A f \in File : r[f] = NoItem
  BY DEF Row, NoItem, CaptureAssumption
<1> HIDE DEF r
<1>3. /\ status \in Seq(Status) /\ item \in Seq([File -> Row]) /\ Len(item) = Len(status) /\ "CREATING" \in Status
      /\ Len(status) \in Nat /\ Snap = 1..Len(status) /\ Snap' = 1..Len(status')
  BY DEF Types, DbTypes, Status, Snap
<1>4. /\ status' \in Seq(Status) /\ Len(status') = Len(status) + 1
      /\ status'[cur'] = "CREATING" /\ \A s \in Snap : status'[s] = status[s]
  BY <1>1, <1>3, SeqAppend
<1>5. /\ item' \in Seq([File -> Row]) /\ Len(item') = Len(item) + 1
      /\ item'[cur'] = r /\ \A s \in Snap : item'[s] = item[s]
  BY <1>1, <1>2, <1>3, SeqAppend
<1>6. cur' # 0 /\ cur' \notin Snap /\ Snap' = Snap \cup {cur'} /\ Len(status') <= MaxSnap /\ cur' \in 1..MaxSnap
      /\ cur' = Len(status') /\ Len(item') = Len(status')
  BY <1>1, <1>3, <1>4, <1>5 DEF CaptureAssumption
<1>7. Snap \subseteq 1..MaxSnap
  BY <1>1, <1>3 DEF CaptureAssumption
<1>8. /\ met' \in [1..MaxSnap -> BOOLEAN] /\ met'[cur'] = (gcPc # "idle")
      /\ \A s \in Snap : met'[s] = met[s]
  BY <1>1, <1>6, <1>7 DEF Types
<1>9. cur = 0
  BY Zenon, <1>1 DEF Types, CoordTypes
<1> QED BY Zenon, <1>2, <1>4, <1>5, <1>6, <1>8, <1>9

-----------------------------------------------------------------------------
(* What a step of a worker does to its task.                                  *)
Moves(f, st, chunks, saw) ==
    /\ task' \in [File -> TaskRecord] /\ \A g \in File \ {f} : task'[g] = task[g]
    /\ task'[f].st = st /\ task'[f].chunks = chunks /\ task'[f].saw = saw
Apart == UNCHANGED <<ver, status, item, cur, mode, pc, todo, reused, pending, gcPc, gcKeep, gcFile, met>>
WorkerStep(f) == Worker(f) \/ WorkerFails(f)

(* A task of the pool is a record with a recipe so far.                       *)
LEMMA TaskType ==
  ASSUME Types, NEW f \in File
  PROVE  /\ task[f] \in TaskRecord /\ task[f].chunks \in Seq(Chunk) /\ task[f].saw \in BOOLEAN
         /\ task[f].st \in Active \cup {"none", "queued", "ok", "error"}
<1>1. task[f] \in TaskRecord
  BY Zenon DEF Types, WorkTypes
<1> QED BY <1>1 DEF TaskRecord

(* The chunk a worker is at.                                                  *)
LEMMA HereType ==
  ASSUME Types, Begun, NEW f \in File, task[f].st \in Undecided
  PROVE  Len(task[f].chunks) \in 1..Len(task[f].chunks) /\ Here(f) \in Chunk
<1>1. task[f].chunks \in Seq(Chunk)
  BY Zenon, TaskType
<1>2. Len(task[f].chunks) > 0
  BY Zenon DEF Begun
<1> QED BY <1>1, <1>2 DEF Here

(* The present content of a file is a sequence of chunks.                     *)
LEMMA BodyType ==
  ASSUME CaptureAssumption, Types, NEW f \in File
  PROVE  Body(f) \in Seq(Chunk) /\ ver[f] \in 0..MaxVer
  BY DEF CaptureAssumption, Types, DiskTypes, Body

(* A thread takes a file. *)
LEMMA StartMoves ==
  ASSUME Types, NEW f \in File, StartTask(f)
  PROVE  Moves(f, "read", task[f].chunks, task[f].saw)
<1>1. task[f] \in TaskRecord /\ task \in [File -> TaskRecord] /\ task' = [task EXCEPT ![f].st = "read"]
  BY Zenon, TaskType DEF Types, WorkTypes, StartTask
<1> QED BY <1>1 DEF Moves, TaskRecord, Active

(* decide(): the next chunk of the file, and what the index or the store say. *)
LEMMA DecideMoves ==
  ASSUME CaptureAssumption, Types, NEW f \in File, Decide(f)
  PROVE  LET c == Body(f)[Len(task[f].chunks) + 1]
         IN  /\ c \in Chunk
             /\ \E st \in {"check", "remember", "read"}, saw \in BOOLEAN :
                 /\ Moves(f, st, Append(task[f].chunks, c), saw)
                 /\ st = "remember" /\ saw => Stored(c)
                 /\ st = "read" => index[c] = "yes" \/ c \in Synced
<1> DEFINE c == Body(f)[Len(task[f].chunks) + 1]
           Asks == mode \notin {"safe", "plain"} /\ index[c] = "unknown"
           st == CASE mode \in {"safe", "plain"} -> "check"
                   [] Asks -> "remember"
                   [] OTHER -> Decision(c, index[c] = "yes")
           saw == Asks /\ Stored(c)
           r == [st |-> st, chunks |-> Append(task[f].chunks, c), saw |-> saw]
<1>1. task' = [task EXCEPT ![f] = r] /\ Len(task[f].chunks) < Len(Body(f))
  BY Zenon DEF Decide
<1>2. c \in Chunk /\ Body(f) \in Seq(Chunk) /\ task[f].chunks \in Seq(Chunk)
  <2>1. Body(f) \in Seq(Chunk) /\ task[f].chunks \in Seq(Chunk)
    BY Zenon, TaskType, BodyType
  <2> HIDE DEF c
  <2>2. Len(task[f].chunks) + 1 \in 1..Len(Body(f))
    BY <1>1, <2>1
  <2>3. c \in Chunk
    BY <2>1, <2>2 DEF c
  <2> QED BY Zenon, <2>1, <2>3
<1>3. st \in {"check", "remember", "read"}
  BY Zenon DEF Decision
<1>4. saw \in BOOLEAN /\ (saw => Stored(c))
  BY Zenon
<1>5. st = "read" => index[c] = "yes" \/ c \in Synced
  BY Zenon DEF Decision
<1>6. Append(task[f].chunks, c) \in Seq(Chunk)
  <2> HIDE DEF c
  <2> QED BY <1>2
<1> HIDE DEF st, saw, c
<1>7. r \in TaskRecord /\ r.st = st /\ r.chunks = Append(task[f].chunks, c) /\ r.saw = saw
  <2>1. st \in Active \cup {"none", "queued", "ok", "error"}
    BY Zenon, <1>3 DEF Active
  <2> QED BY <1>4, <1>6, <2>1 DEF TaskRecord
<1> HIDE DEF r
<1>8. task \in [File -> TaskRecord]
  BY Zenon DEF Types, WorkTypes
<1>9. task' \in [File -> TaskRecord] /\ task'[f] = r /\ \A g \in File \ {f} : task'[g] = task[g]
  BY Zenon, <1>1, <1>7, <1>8
<1>10. Moves(f, st, Append(task[f].chunks, c), saw)
  BY Zenon, <1>7, <1>9 DEF Moves
<1> QED BY Zenon, <1>2, <1>3, <1>4, <1>5, <1>10 DEF c

(* The answer of the store decides. *)
LEMMA RememberMoves ==
  ASSUME CaptureAssumption, Types, NEW f \in File, Remember(f)
  PROVE  \E st \in {"check", "read"} :
           /\ Moves(f, st, task[f].chunks, FALSE)
           /\ st = "read" => task[f].saw \/ Here(f) \in Synced
<1> DEFINE st == Decision(Here(f), task[f].saw)
<1>1. task' = [task EXCEPT ![f].st = st, ![f].saw = FALSE]
  BY Zenon DEF Remember
<1>2. st \in {"check", "read"} /\ (st = "read" => task[f].saw \/ Here(f) \in Synced)
  BY Zenon DEF Decision
<1> HIDE DEF st
<1>3. task[f] \in TaskRecord /\ task \in [File -> TaskRecord]
  BY Zenon, TaskType DEF Types, WorkTypes
<1>4. Moves(f, st, task[f].chunks, FALSE)
  BY Zenon, <1>1, <1>2, <1>3 DEF Moves, TaskRecord, Active
<1> QED BY Zenon, <1>2, <1>4

(* A step that only changes where the worker is. *)
LEMMA OtherMoves ==
  ASSUME Types, NEW f \in File, NEW st \in {"read", "replace", "ok", "error"},
         task' = [task EXCEPT ![f].st = st]
  PROVE  Moves(f, st, task[f].chunks, task[f].saw)
<1>1. task[f] \in TaskRecord /\ task \in [File -> TaskRecord]
  BY Zenon, TaskType DEF Types, WorkTypes
<1> QED BY <1>1 DEF Moves, TaskRecord, Active

(* What the index and the store become in a step of a worker.                 *)
LEMMA WorkerFrame ==
  ASSUME NEW f, WorkerStep(f)
  PROVE  Apart
<1>1. CASE StartTask(f)
  BY <1>1 DEF StartTask, Apart, diskVars, dbVars, coordVars, gcVars, history
<1>2. CASE Decide(f)
  BY <1>2 DEF Decide, Apart, diskVars, dbVars, coordVars, gcVars, history
<1>3. CASE Remember(f)
  BY <1>3 DEF Remember, Apart, diskVars, dbVars, coordVars, gcVars, history
<1>4. CASE PutPresent(f)
  BY <1>4 DEF PutPresent, Apart, diskVars, dbVars, coordVars, gcVars, history
<1>5. CASE PutAbsent(f)
  BY <1>5 DEF PutAbsent, Apart, diskVars, dbVars, coordVars, gcVars, history
<1>6. CASE PutReplace(f)
  BY <1>6 DEF PutReplace, Apart, diskVars, dbVars, coordVars, gcVars, history
<1>7. CASE EndFile(f)
  BY <1>7 DEF EndFile, Apart, diskVars, dbVars, coordVars, gcVars, history
<1>8. CASE WorkerFails(f)
  BY <1>8 DEF WorkerFails, Apart, diskVars, dbVars, coordVars, gcVars, history
<1> QED BY Zenon, <1>1, <1>2, <1>3, <1>4, <1>5, <1>6, <1>7, <1>8 DEF WorkerStep, Worker

(* A recipe refers to chunks, and Refs collects them.                         *)
LEMMA RefsAre ==
  ASSUME Types, NEW s \in Snap
  PROVE  /\ Refs(s) \subseteq Chunk
         /\ \A c : c \in Refs(s) <=> \E g \in File : item[s][g].recipe # NoRecipe /\ c \in Range(item[s][g].recipe)
<1>1. \A c : c \in Refs(s) <=> \E g \in File : item[s][g].recipe # NoRecipe /\ c \in Range(item[s][g].recipe)
  BY Zenon DEF Refs
<1>2. \A g \in File : item[s][g].recipe # NoRecipe => item[s][g].recipe \in Seq(Chunk)
  BY Zenon, RowType
<1>3. \A q \in Seq(Chunk) : Range(q) \subseteq Chunk
  BY SetOf
<1> QED BY Zenon, <1>1, <1>2, <1>3

(* What a worker's step leaves true of everything but its own task, the
   store only growing.                                                        *)
LEMMA WorkerKeeps ==
  ASSUME IInv, NEW f \in File, NEW st, NEW chunks \in Seq(Chunk), NEW saw, Apart, Moves(f, st, chunks, saw),
         cas' \in [Chunk -> {"none", "fresh", "old"}], index' \in [Chunk -> {"unknown", "yes", "no"}],
         task[f].st # "none", st # "none", st \in Undecided => Len(chunks) > 0,
         \A c \in Chunk : Stored(c) => Stored(c)'
  PROVE  /\ Types' /\ CoordInv' /\ Begun' /\ PastRows' /\ RowsDescribeFiles' /\ GcInv' /\ QuietCapturesKept'
         /\ \A g \in File \ {f} : Prefix(g)' /\ (Held(g) => Held(g)')
<1> USE DEF IInv
<1>1. Types'
  <2>1. task' \in [File -> TaskRecord]
    BY Zenon DEF Moves
  <2> QED BY Zenon, <2>1 DEF Types, DiskTypes, DbTypes, CoordTypes, WorkTypes, Apart
<1>2. \A g \in File \ {f} : task'[g] = task[g]
  BY Zenon DEF Moves
<1>3. CoordInv'
  <2>1. PrevSnapshot' = PrevSnapshot
    BY Zenon DEF PrevSnapshot, Apart
  <2> QED BY Zenon, <1>2, <2>1 DEF CoordInv, Apart
<1>4. Begun'
  BY Zenon, <1>2 DEF Begun, Moves
<1>5. PastRows' /\ RowsDescribeFiles'
  BY Zenon DEF RowInv, PastRows, RowsDescribeFiles, Body, Snap, Apart
<1>6. \A s : Refs(s)' = Refs(s)
  BY Zenon DEF Refs, Apart
<1>7. GcInv'
  BY Zenon, <1>6 DEF QuietInv, GcInv, Snap, Apart
<1>8. QuietCapturesKept'
  <2>1. \A s \in Snap : Refs(s) \subseteq Chunk
    BY Zenon, RefsAre
  <2> QED BY Zenon, <1>6, <2>1 DEF QuietInv, QuietCapturesKept, Snap, Apart
<1>9. ASSUME NEW g \in File \ {f} PROVE Prefix(g)' /\ (Held(g) => Held(g)')
  <2>1. Prefix(g)'
    <3>1. task'[g] = task[g] /\ Body(g)' = Body(g) /\ item' = item /\ cur' = cur /\ ver' = ver
      BY Zenon, <1>2 DEF Body, Apart
    <3>2. Prefix(g)
      BY Zenon DEF RowInv
    <3> QED BY Zenon, <3>1, <3>2 DEF Prefix
  <2>2. \A i \in 1..Len(task[g].chunks) : task[g].chunks[i] \in Chunk
    <3>1. task[g].chunks \in Seq(Chunk)
      BY Zenon, TaskType
    <3> QED BY <3>1
  <2>3. ASSUME Held(g) PROVE Held(g)'
    <3>1. task[g].st = "remember" => Here(g) \in Chunk
      BY Zenon, HereType DEF Undecided
    <3>2. Here(g)' = Here(g)
      BY Zenon, <1>2 DEF Here
    <3>3. task'[g] = task[g]
      BY Zenon, <1>2
    <3> QED BY Zenon, <2>2, <2>3, <3>1, <3>2, <3>3 DEF Held, Kept
  <2> QED BY Zenon, <2>1, <2>3
<1> QED BY Zenon, <1>1, <1>3, <1>4, <1>5, <1>7, <1>8, <1>9

(* The chunks a worker has seen are the first of the file, as long as its row
   still describes the file.                                                  *)
LEMMA PrefixKept ==
  ASSUME RowInv, NEW f \in File, NEW st, NEW saw, Apart, Moves(f, st, task[f].chunks, saw),
         task[f].st \in Active \cup {"queued"}, Types, CaptureAssumption,
         st = "ok" => Len(task[f].chunks) >= Len(Body(f))
  PROVE  Prefix(f)'
<1>1. Prefix(f)
  BY Zenon DEF RowInv
<1>2. Body(f)' = Body(f) /\ task'[f].chunks = task[f].chunks /\ task'[f].st = st /\ item' = item /\ ver' = ver /\ cur' = cur
  BY Zenon DEF Moves, Apart, Body
<1>3. Len(task[f].chunks) \in Nat /\ Len(Body(f)) \in Nat
  <2>1. task[f].chunks \in Seq(Chunk) /\ Body(f) \in Seq(Chunk)
    BY Zenon, TaskType, BodyType
  <2> QED BY <2>1
<1>4. st = "ok" /\ Len(task[f].chunks) <= Len(Body(f)) => Len(task[f].chunks) = Len(Body(f))
  BY <1>3
<1> QED BY Zenon, <1>1, <1>2, <1>4 DEF Prefix

(* The last element of a longer sequence, and the others. *)
LEMMA AppendLast ==
  ASSUME NEW S, NEW q \in Seq(S), NEW x \in S
  PROVE  /\ Append(q, x) \in Seq(S) /\ Len(Append(q, x)) > 0 /\ Append(q, x)[Len(Append(q, x))] = x
         /\ \A i \in 1..Len(Append(q, x)) : i = Len(Append(q, x)) \/ (i \in 1..Len(q) /\ Append(q, x)[i] = q[i])
<1>1. Len(q) \in Nat
  OBVIOUS
<1>2. /\ Append(q, x) \in Seq(S) /\ Len(Append(q, x)) = Len(q) + 1 /\ Append(q, x)[Len(q) + 1] = x
      /\ \A j \in 1..Len(q) : Append(q, x)[j] = q[j]
  BY SeqAppend
<1>3. Len(q) + 1 > 0 /\ \A i \in 1..Len(q) + 1 : i \in 1..Len(q) \/ i = Len(q) + 1
  BY <1>1
<1> QED BY Zenon, <1>2, <1>3

(* A prefix and the next element are a prefix. *)
LEMMA NextOf ==
  ASSUME NEW S, NEW q \in Seq(S), NEW b \in Seq(S), Len(q) < Len(b)
  PROVE  /\ Len(Append(q, b[Len(q) + 1])) <= Len(b)
         /\ (\A i \in 1..Len(q) : q[i] = b[i])
               => \A i \in 1..Len(Append(q, b[Len(q) + 1])) : Append(q, b[Len(q) + 1])[i] = b[i]
<1> DEFINE x == b[Len(q) + 1]
<1>1. x \in S /\ Len(q) \in Nat /\ Len(b) \in Nat
  OBVIOUS
<1> HIDE DEF x
<1>2. Len(Append(q, x)) = Len(q) + 1 /\ Append(q, x)[Len(q) + 1] = x /\ \A i \in 1..Len(q) : Append(q, x)[i] = q[i]
  BY <1>1
<1>3. Len(q) + 1 <= Len(b) /\ \A i \in 1..Len(q) + 1 : i \in 1..Len(q) \/ i = Len(q) + 1
  BY <1>1
<1> QED BY Zenon, <1>2, <1>3 DEF x

(* What a worker has read stays a prefix when it reads the next chunk. *)
LEMMA PrefixGrows ==
  ASSUME RowInv, NEW f \in File, NEW st \in {"check", "remember", "read"}, NEW saw, Apart,
         Moves(f, st, Append(task[f].chunks, Body(f)[Len(task[f].chunks) + 1]), saw),
         task[f].st = "read", Len(task[f].chunks) < Len(Body(f)), Types, CaptureAssumption
  PROVE  Prefix(f)'
<1>1. Prefix(f) /\ task[f].st \in Active
  BY Zenon DEF RowInv, Active
<1> DEFINE q == task[f].chunks
           b == Body(f)
           p == Append(q, b[Len(q) + 1])
<1>2. Body(f)' = b /\ task'[f].chunks = p /\ task'[f].st # "ok" /\ item' = item /\ ver' = ver /\ cur' = cur
  BY Zenon DEF Moves, Apart, Body
<1>3. q \in Seq(Chunk) /\ b \in Seq(Chunk) /\ Len(q) < Len(b)
  BY Zenon, TaskType, BodyType
<1>4. item[cur][f].ver = ver[f] => \A i \in 1..Len(q) : q[i] = b[i]
  BY Zenon, <1>1 DEF Prefix
<1> HIDE DEF q, b
<1>5. Len(p) <= Len(b) /\ ((\A i \in 1..Len(q) : q[i] = b[i]) => \A i \in 1..Len(p) : p[i] = b[i])
  BY <1>3, NextOf
<1> HIDE DEF p
<1> QED BY Zenon, <1>2, <1>4, <1>5 DEF Prefix

(* The index and the tasks of an unmet capture speak of chunks that are kept. *)
Sound == (\A c \in Chunk : index[c] = "yes" => Stored(c)) /\ \A f \in File : Held(f)

(* A step that keeps the chunks of a task keeps Held of it, if a chunk that
   is no longer under decision is kept.                                       *)
LEMMA HeldKept ==
  ASSUME Types, Begun, NEW f \in File, Held(f), NEW st, NEW saw, Moves(f, st, task[f].chunks, saw), st # "remember",
         \A c \in Chunk : Stored(c) => Stored(c)',
         task[f].st \in Active \cup {"queued"}, 
         task[f].st \in Undecided => st \in Undecided \/ st = "error" \/ Kept(Here(f))'
  PROVE  Held(f)'
<1>1. \A i \in 1..Len(task[f].chunks) : task[f].chunks[i] \in Chunk
  <2>1. task[f].chunks \in Seq(Chunk)
    BY Zenon, TaskType
  <2> QED BY <2>1
<1>2. task'[f].chunks = task[f].chunks /\ task'[f].st = st /\ Here(f)' = Here(f)
  BY Zenon DEF Moves, Here
<1>3. st \in Active \cup {"queued", "ok"} => st # "error"
  BY Zenon DEF Active
<1>4. task[f].st \in Undecided => Here(f) = task[f].chunks[Len(task[f].chunks)]
  BY Zenon DEF Here
<1>5. ASSUME NEW i \in 1..Len(task[f].chunks), st # "error"
      PROVE  Kept(task[f].chunks[i])' \/ (i = Len(task[f].chunks) /\ st \in Undecided)
  <2>1. Kept(task[f].chunks[i]) \/ (i = Len(task[f].chunks) /\ task[f].st \in Undecided)
    BY Zenon DEF Held
  <2>2. CASE Kept(task[f].chunks[i])
    BY Zenon, <1>1, <1>2, <2>2 DEF Kept
  <2>3. CASE i = Len(task[f].chunks) /\ task[f].st \in Undecided
    BY Zenon, <1>2, <1>4, <1>5, <2>3 DEF Kept
  <2> QED BY Zenon, <2>1, <2>2, <2>3
<1> QED BY Zenon, <1>2, <1>3, <1>5 DEF Held

(* The parts of the invariant, put together after a step of a worker.         *)
LEMMA WorkerQed ==
  ASSUME IInv, NEW f \in File, Apart, Types', CoordInv', Begun', PastRows', RowsDescribeFiles', GcInv', QuietCapturesKept',
         \A g \in File \ {f} : Prefix(g)', Prefix(f)', Sound => Sound'
  PROVE  IInv'
<1>1. RowInv'
  BY Zenon DEF RowInv
<1>2. WriteInv'
  BY Zenon DEF IInv, QuietInv, WriteInv, Sound, Apart
<1> QED BY Zenon, <1>1, <1>2 DEF IInv, QuietInv

(* A worker's step that neither reads a chunk nor stores one.                  *)
LEMMA AdvanceStep ==
  ASSUME CaptureAssumption, IInv, NEW f \in File, NEW st \in {"read", "replace", "ok", "error"}, Apart, UNCHANGED <<index, cas>>,
         Moves(f, st, task[f].chunks, task[f].saw), task[f].st \in Active \cup {"queued"},
         st = "replace" => task[f].st = "check", task[f].st \in Undecided => st \in {"replace", "error"},
         st = "ok" => Len(task[f].chunks) >= Len(Body(f))
  PROVE  IInv'
<1> USE DEF IInv
<1>1. task[f].chunks \in Seq(Chunk) /\ task[f].st # "none" /\ st # "none" /\ st # "remember"
  BY Zenon, TaskType DEF Active
<1>2. \A c : Stored(c)' = Stored(c)
  BY Zenon DEF Stored
<1>3. st \in Undecided => Len(task[f].chunks) > 0
  BY Zenon DEF Begun, Undecided
<1>4. cas' \in [Chunk -> {"none", "fresh", "old"}] /\ index' \in [Chunk -> {"unknown", "yes", "no"}]
  BY Zenon DEF Types, DiskTypes, WorkTypes
<1>5. /\ Types' /\ CoordInv' /\ Begun' /\ PastRows' /\ RowsDescribeFiles' /\ GcInv' /\ QuietCapturesKept'
      /\ \A g \in File \ {f} : Prefix(g)' /\ (Held(g) => Held(g)')
  BY Zenon, <1>1, <1>2, <1>3, <1>4, WorkerKeeps
<1>6. Prefix(f)'
  BY Zenon, PrefixKept
<1>7. Held(f) => Held(f)'
  BY Zenon, <1>1, <1>2, HeldKept DEF Undecided
<1>8. Sound => Sound'
  BY Zenon, <1>2, <1>5, <1>7 DEF Sound
<1> QED BY Zenon, <1>5, <1>6, <1>8, WorkerQed

(* A thread takes a file, the store lacks the chunk, the file ends, or the
   worker fails.                                                              *)
LEMMA AdvancesStep ==
  ASSUME CaptureAssumption, IInv, NEW f \in File, StartTask(f) \/ PutAbsent(f) \/ EndFile(f) \/ WorkerFails(f)
  PROVE  IInv'
<1> USE DEF IInv
<1>1. Apart
  BY Zenon, WorkerFrame DEF WorkerStep, Worker
<1>2. UNCHANGED <<index, cas>>
  BY DEF StartTask, PutAbsent, EndFile, WorkerFails, diskVars
<1>3. CASE StartTask(f)
  <2>1. task[f].st = "queued" /\ Moves(f, "read", task[f].chunks, task[f].saw)
    BY Zenon, <1>3, StartMoves DEF StartTask
  <2>2. task[f].st \in Active \cup {"queued"} /\ task[f].st \notin Undecided
    BY Zenon, <2>1 DEF Undecided
  <2> QED BY Zenon, <1>1, <1>2, <2>1, <2>2, AdvanceStep
<1>4. CASE PutAbsent(f)
  <2>1. task[f].st = "check" /\ Moves(f, "replace", task[f].chunks, task[f].saw)
    BY Zenon, <1>4, OtherMoves DEF PutAbsent
  <2>2. task[f].st \in Active \cup {"queued"}
    BY Zenon, <2>1 DEF Active
  <2> QED BY Zenon, <1>1, <1>2, <2>1, <2>2, AdvanceStep
<1>5. CASE EndFile(f)
  <2>1. task[f].st = "read" /\ Len(task[f].chunks) >= Len(Body(f)) /\ Moves(f, "ok", task[f].chunks, task[f].saw)
    BY Zenon, <1>5, OtherMoves DEF EndFile
  <2>2. task[f].st \in Active \cup {"queued"} /\ task[f].st \notin Undecided
    BY Zenon, <2>1 DEF Active, Undecided
  <2> QED BY Zenon, <1>1, <1>2, <2>1, <2>2, AdvanceStep
<1>6. CASE WorkerFails(f)
  <2>1. task[f].st \in Active /\ Moves(f, "error", task[f].chunks, task[f].saw)
    BY Zenon, <1>6, OtherMoves DEF WorkerFails
  <2> QED BY Zenon, <1>1, <1>2, <2>1, AdvanceStep
<1> QED BY Zenon, <1>3, <1>4, <1>5, <1>6

(* the planner decides on the next chunk. *)
LEMMA DecideStep ==
  ASSUME CaptureAssumption, IInv, NEW f \in File, Decide(f)
  PROVE  IInv'
<1> USE DEF IInv
<1>1. Apart
  BY Zenon, WorkerFrame DEF WorkerStep, Worker
<1> DEFINE q == task[f].chunks
           c == Body(f)[Len(q) + 1]
           p == Append(q, c)
<1>2. task[f].st = "read" /\ Len(q) < Len(Body(f)) /\ index' = index /\ cas' = cas
  BY DEF Decide, diskVars
<1>3. c \in Chunk /\ \E st \in {"check", "remember", "read"}, saw \in BOOLEAN :
         /\ Moves(f, st, p, saw) /\ (st = "remember" /\ saw => Stored(c))
         /\ st = "read" => index[c] = "yes" \/ c \in Synced
  BY Zenon, DecideMoves
<1>4. PICK st \in {"check", "remember", "read"}, saw \in BOOLEAN :
         /\ Moves(f, st, p, saw) /\ (st = "remember" /\ saw => Stored(c))
         /\ st = "read" => index[c] = "yes" \/ c \in Synced
  BY Zenon, <1>3
<1>5. q \in Seq(Chunk)
  BY Zenon, TaskType
<1>6. /\ p \in Seq(Chunk) /\ Len(p) > 0 /\ p[Len(p)] = c
      /\ \A i \in 1..Len(p) : i = Len(p) \/ (i \in 1..Len(q) /\ p[i] = q[i])
  <2> HIDE DEF q, c
  <2> QED BY <1>3, <1>5, AppendLast
<1>7. \A d : Stored(d)' = Stored(d)
  BY Zenon, <1>2 DEF Stored
<1>8. cas' \in [Chunk -> {"none", "fresh", "old"}] /\ index' \in [Chunk -> {"unknown", "yes", "no"}]
  BY Zenon, <1>2 DEF Types, DiskTypes, WorkTypes
<1>9. /\ Types' /\ CoordInv' /\ Begun' /\ PastRows' /\ RowsDescribeFiles' /\ GcInv' /\ QuietCapturesKept'
      /\ \A g \in File \ {f} : Prefix(g)' /\ (Held(g) => Held(g)')
  <2> HIDE DEF p
  <2>1. task[f].st # "none" /\ st # "none"
    BY Zenon, <1>2, <1>4
  <2> QED BY Zenon, <1>1, <1>4, <1>6, <1>7, <1>8, <2>1, WorkerKeeps
<1>10. Prefix(f)'
  BY Zenon, <1>1, <1>2, <1>4, PrefixGrows
<1>11. ASSUME Sound PROVE Held(f)'
  <2>1. \A i \in 1..Len(q) : Kept(q[i])
    BY Zenon, <1>2, <1>11 DEF Sound, Held, Active, Undecided
  <2>2. st = "read" => Kept(c)
    BY Zenon, <1>3, <1>4, <1>11 DEF Sound, Kept
  <2> HIDE DEF q, c, p
  <2>3. task'[f].chunks = p /\ task'[f].st = st /\ task'[f].saw = saw /\ Here(f)' = p[Len(p)]
    BY Zenon, <1>4 DEF Moves, Here
  <2>4. \A i \in 1..Len(p) : Kept(p[i]) \/ (i = Len(p) /\ st \in Undecided)
    BY Zenon, <1>4, <1>6, <2>1, <2>2 DEF Undecided
  <2>5. \A i : Kept(task[f].chunks[i])' = Kept(p[i])
    BY Zenon, <1>7, <2>3 DEF Kept
  <2>6. st = "remember" /\ saw => Stored(Here(f))'
    BY Zenon, <1>4, <1>6, <1>7, <2>3
  <2> QED BY Zenon, <2>3, <2>4, <2>5, <2>6 DEF Held
<1>12. Sound => Sound'
  <2> HIDE DEF q, c, p
  <2> QED BY Zenon, <1>2, <1>7, <1>9, <1>11 DEF Sound
<1> QED BY Zenon, <1>1, <1>9, <1>10, <1>12, WorkerQed

(* the answer of the store enters the index. *)
LEMMA RememberStep ==
  ASSUME CaptureAssumption, IInv, NEW f \in File, Remember(f)
  PROVE  IInv'
<1> USE DEF IInv
<1>1. Apart
  BY Zenon, WorkerFrame DEF WorkerStep, Worker
<1>2. task[f].st = "remember" /\ cas' = cas /\ index' = [index EXCEPT ![Here(f)] = IF task[f].saw THEN "yes" ELSE "no"]
  BY DEF Remember, diskVars
<1>3. Here(f) \in Chunk /\ task[f].chunks \in Seq(Chunk) /\ Len(task[f].chunks) > 0
  BY Zenon, <1>2, HereType, TaskType DEF Undecided, Begun
<1>4. PICK st \in {"check", "read"} :
         Moves(f, st, task[f].chunks, FALSE) /\ (st = "read" => task[f].saw \/ Here(f) \in Synced)
  BY Zenon, RememberMoves
<1>5. \A d : Stored(d)' = Stored(d)
  BY Zenon, <1>2 DEF Stored
<1>6. cas' \in [Chunk -> {"none", "fresh", "old"}] /\ index' \in [Chunk -> {"unknown", "yes", "no"}]
  BY Zenon, <1>2 DEF Types, DiskTypes, WorkTypes
<1>7. /\ Types' /\ CoordInv' /\ Begun' /\ PastRows' /\ RowsDescribeFiles' /\ GcInv' /\ QuietCapturesKept'
      /\ \A g \in File \ {f} : Prefix(g)' /\ (Held(g) => Held(g)')
  <2>1. task[f].st # "none" /\ st # "none"
    BY Zenon, <1>2, <1>4
  <2> QED BY Zenon, <1>1, <1>3, <1>4, <1>5, <1>6, <2>1, WorkerKeeps
<1>8. task[f].st \in Active \cup {"queued"} /\ st # "ok" /\ st # "remember"
  BY Zenon, <1>2, <1>4 DEF Active
<1>9. Prefix(f)'
  BY Zenon, <1>1, <1>4, <1>8, PrefixKept
<1>10. ASSUME Sound PROVE Sound'
  <2>1. Held(f) /\ (task[f].saw => Stored(Here(f)))
    BY Zenon, <1>2, <1>10 DEF Sound, Held
  <2>2. Here(f)' = Here(f)
    BY Zenon, <1>4 DEF Here, Moves
  <2>3. st \in Undecided \/ Kept(Here(f))'
    BY Zenon, <1>4, <1>5, <2>1, <2>2 DEF Undecided, Kept
  <2>4. Held(f)'
    BY Zenon, <1>4, <1>5, <1>8, <2>1, <2>3, HeldKept
  <2>5. \A c \in Chunk : index'[c] = "yes" => Stored(c)
    BY Zenon, <1>2, <1>3, <1>10, <2>1 DEF Sound, Types, WorkTypes
  <2> QED BY Zenon, <1>5, <1>7, <1>10, <2>4, <2>5 DEF Sound
<1> QED BY Zenon, <1>1, <1>7, <1>9, <1>10, WorkerQed

(* repo.put ends: the chunk was there, or has just been renamed into place.    *)
LEMMA PutStep ==
  ASSUME CaptureAssumption, IInv, NEW f \in File, PutPresent(f) \/ PutReplace(f)
  PROVE  IInv'
<1> USE DEF IInv
<1>1. Apart
  BY Zenon, WorkerFrame DEF WorkerStep, Worker
<1>2. /\ task[f].st \in {"check", "replace"} /\ index' = [index EXCEPT ![Here(f)] = "yes"]
      /\ (cas' = cas /\ Stored(Here(f))) \/ cas' = [cas EXCEPT ![Here(f)] = "fresh"]
  BY DEF PutPresent, PutReplace, diskVars
<1>3. Here(f) \in Chunk /\ task[f].chunks \in Seq(Chunk)
  BY Zenon, <1>2, HereType, TaskType DEF Undecided
<1>4. Moves(f, "read", task[f].chunks, task[f].saw)
  BY Zenon, OtherMoves DEF PutPresent, PutReplace
<1>5. cas' \in [Chunk -> {"none", "fresh", "old"}] /\ index' \in [Chunk -> {"unknown", "yes", "no"}]
  <2>1. cas' \in [Chunk -> {"none", "fresh", "old"}]
    BY Zenon, <1>2 DEF Types, DiskTypes
  <2>2. index' \in [Chunk -> {"unknown", "yes", "no"}]
    BY Zenon, <1>2 DEF Types, WorkTypes
  <2> QED BY Zenon, <2>1, <2>2
<1>6. (\A d \in Chunk : Stored(d) => Stored(d)') /\ cas'[Here(f)] # "none"
  <2>1. cas \in [Chunk -> {"none", "fresh", "old"}] /\ "fresh" # "none"
    BY Zenon DEF Types, DiskTypes
  <2> QED BY Zenon, <1>2, <1>3, <2>1 DEF Stored
<1>7. /\ Types' /\ CoordInv' /\ Begun' /\ PastRows' /\ RowsDescribeFiles' /\ GcInv' /\ QuietCapturesKept'
      /\ \A g \in File \ {f} : Prefix(g)' /\ (Held(g) => Held(g)')
  <2>1. task[f].st # "none" /\ "read" \notin Undecided
    BY Zenon, <1>2 DEF Undecided
  <2> QED BY Zenon, <1>1, <1>3, <1>4, <1>5, <1>6, <2>1, WorkerKeeps
<1>8. task[f].st \in Active \cup {"queued"}
  BY Zenon, <1>2 DEF Active
<1>9. Prefix(f)'
  BY Zenon, <1>1, <1>4, <1>8, PrefixKept
<1>10. ASSUME Sound PROVE Sound'
  <2>1. Held(f)
    BY Zenon, <1>10 DEF Sound
  <2>2. Here(f)' = Here(f)
    BY Zenon, <1>4 DEF Here, Moves
  <2>3. Kept(Here(f))'
    BY Zenon, <1>6, <2>2 DEF Kept, Stored
  <2>4. Held(f)'
    BY Zenon, <1>4, <1>6, <1>8, <2>1, <2>3, HeldKept
  <2>5. \A c \in Chunk : index'[c] = "yes" => Stored(c)'
    <3> SUFFICES ASSUME NEW c \in Chunk, index'[c] = "yes" PROVE Stored(c)'
      BY Zenon
    <3>1. CASE c = Here(f)
      BY Zenon, <1>6, <3>1 DEF Stored
    <3>2. CASE c # Here(f)
      BY Zenon, <1>2, <1>6, <1>10, <3>2 DEF Sound, Types, WorkTypes
    <3> QED BY Zenon, <3>1, <3>2
  <2> QED BY Zenon, <1>7, <1>10, <2>4, <2>5 DEF Sound
<1> QED BY Zenon, <1>1, <1>7, <1>9, <1>10, WorkerQed

-----------------------------------------------------------------------------
(* Parts of the invariant that a step leaves alone with their variables.      *)
LEMMA CoordFrame ==
  ASSUME CoordInv, UNCHANGED <<status, item, cur, pc, reused, pending, todo, task>>
  PROVE  CoordInv'
<1>1. PrevSnapshot' = PrevSnapshot
  BY Zenon DEF PrevSnapshot
<1> QED BY Zenon, <1>1 DEF CoordInv

(* Rows, files and tasks that stay. *)
LEMMA RowFrame ==
  ASSUME RowInv, UNCHANGED <<item, cur, ver, task>>, Snap' = Snap
  PROVE  RowInv'
<1>1. \A f : Body(f)' = Body(f)
  BY Zenon DEF Body
<1>2. PastRows' /\ RowsDescribeFiles'
  BY Zenon, <1>1 DEF RowInv, PastRows, RowsDescribeFiles
<1>3. \A f \in File : Prefix(f)'
  <2> SUFFICES ASSUME NEW f \in File PROVE Prefix(f)'
    BY Zenon
  <2>1. Prefix(f) /\ Body(f)' = Body(f)
    BY Zenon, <1>1 DEF RowInv
  <2> QED BY Zenon, <2>1 DEF Prefix
<1> QED BY Zenon, <1>2, <1>3 DEF RowInv

(* A task and a store that stay. *)
LEMMA HeldFrame ==
  ASSUME NEW f, Held(f), UNCHANGED <<task, cas>>
  PROVE  Held(f)'
  BY Zenon DEF Held, Here, Kept, Stored

(* An index, tasks and a store that stay. *)
LEMMA SoundFrame ==
  ASSUME Sound, UNCHANGED <<task, index, cas>>
  PROVE  Sound'
<1>1. \A f \in File : Held(f)'
  BY Zenon, HeldFrame DEF Sound
<1> QED BY Zenon, <1>1 DEF Sound, Stored

(* A catalog and a collector that stay. *)
LEMMA GcFrame ==
  ASSUME GcInv, UNCHANGED <<item, status, cur, met, gcPc, gcKeep, gcFile>>
  PROVE  GcInv'
<1>1. \A s : Refs(s)' = Refs(s)
  BY Zenon DEF Refs
<1> QED BY Zenon, <1>1 DEF GcInv, Snap

(* A catalog and a store that stay. *)
LEMMA KeptFrame ==
  ASSUME QuietCapturesKept, UNCHANGED <<item, status, met, cas>>
  PROVE  QuietCapturesKept'
<1>1. \A s : Refs(s)' = Refs(s)
  BY Zenon DEF Refs
<1> QED BY Zenon, <1>1 DEF QuietCapturesKept, Snap, Stored

(* A step that changes nothing the invariant speaks of.                       *)
LEMMA StutterStep ==
  ASSUME IInv, UNCHANGED vars
  PROVE  IInv'
<1>1. UNCHANGED <<ver, cas, status, item, cur, mode, pc, todo, reused, pending, task, index, gcPc, gcKeep, gcFile, met>>
  BY DEF vars, diskVars, dbVars, coordVars, workVars, gcVars, history
<1>2. Types' /\ Begun' /\ Snap' = Snap
  BY Zenon, <1>1 DEF IInv, Types, DiskTypes, DbTypes, CoordTypes, WorkTypes, Begun, Snap
<1>3. CoordInv' /\ RowInv' /\ GcInv' /\ QuietCapturesKept'
  BY Zenon, <1>1, <1>2, CoordFrame, RowFrame, GcFrame, KeptFrame DEF IInv, QuietInv
<1>4. WriteInv'
  BY Zenon, <1>1, SoundFrame DEF IInv, QuietInv, WriteInv, Sound
<1> QED BY Zenon, <1>2, <1>3, <1>4 DEF IInv, QuietInv

(* a file is edited. *)
LEMMA EditStep ==
  ASSUME CaptureAssumption, IInv, NEW f \in File, Edit(f)
  PROVE  IInv'
<1> USE DEF IInv
<1>1. UNCHANGED <<cas, status, item, cur, mode, pc, todo, reused, pending, task, index, gcPc, gcKeep, gcFile, met>>
  BY DEF Edit, dbVars, coordVars, workVars, gcVars
<1>2. ver \in [File -> 0..MaxVer] /\ ver' = [ver EXCEPT ![f] = ver[f] + 1] /\ ver[f] < MaxVer
  BY Zenon DEF Types, DiskTypes, Edit
<1>3. ver' \in [File -> 0..MaxVer] /\ ver'[f] > ver[f] /\ \A g \in File : ver[g] \in Int /\ ver'[g] \in Int /\ ver[g] <= ver'[g] /\ (g # f => ver'[g] = ver[g])
  BY <1>2 DEF CaptureAssumption
<1>4. Types' /\ Begun' /\ Snap' = Snap
  BY Zenon, <1>1, <1>3 DEF Types, DiskTypes, DbTypes, CoordTypes, WorkTypes, Begun, Snap
<1>5. CoordInv' /\ GcInv' /\ QuietCapturesKept'
  BY Zenon, <1>1, CoordFrame, GcFrame, KeptFrame DEF QuietInv
<1>6. WriteInv'
  BY Zenon, <1>1, SoundFrame DEF QuietInv, WriteInv, Sound
<1>7. \A s \in Snap : \A g \in File : item[s][g].ver <= ver'[g] /\ (g = f => item[s][g].ver # ver'[g])
  <2> SUFFICES ASSUME NEW s \in Snap, NEW g \in File PROVE item[s][g].ver <= ver'[g] /\ (g = f => item[s][g].ver # ver'[g])
    BY Zenon
  <2>1. item[s][g].ver <= ver[g] /\ item[s][g].ver \in Int
    BY Zenon, RowType DEF RowInv, PastRows
  <2>2. ver[g] \in Int /\ ver'[g] \in Int /\ ver[g] <= ver'[g] /\ (g = f => ver'[g] > ver[g])
    BY Zenon, <1>3
  <2> DEFINE a == item[s][g].ver
             b == ver[g]
             d == ver'[g]
  <2> HIDE DEF a, b, d
  <2>3. a <= b /\ a \in Int /\ b \in Int /\ d \in Int /\ b <= d /\ (g = f => d > b)
    BY Zenon, <2>1, <2>2 DEF a, b, d
  <2>4. a <= d /\ (g = f => a # d)
    BY <2>3
  <2> QED BY Zenon, <2>4 DEF a, d
<1>8. \A g \in File : g # f => Body(g)' = Body(g)
  BY Zenon, <1>3 DEF Body
<1>9. PastRows' /\ RowsDescribeFiles'
  BY Zenon, <1>1, <1>3, <1>4, <1>7, <1>8 DEF RowInv, PastRows, RowsDescribeFiles
<1>10. ASSUME NEW g \in File PROVE Prefix(g)'
  <2>1. CASE g # f
    <3>1. Prefix(g) /\ Body(g)' = Body(g) /\ ver'[g] = ver[g]
      BY Zenon, <1>3, <1>8, <2>1 DEF RowInv
    <3> QED BY Zenon, <1>1, <3>1 DEF Prefix
  <2>2. CASE g = f /\ task[g].st \in Active \cup {"queued", "ok"}
    <3>1. task[g].st # "none"
      BY Zenon, <2>2 DEF Active
    <3>2. cur # 0
      BY Zenon, <3>1 DEF CoordInv
    <3>3. pc # "idle"
      BY Zenon, <3>2 DEF Types, CoordTypes
    <3>4. cur \in Snap
      BY Zenon, <3>3, Running1
    <3> QED BY Zenon, <1>1, <1>7, <2>2, <3>4 DEF Prefix
  <2>3. CASE task[g].st \notin Active \cup {"queued", "ok"}
    BY Zenon, <1>1, <2>3 DEF Prefix
  <2> QED BY Zenon, <2>1, <2>2, <2>3
<1>11. RowInv'
  BY Zenon, <1>9, <1>10 DEF RowInv
<1> QED BY Zenon, <1>4, <1>5, <1>6, <1>11 DEF QuietInv

(* Facts of the store that a chunk's age does not touch.                      *)
LEMMA AgeStep ==
  ASSUME CaptureAssumption, IInv, NEW c \in Chunk, Age(c)
  PROVE  IInv'
<1> USE DEF IInv
<1>1. UNCHANGED <<ver, status, item, cur, mode, pc, todo, reused, pending, task, index, gcPc, gcKeep, gcFile, met>>
  BY DEF Age, dbVars, coordVars, workVars, gcVars, history
<1>2. cas \in [Chunk -> {"none", "fresh", "old"}] /\ cas' = [cas EXCEPT ![c] = "old"] /\ cas[c] = "fresh"
  BY Zenon DEF Types, DiskTypes, Age
<1>3. cas' \in [Chunk -> {"none", "fresh", "old"}] /\ \A d \in Chunk : Stored(d)' = Stored(d)
  BY <1>2 DEF Stored
<1>4. Types' /\ Begun' /\ Snap' = Snap
  BY Zenon, <1>1, <1>3 DEF Types, DiskTypes, DbTypes, CoordTypes, WorkTypes, Begun, Snap
<1>5. CoordInv' /\ GcInv' /\ RowInv'
  BY Zenon, <1>1, <1>4, CoordFrame, GcFrame, RowFrame DEF QuietInv
<1>6. QuietCapturesKept'
  <2>1. \A s \in Snap : Refs(s)' = Refs(s) /\ Refs(s) \subseteq Chunk
    <3>1. \A s : Refs(s)' = Refs(s)
      BY Zenon, <1>1 DEF Refs
    <3> QED BY Zenon, <3>1, RefsAre
  <2> QED BY Zenon, <1>1, <1>3, <1>4, <2>1 DEF QuietInv, QuietCapturesKept
<1>7. ASSUME NEW f \in File, Held(f) PROVE Held(f)'
  <2>1. \A i \in 1..Len(task[f].chunks) : task[f].chunks[i] \in Chunk
    <3>1. task[f].chunks \in Seq(Chunk)
      BY Zenon, TaskType
    <3> QED BY <3>1
  <2>2. task[f].st = "remember" => Here(f) \in Chunk
    BY Zenon, HereType DEF Undecided
  <2>3. Here(f)' = Here(f)
    BY Zenon, <1>1 DEF Here
  <2>4. task'[f] = task[f]
    BY Zenon, <1>1
  <2> QED BY Zenon, <1>3, <1>7, <2>1, <2>2, <2>3, <2>4 DEF Held, Kept
<1>8. WriteInv'
  BY Zenon, <1>1, <1>3, <1>7 DEF QuietInv, WriteInv
<1> QED BY Zenon, <1>4, <1>5, <1>6, <1>8 DEF QuietInv

-----------------------------------------------------------------------------
(* The collector touches its own variables, the store and the history.        *)
GcApart == UNCHANGED <<ver, status, item, cur, mode, pc, todo, reused, pending, task, index>>

(* What the invariant needs of a step of the collector. *)
LEMMA GcKeeps ==
  ASSUME IInv, GcApart, cas' \in [Chunk -> {"none", "fresh", "old"}], met' \in [1..MaxSnap -> BOOLEAN],
         GcInv', WriteInv', QuietCapturesKept'
  PROVE  IInv'
<1>1. Types' /\ Begun' /\ Snap' = Snap
  BY Zenon DEF IInv, GcApart, Types, DiskTypes, DbTypes, CoordTypes, WorkTypes, Begun, Snap
<1>2. CoordInv' /\ RowInv'
  BY Zenon, <1>1, CoordFrame, RowFrame DEF IInv, GcApart
<1> QED BY Zenon, <1>1, <1>2 DEF IInv, QuietInv

(* the collector reads the catalog. *)
LEMMA GcProtectStep ==
  ASSUME CaptureAssumption, IInv, GcProtect
  PROVE  IInv'
<1> USE DEF IInv
<1>1. GcApart /\ cas' = cas /\ gcFile' = gcFile
  BY DEF GcProtect, GcApart, diskVars, dbVars, coordVars, workVars
<1>2. gcPc = "idle" /\ gcKeep' = Live(Alive) /\ met' = (IF cur = 0 THEN met ELSE [met EXCEPT ![cur] = TRUE])
  BY Zenon DEF GcProtect, Alive
<1>3. /\ met' \in [1..MaxSnap -> BOOLEAN] /\ \A s \in 1..MaxSnap : met[s] => met'[s]
      /\ cur # 0 => met'[cur]
  <2>1. cur # 0 => cur \in 1..MaxSnap
    BY Zenon, Running1 DEF Types, CoordTypes
  <2>2. met \in [1..MaxSnap -> BOOLEAN]
    BY Zenon DEF Types
  <2> QED BY Zenon, <1>2, <2>1, <2>2
<1>4. Snap' = Snap /\ status' = status /\ cur' = cur /\ \A s : Refs(s)' = Refs(s)
  BY Zenon, <1>1 DEF GcApart, Snap, Refs
<1>5. \A s \in Snap : status[s] \in Alive => Refs(s) \subseteq gcKeep'
  BY Zenon, <1>2 DEF Live
<1>6. GcInv'
  <2>1. gcFile' = {}
    BY Zenon, <1>1, <1>2 DEF QuietInv, GcInv
  <2> QED BY Zenon, <1>3, <1>4, <1>5, <2>1 DEF GcInv
<1>7. WriteInv'
  BY Zenon, <1>3, <1>4 DEF WriteInv
<1>8. QuietCapturesKept'
  <2>1. \A s \in Snap : 1..s \subseteq 1..MaxSnap
    BY DEF Snap, Types, DbTypes, CaptureAssumption
  <2>2. \A c : Stored(c)' = Stored(c)
    BY Zenon, <1>1 DEF Stored
  <2> QED BY Zenon, <1>3, <1>4, <2>1, <2>2 DEF QuietInv, QuietCapturesKept
<1>9. cas' \in [Chunk -> {"none", "fresh", "old"}]
  BY Zenon, <1>1 DEF Types, DiskTypes
<1> QED BY Zenon, <1>1, <1>3, <1>6, <1>7, <1>8, <1>9, GcKeeps

(* the collector chooses a candidate, looks at it again, or ends. *)
LEMMA GcLookStep ==
  ASSUME CaptureAssumption, IInv, GcRecheck \/ GcEnd \/ \E c \in Chunk : GcVisit(c)
  PROVE  IInv'
<1> USE DEF IInv
<1>1. GcApart /\ UNCHANGED <<cas, met>>
  <2>1. CASE GcRecheck
    BY <2>1 DEF GcRecheck, GcApart, diskVars, dbVars, coordVars, workVars, history
  <2>2. CASE GcEnd
    BY <2>2 DEF GcEnd, GcApart, diskVars, dbVars, coordVars, workVars, history
  <2>3. ASSUME NEW c \in Chunk, GcVisit(c) PROVE GcApart /\ UNCHANGED <<cas, met>>
    BY <2>3 DEF GcVisit, GcApart, diskVars, dbVars, coordVars, workVars, history
  <2> QED BY Zenon, <2>1, <2>2, <2>3
<1>2. /\ gcPc' # "idle" => gcPc # "idle" /\ gcKeep' = gcKeep
      /\ gcFile' \cap gcKeep' = {} /\ (gcPc' = "idle" => gcFile' = {})
  <2>1. CASE GcRecheck
    BY Zenon, <2>1 DEF GcRecheck, QuietInv, GcInv
  <2>2. CASE GcEnd
    BY Zenon, <2>2 DEF GcEnd
  <2>3. ASSUME NEW c \in Chunk, GcVisit(c) PROVE <1>2!1 /\ <1>2!2
    BY Zenon, <2>3 DEF GcVisit
  <2> QED BY Zenon, <2>1, <2>2, <2>3
<1>3. Snap' = Snap /\ status' = status /\ cur' = cur /\ met' = met /\ \A s : Refs(s)' = Refs(s)
  BY Zenon, <1>1 DEF GcApart, Snap, Refs
<1>4. GcInv'
  BY Zenon, <1>2, <1>3 DEF QuietInv, GcInv
<1>5. WriteInv'
  BY Zenon, <1>1, SoundFrame DEF QuietInv, WriteInv, Sound, GcApart
<1>6. QuietCapturesKept'
  BY Zenon, <1>1, KeptFrame DEF QuietInv, GcApart
<1>7. cas' \in [Chunk -> {"none", "fresh", "old"}] /\ met' \in [1..MaxSnap -> BOOLEAN]
  BY Zenon, <1>1 DEF Types, DiskTypes
<1> QED BY Zenon, <1>1, <1>4, <1>5, <1>6, <1>7, GcKeeps

(* the collector removes its candidate. *)
LEMMA GcUnlinkStep ==
  ASSUME CaptureAssumption, IInv, GcUnlink
  PROVE  IInv'
<1> USE DEF IInv
<1>1. GcApart /\ met' = met /\ gcKeep' = gcKeep
  BY DEF GcUnlink, GcApart, diskVars, dbVars, coordVars, workVars, history
<1>2. gcPc = "unlink" /\ gcPc' = "scan" /\ gcFile' = {} /\ cas' = [c \in Chunk |-> IF c \in gcFile THEN "none" ELSE cas[c]]
  BY Zenon DEF GcUnlink
<1>3. gcPc # "idle" /\ gcPc' # "idle"
  BY Zenon, <1>2
<1>4. Snap' = Snap /\ status' = status /\ cur' = cur /\ met' = met /\ \A s : Refs(s)' = Refs(s)
  BY Zenon, <1>1 DEF GcApart, Snap, Refs
<1>5. GcInv'
  BY Zenon, <1>1, <1>2, <1>3, <1>4 DEF QuietInv, GcInv
<1>6. WriteInv'
  BY Zenon, <1>3, <1>4 DEF QuietInv, GcInv, WriteInv
<1>7. cas' \in [Chunk -> {"none", "fresh", "old"}] /\ met' \in [1..MaxSnap -> BOOLEAN]
  BY Zenon, <1>1, <1>2 DEF Types, DiskTypes
<1>8. QuietCapturesKept'
  <2> SUFFICES ASSUME NEW s \in Snap, status[s] \in Alive, \A t \in 1..s : ~met[t], NEW c \in Refs(s)
               PROVE  Stored(c)' \/ c \in Synced
    BY Zenon, <1>4 DEF QuietCapturesKept, Alive
  <2>1. c \in Chunk /\ s \in 1..s
    <3>1. s \in 1..s
      BY DEF Snap
    <3> QED BY Zenon, <3>1, RefsAre
  <2>2. ~met[s]
    BY Zenon, <2>1
  <2>3. s # cur
    <3>1. cur # 0 => met[cur]
      BY Zenon, <1>3 DEF QuietInv, GcInv
    <3>2. s # 0
      BY DEF Snap
    <3> QED BY Zenon, <2>2, <3>1, <3>2
  <2>4. c \in gcKeep
    BY Zenon, <1>3, <2>2, <2>3 DEF QuietInv, GcInv
  <2>5. cas'[c] = cas[c]
    BY Zenon, <1>2, <2>1, <2>4 DEF QuietInv, GcInv
  <2>6. Stored(c) \/ c \in Synced
    BY Zenon DEF QuietInv, QuietCapturesKept, Alive
  <2> QED BY Zenon, <2>5, <2>6 DEF Stored
<1> QED BY Zenon, <1>1, <1>5, <1>6, <1>7, <1>8, GcKeeps

-----------------------------------------------------------------------------
(* The coordinator leaves the files, the store and the collector alone.       *)
Elsewhere == UNCHANGED <<ver, cas, gcPc, gcKeep, gcFile, met>>

(* a step that only moves the coordinator on. *)
LEMMA MoveStep ==
  ASSUME CaptureAssumption, IInv, BatchSubmitted \/ WaitFutures \/ Raise \/ LeavePool
  PROVE  IInv'
<1> USE DEF IInv
<1>1. Elsewhere /\ UNCHANGED <<status, item, cur, todo, reused, pending, task, index>>
  <2>1. CASE BatchSubmitted
    BY <2>1 DEF BatchSubmitted, Elsewhere, diskVars, dbVars, workVars, gcVars, history
  <2>2. CASE WaitFutures
    BY <2>2 DEF WaitFutures, Elsewhere, diskVars, dbVars, workVars, gcVars, history
  <2>3. CASE Raise
    BY <2>3 DEF Raise, Elsewhere, diskVars, dbVars, workVars, gcVars
  <2>4. CASE LeavePool
    BY <2>4 DEF LeavePool, Elsewhere, diskVars, dbVars, workVars, gcVars, history
  <2> QED BY Zenon, <2>1, <2>2, <2>3, <2>4
<1>2. pc # "idle" /\ pc' # "idle" /\ pc' # "reuse" /\ (pc' \in Open => pc \in Open)
  <2>1. CASE BatchSubmitted
    BY <2>1 DEF BatchSubmitted, Open
  <2>2. CASE WaitFutures
    BY <2>2 DEF WaitFutures, Open
  <2>3. CASE Raise
    BY <2>3 DEF Raise, Open
  <2>4. CASE LeavePool
    BY <2>4 DEF LeavePool, Open
  <2> QED BY Zenon, <2>1, <2>2, <2>3, <2>4
<1>3. Types' /\ Begun' /\ Snap' = Snap
  BY Zenon, <1>1, <1>2 DEF Elsewhere, Types, DiskTypes, DbTypes, CoordTypes, WorkTypes, Begun, Snap
<1>4. CoordInv'
  BY Zenon, <1>1, <1>2 DEF CoordInv
<1>5. RowInv' /\ GcInv' /\ QuietCapturesKept'
  BY Zenon, <1>1, <1>3, RowFrame, GcFrame, KeptFrame DEF QuietInv, Elsewhere
<1>6. WriteInv'
  BY Zenon, <1>1, SoundFrame DEF QuietInv, WriteInv, Sound, Elsewhere
<1> QED BY Zenon, <1>3, <1>4, <1>5, <1>6 DEF QuietInv

(* the snapshot is settled. *)
LEMMA SettleEffect ==
  ASSUME CaptureAssumption, Types, CoordInv, FinishSnapshot \/ FailSnapshot
  PROVE  /\ status' \in Seq(Status) /\ Len(status') = Len(status)
         /\ \A s \in Snap : status'[s] # status[s] => s = cur /\ status[s] = "CREATING"
         /\ pc # "idle" /\ pc' \in {"closing", "fail", "end"}
<1>1. pc # "idle" /\ pc' \in {"closing", "fail", "end"}
  BY Zenon DEF FinishSnapshot, FailSnapshot
<1>2. cur \in 1..Len(status) /\ Snap = 1..Len(status) /\ status \in Seq(Status)
  BY Zenon, <1>1, Running1 DEF Types, DbTypes, Snap
<1>3. \/ status' = status
      \/ status[cur] = "CREATING" /\ \E x \in Status : status' = [status EXCEPT ![cur] = x]
  <2>1. CASE FinishSnapshot
    <3>1. status[cur] = "CREATING"
      BY Zenon, <2>1 DEF FinishSnapshot, CoordInv, Open
    <3> QED BY Zenon, <2>1, <3>1 DEF FinishSnapshot, Status
  <2>2. CASE FailSnapshot
    BY Zenon, <2>2 DEF FailSnapshot, Status
  <2> QED BY Zenon, <2>1, <2>2
<1>4. CASE status' = status
  BY Zenon, <1>1, <1>2, <1>4
<1>5. ASSUME status[cur] = "CREATING", NEW x \in Status, status' = [status EXCEPT ![cur] = x]
      PROVE  /\ status' \in Seq(Status) /\ Len(status') = Len(status)
             /\ \A s \in Snap : status'[s] # status[s] => s = cur /\ status[s] = "CREATING"
  <2>1. /\ status' \in Seq(Status) /\ Len(status') = Len(status)
        /\ \A j \in 1..Len(status) : j # cur => status'[j] = status[j]
    BY <1>2, <1>5, SeqExcept
  <2> QED BY Zenon, <1>2, <1>5, <2>1
<1> QED BY Zenon, <1>1, <1>3, <1>4, <1>5

(* finish_snapshot and fail_snapshot. *)
LEMMA SettleStep ==
  ASSUME CaptureAssumption, IInv, FinishSnapshot \/ FailSnapshot
  PROVE  IInv'
<1> USE DEF IInv
<1>1. Elsewhere /\ UNCHANGED <<item, cur, todo, reused, pending, task, index>>
  <2>1. CASE FinishSnapshot
    BY <2>1 DEF FinishSnapshot, Elsewhere, diskVars, workVars, gcVars, history
  <2>2. CASE FailSnapshot
    BY <2>2 DEF FailSnapshot, Elsewhere, diskVars, workVars, gcVars, history
  <2> QED BY Zenon, <2>1, <2>2
<1>2. /\ status' \in Seq(Status) /\ Len(status') = Len(status)
      /\ \A s \in Snap : status'[s] # status[s] => s = cur /\ status[s] = "CREATING"
      /\ pc # "idle" /\ pc' \in {"closing", "fail", "end"}
  BY Zenon, SettleEffect
<1>3. pc' # "idle" /\ pc' # "reuse" /\ pc' \notin Open
  BY Zenon, <1>2 DEF Open
<1>4. Types' /\ Begun' /\ Snap' = Snap
  BY Zenon, <1>1, <1>2, <1>3 DEF Elsewhere, Types, DiskTypes, DbTypes, CoordTypes, WorkTypes, Begun, Snap
<1>5. CoordInv'
  BY Zenon, <1>1, <1>3 DEF CoordInv
<1>6. RowInv'
  BY Zenon, <1>1, <1>4, RowFrame DEF Elsewhere
<1>7. \A s : Refs(s)' = Refs(s)
  BY Zenon, <1>1 DEF Refs
<1>8. GcInv'
  BY Zenon, <1>1, <1>2, <1>4, <1>7 DEF QuietInv, GcInv, Elsewhere
<1>9. \A s \in Snap : status'[s] \in Alive => status[s] \in Alive
  BY Zenon, <1>2 DEF Alive
<1>10. QuietCapturesKept'
  BY Zenon, <1>1, <1>4, <1>7, <1>9 DEF QuietInv, QuietCapturesKept, Alive, Elsewhere, Stored
<1>11. WriteInv'
  BY Zenon, <1>1, SoundFrame DEF QuietInv, WriteInv, Sound, Elsewhere
<1> QED BY Zenon, <1>4, <1>5, <1>6, <1>8, <1>10, <1>11 DEF QuietInv

(* the process is gone. *)
LEMMA GoneStep ==
  ASSUME CaptureAssumption, IInv, Close \/ Crash
  PROVE  IInv'
<1> USE DEF IInv
<1>1. NoCapture
  BY Zenon DEF Close, Crash
<1>2. Elsewhere /\ status' = status /\ item' = item
  BY <1>1 DEF NoCapture, Elsewhere, diskVars, dbVars, gcVars
<1>3. /\ pc' = "idle" /\ cur' = 0 /\ todo' = {} /\ reused' = {} /\ pending' = {}
      /\ task' = [f \in File |-> Idle] /\ index' = [c \in Chunk |-> "unknown"]
  BY Zenon, <1>1 DEF NoCapture
<1>4. Idle \in TaskRecord /\ Idle.st = "none" /\ "idle" \notin Open
  BY DEF Idle, TaskRecord, Open
<1>5. \A f \in File : task'[f] = Idle /\ task'[f].st = "none"
  BY Zenon, <1>3, <1>4
<1>6. Types' /\ Begun' /\ Snap' = Snap
  <2>1. task' \in [File -> TaskRecord] /\ index' \in [Chunk -> {"unknown", "yes", "no"}]
    BY Zenon, <1>3, <1>4
  <2>2. Snap' = Snap
    BY Zenon, <1>2 DEF Snap
  <2>3. Begun'
    BY Zenon, <1>5 DEF Begun, Undecided
  <2>4. CoordTypes'
    BY Zenon, <1>2, <1>3 DEF CoordTypes
  <2>5. DiskTypes' /\ DbTypes' /\ met' \in [1..MaxSnap -> BOOLEAN]
    BY Zenon, <1>2 DEF Types, DiskTypes, DbTypes, Elsewhere
  <2> QED BY Zenon, <2>1, <2>2, <2>3, <2>4, <2>5 DEF Types, WorkTypes
<1>7. CoordInv'
  <2>1. pc' # "reuse" /\ pc' \notin Open
    BY Zenon, <1>3, <1>4
  <2> QED BY Zenon, <1>3, <1>5, <2>1 DEF CoordInv
<1>8. RowInv'
  <2>1. PastRows' /\ RowsDescribeFiles'
    BY Zenon, <1>2, <1>6 DEF Elsewhere, RowInv, PastRows, RowsDescribeFiles, Body
  <2>2. \A f \in File : Prefix(f)'
    BY Zenon, <1>5 DEF Prefix, Active
  <2> QED BY Zenon, <2>1, <2>2 DEF RowInv
<1>9. \A s : Refs(s)' = Refs(s)
  BY Zenon, <1>2 DEF Refs
<1>10. GcInv'
  <2>1. gcPc # "idle" => \A s \in Snap : status[s] \in Alive /\ ~met[s] => Refs(s) \subseteq gcKeep
    <3>1. 0 \notin Snap
      BY DEF Snap
    <3> QED BY Zenon, <3>1 DEF QuietInv, GcInv
  <2> QED BY Zenon, <1>2, <1>3, <1>6, <1>9, <2>1 DEF QuietInv, GcInv, Elsewhere
<1>11. WriteInv'
  BY Zenon, <1>3 DEF WriteInv
<1>12. QuietCapturesKept'
  BY Zenon, <1>2, KeptFrame DEF QuietInv, Elsewhere
<1> QED BY Zenon, <1>6, <1>7, <1>8, <1>10, <1>11, <1>12 DEF QuietInv

(* a capture begins. *)
LEMMA CreateSnapshotStep ==
  ASSUME CaptureAssumption, IInv, CreateSnapshot
  PROVE  IInv'
<1> USE DEF IInv
<1>1. UNCHANGED <<ver, cas, gcPc, gcKeep, gcFile>>
  BY DEF CreateSnapshot, diskVars, gcVars
<1>2. /\ pc' = "walk" /\ todo' = File /\ reused' = {} /\ pending' = {}
      /\ task' = [f \in File |-> Idle] /\ index' = [c \in Chunk |-> "unknown"]
  BY Zenon DEF CreateSnapshot
<1>3. /\ status' \in Seq(Status) /\ Len(status') = Len(status) + 1 /\ Len(status') <= MaxSnap
      /\ item' \in Seq([File -> Row]) /\ Len(item') = Len(status')
      /\ cur = 0 /\ cur' = Len(status') /\ cur' # 0 /\ cur' \notin Snap /\ Snap' = Snap \cup {cur'}
      /\ (\A s \in Snap : status'[s] = status[s] /\ item'[s] = item[s])
      /\ status'[cur'] = "CREATING" /\ \A f \in File : item'[cur'][f] = NoItem
      /\ met' \in [1..MaxSnap -> BOOLEAN] /\ met'[cur'] = (gcPc # "idle")
      /\ \A s \in Snap : met'[s] = met[s]
  BY Zenon, CreateEffect
<1>4. Idle \in TaskRecord /\ Idle.st = "none" /\ NoItem.ver = -1 /\ NoItem.recipe = NoRecipe
  BY DEF Idle, TaskRecord, NoItem
<1>5. \A f \in File : task'[f] = Idle /\ task'[f].st = "none"
  BY Zenon, <1>2, <1>4
<1>6. Types' /\ Begun'
  <2>1. task' \in [File -> TaskRecord] /\ index' \in [Chunk -> {"unknown", "yes", "no"}]
    BY Zenon, <1>2, <1>4
  <2>2. Begun'
    BY Zenon, <1>5 DEF Begun, Undecided
  <2>3. CoordTypes'
    BY Zenon, <1>2, <1>3 DEF CoordTypes
  <2>4. DiskTypes' /\ DbTypes'
    BY Zenon, <1>1, <1>3 DEF Types, DiskTypes, DbTypes
  <2> QED BY Zenon, <1>3, <2>1, <2>2, <2>3, <2>4 DEF Types, WorkTypes
<1>7. CoordInv'
  BY Zenon, <1>2, <1>3, <1>5 DEF CoordInv
<1>8. RowInv'
  <2>1. \A f \in File : NoItem.ver <= ver[f]
    BY <1>4 DEF Types, DiskTypes, CaptureAssumption
  <2>2. \A f \in File : item'[cur'][f].ver <= ver[f] /\ item'[cur'][f].recipe = NoRecipe
    BY Zenon, <1>3, <1>4, <2>1
  <2>3. ASSUME NEW s \in Snap', NEW f \in File
        PROVE  /\ item'[s][f].ver <= ver[f]
               /\ item'[s][f].ver = ver[f] /\ item'[s][f].recipe # NoRecipe => item'[s][f].recipe = Body(f)
    <3>1. CASE s = cur'
      BY Zenon, <2>2, <3>1
    <3>2. CASE s \in Snap
      <4>1. item'[s] = item[s]
        BY Zenon, <1>3, <3>2
      <4> QED BY Zenon, <3>2, <4>1 DEF RowInv, PastRows, RowsDescribeFiles
    <3> QED BY Zenon, <1>3, <3>1, <3>2
  <2>4. ver' = ver /\ \A f : Body(f)' = Body(f)
    BY Zenon, <1>1 DEF Body
  <2>5. PastRows' /\ RowsDescribeFiles'
    BY Zenon, <2>3, <2>4 DEF PastRows, RowsDescribeFiles
  <2>6. \A f \in File : Prefix(f)'
    BY Zenon, <1>5 DEF Prefix, Active
  <2> QED BY Zenon, <2>5, <2>6 DEF RowInv
<1>9. (\A s \in Snap : Refs(s)' = Refs(s)) /\ Refs(cur)' = {}
  <2>1. ASSUME NEW s \in Snap PROVE Refs(s)' = Refs(s)
    <3>1. item'[s] = item[s]
      BY Zenon, <1>3
    <3> QED BY Zenon, <3>1 DEF Refs
  <2>2. Refs(cur)' = {}
    BY Zenon, <1>3, <1>4 DEF Refs
  <2> QED BY Zenon, <2>1, <2>2
<1>10. GcInv'
  <2>1. 0 \notin Snap
    BY DEF Snap
  <2>2. ASSUME NEW s \in Snap', gcPc # "idle", s # cur', status'[s] \in Alive, ~met'[s] PROVE Refs(s)' \subseteq gcKeep
    <3>1. s \in Snap /\ s # cur
      BY Zenon, <1>3, <2>1, <2>2
    <3>2. status[s] \in Alive /\ ~met[s] /\ Refs(s)' = Refs(s)
      BY Zenon, <1>3, <1>9, <2>2, <3>1
    <3> QED BY Zenon, <2>2, <3>1, <3>2 DEF QuietInv, GcInv
  <2>3. gcFile' \cap gcKeep' = {} /\ (gcPc' = "idle" => gcFile' = {})
    BY Zenon, <1>1 DEF QuietInv, GcInv
  <2> QED BY Zenon, <1>1, <1>3, <2>2, <2>3 DEF GcInv
<1>11. WriteInv'
  <2>1. \A f \in File : Held(f)'
    BY Zenon, <1>5 DEF Held, Active
  <2>2. \A c \in Chunk : index'[c] = "unknown"
    BY Zenon, <1>2
  <2> QED BY Zenon, <2>1, <2>2 DEF WriteInv
<1>12. QuietCapturesKept'
  <2>1. \A s \in Snap : 1..s \subseteq Snap
    BY DEF Snap, Types, DbTypes
  <2> SUFFICES ASSUME NEW s \in Snap', status'[s] \in Alive, \A t \in 1..s : ~met'[t], NEW c \in Refs(s)'
               PROVE  Stored(c)' \/ c \in Synced
    BY Zenon DEF QuietCapturesKept, Alive
  <2>2. s # cur'
    BY Zenon, <1>9
  <2>3. s \in Snap
    BY Zenon, <1>3, <2>2
  <2>4. status[s] \in Alive /\ c \in Refs(s) /\ \A t \in 1..s : ~met[t]
    BY Zenon, <1>3, <1>9, <2>1, <2>3
  <2>5. Stored(c) \/ c \in Synced
    BY Zenon, <2>3, <2>4 DEF QuietInv, QuietCapturesKept, Alive
  <2> QED BY Zenon, <1>1, <2>5 DEF Stored
<1> QED BY Zenon, <1>6, <1>7, <1>8, <1>10, <1>11, <1>12 DEF QuietInv

(* The task of a file that waits for a thread.                                *)
LEMMA QueuedRecord ==
  /\ [Idle EXCEPT !.st = "queued"] \in TaskRecord /\ [Idle EXCEPT !.st = "queued"].st = "queued"
  /\ [Idle EXCEPT !.st = "queued"].chunks = <<>>
<1>1. Idle \in TaskRecord /\ Idle.chunks = <<>>
  BY DEF Idle, TaskRecord
<1>2. \A r \in TaskRecord : /\ [r EXCEPT !.st = "queued"] \in TaskRecord /\ [r EXCEPT !.st = "queued"].st = "queued"
                            /\ [r EXCEPT !.st = "queued"].chunks = r.chunks
  BY DEF TaskRecord
<1> QED BY Zenon, <1>1, <1>2

(* Rows that stay refer to what they did.                                     *)
LEMMA RefsSame ==
  ASSUME NEW s, item'[s] = item[s]
  PROVE  Refs(s)' = Refs(s)
  BY Zenon DEF Refs

(* a file is handed to the pool. *)
LEMMA SubmitStep ==
  ASSUME CaptureAssumption, IInv, NEW f \in File, Submit(f)
  PROVE  IInv'
<1> USE DEF IInv
<1>1. Elsewhere /\ UNCHANGED <<status, item, cur, todo, reused, index>>
  BY DEF Submit, Elsewhere, diskVars, dbVars, gcVars, history
<1>2. /\ pc = "submit" /\ f \in pending /\ pending' = pending \ {f} /\ pc' \in {"waitFirst", "submit"}
      /\ task' = [task EXCEPT ![f] = [Idle EXCEPT !.st = "queued"]]
  BY Zenon DEF Submit
<1>3. /\ [Idle EXCEPT !.st = "queued"] \in TaskRecord /\ [Idle EXCEPT !.st = "queued"].st = "queued"
      /\ [Idle EXCEPT !.st = "queued"].chunks = <<>>
  BY Zenon, QueuedRecord
<1>4. /\ task' \in [File -> TaskRecord] /\ (\A g \in File : g # f => task'[g] = task[g])
      /\ task'[f].st = "queued" /\ task'[f].chunks = <<>>
  BY Zenon, <1>2, <1>3 DEF Types, WorkTypes
<1>5. pc # "idle" /\ pc' # "idle" /\ pc' # "reuse" /\ pc \in Open /\ cur # 0
  <2>1. pc # "idle" /\ pc' # "idle" /\ pc' # "reuse" /\ pc \in Open
    BY Zenon, <1>2 DEF Open
  <2> QED BY Zenon, <2>1 DEF Types, CoordTypes
<1>6. Types' /\ Snap' = Snap
  BY Zenon, <1>1, <1>2, <1>4, <1>5 DEF Elsewhere, Types, DiskTypes, DbTypes, CoordTypes, WorkTypes, Snap
<1>7. Begun'
  BY Zenon, <1>4 DEF Begun, Undecided
<1>8. CoordInv'
  <2>1. f \notin todo
    BY Zenon, <1>2 DEF CoordInv
  <2>2. pending' \cap todo' = {}
    BY Zenon, <1>1, <1>2 DEF CoordInv
  <2>3. \A g \in File : task'[g].st # "none" => cur' # 0 /\ g \notin todo'
    BY Zenon, <1>1, <1>4, <1>5, <2>1 DEF CoordInv
  <2> QED BY Zenon, <1>1, <1>5, <2>2, <2>3 DEF CoordInv
<1>9. RowInv'
  <2>1. PastRows' /\ RowsDescribeFiles'
    BY Zenon, <1>1, <1>6 DEF Elsewhere, RowInv, PastRows, RowsDescribeFiles, Body
  <2>2. ASSUME NEW g \in File, g # f PROVE Prefix(g)'
    <3>1. Prefix(g) /\ Body(g)' = Body(g) /\ task'[g] = task[g]
      BY Zenon, <1>1, <1>4, <2>2 DEF RowInv, Elsewhere, Body
    <3> QED BY Zenon, <1>1, <3>1 DEF Prefix, Elsewhere
  <2>3. Prefix(f)'
    <3>1. Len(task'[f].chunks) = 0 /\ 1..Len(task'[f].chunks) = {} /\ 0 <= Len(Body(f))
      BY <1>4, BodyType
    <3>2. Body(f)' = Body(f)
      BY Zenon, <1>1 DEF Elsewhere, Body
    <3> QED BY Zenon, <1>4, <3>1, <3>2 DEF Prefix
  <2> QED BY Zenon, <2>1, <2>2, <2>3 DEF RowInv
<1>10. GcInv' /\ QuietCapturesKept'
  BY Zenon, <1>1, GcFrame, KeptFrame DEF QuietInv, Elsewhere
<1>11. WriteInv'
  <2>1. ASSUME NEW g \in File, g # f, Held(g) PROVE Held(g)'
    <3>1. task'[g] = task[g]
      BY Zenon, <1>4, <2>1
    <3> QED BY Zenon, <1>1, <2>1, <3>1 DEF Held, Here, Kept, Stored, Elsewhere
  <2>2. Held(f)'
    <3>1. 1..Len(task'[f].chunks) = {}
      BY <1>4
    <3> QED BY Zenon, <1>4, <3>1 DEF Held
  <2> QED BY Zenon, <1>1, <2>1, <2>2 DEF QuietInv, WriteInv, Elsewhere, Stored
<1> QED BY Zenon, <1>6, <1>7, <1>8, <1>9, <1>10, <1>11 DEF QuietInv

-----------------------------------------------------------------------------
(* The rows of the running capture change, each keeping its file's version
   or taking the present one; what they newly refer to is kept.               *)
LEMMA RowsStep ==
  ASSUME CaptureAssumption, IInv, Elsewhere, UNCHANGED <<status, cur, task, index>>, pc # "idle", pc' # "idle",
         todo' \in SUBSET File, reused' \in SUBSET File, pending' \in SUBSET File, CoordInv',
         item' \in Seq([File -> Row]), Len(item') = Len(item), \A s \in Snap : s # cur => item'[s] = item[s],
         \A g \in File : item'[cur][g].ver <= ver[g],
         \A g \in File : task[g].st # "none" => item'[cur][g].ver = item[cur][g].ver,
         \A g \in File : item'[cur][g].ver = ver[g] /\ item'[cur][g].recipe # NoRecipe => item'[cur][g].recipe = Body(g),
         (\A t \in 1..cur : ~met[t]) => \A c \in Refs(cur)' : Kept(c)
  PROVE  IInv'
<1> USE DEF IInv
<1>1. cur \in Snap /\ Snap' = Snap /\ ver' = ver /\ \A g : Body(g)' = Body(g)
  BY Zenon, Running1 DEF Elsewhere, Snap, Body
<1>2. Types' /\ Begun'
  BY Zenon DEF Elsewhere, Types, DiskTypes, DbTypes, CoordTypes, WorkTypes, Begun
<1>3. PastRows' /\ RowsDescribeFiles'
  <2>1. ASSUME NEW s \in Snap, NEW g \in File
        PROVE  /\ item'[s][g].ver <= ver[g]
               /\ item'[s][g].ver = ver[g] /\ item'[s][g].recipe # NoRecipe => item'[s][g].recipe = Body(g)
    <3>1. CASE s = cur
      BY Zenon, <3>1
    <3>2. CASE s # cur
      <4>1. item'[s] = item[s]
        BY Zenon, <3>2
      <4> QED BY Zenon, <4>1 DEF RowInv, PastRows, RowsDescribeFiles
    <3> QED BY Zenon, <3>1, <3>2
  <2> QED BY Zenon, <1>1, <2>1 DEF PastRows, RowsDescribeFiles
<1>4. ASSUME NEW g \in File PROVE Prefix(g)'
  <2>1. Prefix(g) /\ Body(g)' = Body(g) /\ task'[g] = task[g]
    BY Zenon, <1>1 DEF RowInv
  <2>2. task[g].st \in Active \cup {"queued", "ok"} => task[g].st # "none"
    BY Zenon DEF Active
  <2> QED BY Zenon, <1>1, <2>1, <2>2 DEF Prefix
<1>5. RowInv'
  BY Zenon, <1>3, <1>4 DEF RowInv
<1>6. ASSUME NEW s \in Snap, s # cur PROVE Refs(s)' = Refs(s)
  <2>1. item'[s] = item[s]
    BY Zenon, <1>6
  <2> QED BY Zenon, <2>1, RefsSame
<1>7. GcInv'
  BY Zenon, <1>1, <1>6 DEF QuietInv, GcInv, Elsewhere
<1>8. WriteInv'
  BY Zenon, SoundFrame DEF QuietInv, WriteInv, Sound, Elsewhere
<1>9. QuietCapturesKept'
  <2> SUFFICES ASSUME NEW s \in Snap, status[s] \in Alive, \A t \in 1..s : ~met[t], NEW c \in Refs(s)'
               PROVE  Stored(c)' \/ c \in Synced
    BY Zenon, <1>1 DEF QuietCapturesKept, Alive, Elsewhere
  <2>1. Stored(c) \/ c \in Synced
    <3>1. CASE s = cur
      BY Zenon, <3>1 DEF Kept
    <3>2. CASE s # cur
      BY Zenon, <1>6, <3>2 DEF QuietInv, QuietCapturesKept, Alive
    <3> QED BY Zenon, <3>1, <3>2
  <2> QED BY Zenon, <2>1 DEF Elsewhere, Stored
<1> QED BY Zenon, <1>2, <1>5, <1>7, <1>8, <1>9 DEF QuietInv

(* What the rows of the running capture refer to afterwards.                  *)
LEMMA RefsAfter ==
  ASSUME Types, pc # "idle", cur' = cur
  PROVE  \A c : c \in Refs(cur)' <=> \E g \in File : item'[cur][g].recipe # NoRecipe /\ c \in Range(item'[cur][g].recipe)
  BY Zenon DEF Refs

(* The chunks that the running capture refers to are kept while it and the
   captures before it have met no collection.                                 *)
LEMMA CurKept ==
  ASSUME IInv, pc \in Open, pc # "idle", \A t \in 1..cur : ~met[t]
  PROVE  \A c \in Refs(cur) : Kept(c)
<1>1. cur \in Snap /\ status[cur] = "CREATING"
  BY Zenon, Running1 DEF IInv, CoordInv
<1> QED BY Zenon, <1>1 DEF IInv, QuietInv, QuietCapturesKept, Kept

(* a batch enters the catalog. *)
LEMMA AddBatchStep ==
  ASSUME CaptureAssumption, IInv, AddBatch
  PROVE  IInv'
<1> USE DEF IInv
<1>1. Elsewhere /\ UNCHANGED <<status, cur, task, index>>
  BY DEF AddBatch, Elsewhere, diskVars, workVars, gcVars, history
<1>2. pc = "walk" /\ pc' = "reuse" /\ pc # "idle" /\ pc' # "idle" /\ pc \in Open
  BY Zenon DEF AddBatch, Open
<1>3. PICK B \in SUBSET todo :
           /\ item' \in Seq([File -> Row]) /\ Len(item') = Len(item)
           /\ \A s \in Snap : s # cur => item'[s] = item[s]
           /\ \A f \in File : item'[cur][f] = IF f \in B THEN [ver |-> ver[f], recipe |-> NoRecipe] ELSE item[cur][f]
           /\ todo' = todo \ B /\ pending' \subseteq B /\ reused' \subseteq B
           /\ \A f \in reused' : PrevSnapshot # 0 /\ IsUnchanged(f)
  BY Zenon, AddBatchEffect
<1>4. todo' \in SUBSET File /\ reused' \in SUBSET File /\ pending' \in SUBSET File /\ B \in SUBSET File
  BY Zenon, <1>3 DEF Types, CoordTypes
<1>5. \A f \in B : item'[cur][f].ver = ver[f] /\ item'[cur][f].recipe = NoRecipe
  <2>1. ASSUME NEW f \in B PROVE item'[cur][f].ver = ver[f] /\ item'[cur][f].recipe = NoRecipe
    <3>1. item'[cur][f] = [ver |-> ver[f], recipe |-> NoRecipe]
      BY Zenon, <1>3, <1>4
    <3> QED BY <3>1
  <2> QED BY Zenon, <2>1
<1>6. \A f \in File : f \notin B => item'[cur][f] = item[cur][f]
  BY Zenon, <1>3
<1>7. cur \in Snap /\ cur \in Nat
  <2>1. cur \in Snap
    BY Zenon, <1>2, Running1
  <2> QED BY <2>1 DEF Snap
<1>8. CoordInv'
  <2>1. PrevSnapshot' = PrevSnapshot
    BY Zenon, <1>1 DEF PrevSnapshot
  <2>2. ASSUME NEW f \in reused'
        PROVE  /\ PrevSnapshot \in 1..cur - 1 /\ status[PrevSnapshot] = "COMPLETE"
               /\ item'[PrevSnapshot][f].recipe # NoRecipe
               /\ item'[PrevSnapshot][f].ver = item'[cur][f].ver
    <3>1. PrevSnapshot \in 1..cur - 1 /\ status[PrevSnapshot] = "COMPLETE" /\ IsUnchanged(f)
      BY Zenon, <1>3, PrevIsComplete
    <3>2. PrevSnapshot \in Snap /\ PrevSnapshot # cur
      BY <1>7, <3>1 DEF Snap, Types, DbTypes
    <3>3. item'[PrevSnapshot] = item[PrevSnapshot]
      BY Zenon, <1>3, <3>2
    <3>4. item'[cur][f].ver = ver[f]
      BY Zenon, <1>3, <1>5
    <3> QED BY Zenon, <3>1, <3>3, <3>4 DEF IsUnchanged
  <2>3. pending' \cap todo' = {}
    BY Zenon, <1>3
  <2>4. \A f \in File : task'[f].st # "none" => cur' # 0 /\ f \notin todo'
    BY Zenon, <1>1, <1>3 DEF CoordInv
  <2>5. status'[cur'] = "CREATING"
    BY Zenon, <1>1, <1>2 DEF CoordInv
  <2> QED BY Zenon, <1>1, <2>1, <2>2, <2>3, <2>4, <2>5 DEF CoordInv
<1>9. \A g \in File : item'[cur][g].ver <= ver[g]
  <2>1. \A g \in File : ver[g] <= ver[g]
    BY DEF Types, DiskTypes, CaptureAssumption
  <2> QED BY Zenon, <1>5, <1>6, <1>7, <2>1 DEF RowInv, PastRows
<1>10. \A g \in File : task[g].st # "none" => item'[cur][g].ver = item[cur][g].ver
  BY Zenon, <1>3, <1>6 DEF CoordInv
<1>11. \A g \in File : item'[cur][g].ver = ver[g] /\ item'[cur][g].recipe # NoRecipe => item'[cur][g].recipe = Body(g)
  BY Zenon, <1>5, <1>6, <1>7 DEF RowInv, RowsDescribeFiles
<1>12. ASSUME \A t \in 1..cur : ~met[t], NEW c \in Refs(cur)' PROVE Kept(c)
  <2>1. PICK g \in File : item'[cur][g].recipe # NoRecipe /\ c \in Range(item'[cur][g].recipe)
    BY Zenon, <1>1, <1>2, RefsAfter
  <2>2. item'[cur][g] = item[cur][g]
    BY Zenon, <1>5, <1>6, <2>1
  <2>3. c \in Refs(cur)
    BY Zenon, <1>7, <2>1, <2>2, RefsAre
  <2> QED BY Zenon, <1>2, <1>12, <2>3, CurKept
<1> QED BY Zenon, <1>1, <1>2, <1>3, <1>4, <1>8, <1>9, <1>10, <1>11, <1>12, RowsStep

(* recipes are handed on from the previous snapshot. *)
LEMMA ReuseItemRecipesStep ==
  ASSUME CaptureAssumption, IInv, ReuseItemRecipes
  PROVE  IInv'
<1> USE DEF IInv
<1>1. Elsewhere /\ UNCHANGED <<status, cur, task, index, todo, pending>>
  BY DEF ReuseItemRecipes, Elsewhere, diskVars, workVars, gcVars, history
<1>2. pc = "reuse" /\ pc' = "submit" /\ reused' = {} /\ pc # "idle" /\ pc' # "idle" /\ pc \in Open /\ pc' # "reuse"
  BY Zenon DEF ReuseItemRecipes, Open
<1>3. /\ item' \in Seq([File -> Row]) /\ Len(item') = Len(item)
      /\ \A s \in Snap : s # cur => item'[s] = item[s]
      /\ \A f \in File \ reused : item'[cur][f] = item[cur][f]
      /\ \A f \in reused : /\ item'[cur][f].ver = item[cur][f].ver
                           /\ item'[cur][f].recipe = item[PrevSnapshot][f].recipe
  BY Zenon, ReuseEffect
<1>4. todo' \in SUBSET File /\ reused' \in SUBSET File /\ pending' \in SUBSET File /\ reused \in SUBSET File
  BY Zenon, <1>1, <1>2 DEF Types, CoordTypes
<1>5. cur \in Snap
  BY Zenon, <1>2, Running1
<1>6. \A g \in File : item'[cur][g].ver = item[cur][g].ver
  BY Zenon, <1>3
<1>7. ASSUME NEW f \in reused
      PROVE  /\ PrevSnapshot \in Snap /\ status[PrevSnapshot] = "COMPLETE" /\ 1..PrevSnapshot \subseteq 1..cur
             /\ item[PrevSnapshot][f].recipe # NoRecipe /\ item[PrevSnapshot][f].ver = item[cur][f].ver
  <2>1. /\ PrevSnapshot \in 1..cur - 1 /\ status[PrevSnapshot] = "COMPLETE"
        /\ item[PrevSnapshot][f].recipe # NoRecipe /\ item[PrevSnapshot][f].ver = item[cur][f].ver
    BY Zenon, <1>2 DEF CoordInv
  <2>2. PrevSnapshot \in Snap /\ 1..PrevSnapshot \subseteq 1..cur
    <3> DEFINE p == PrevSnapshot
    <3>1. p \in 1..cur - 1
      BY Zenon, <2>1
    <3> HIDE DEF p
    <3>2. p \in Snap /\ 1..p \subseteq 1..cur
      BY <1>5, <3>1 DEF Snap, Types, DbTypes
    <3> QED BY Zenon, <3>2 DEF p
  <2> QED BY Zenon, <2>1, <2>2
<1>8. CoordInv'
  BY Zenon, <1>1, <1>2 DEF CoordInv
<1>9. \A g \in File : item'[cur][g].ver <= ver[g]
  BY Zenon, <1>5, <1>6 DEF RowInv, PastRows
<1>10. ASSUME NEW g \in File, item'[cur][g].ver = ver[g], item'[cur][g].recipe # NoRecipe PROVE item'[cur][g].recipe = Body(g)
  <2>1. CASE g \in reused
    <3>1. PrevSnapshot \in Snap /\ item[PrevSnapshot][g].ver = ver[g] /\ item[PrevSnapshot][g].recipe # NoRecipe
      BY Zenon, <1>6, <1>7, <1>10, <2>1
    <3> QED BY Zenon, <1>3, <2>1, <3>1 DEF RowInv, RowsDescribeFiles
  <2>2. CASE g \notin reused
    <3>1. item'[cur][g] = item[cur][g]
      BY Zenon, <1>3, <2>2
    <3> QED BY Zenon, <1>5, <1>10, <3>1 DEF RowInv, RowsDescribeFiles
  <2> QED BY Zenon, <2>1, <2>2
<1>11. ASSUME \A t \in 1..cur : ~met[t], NEW c \in Refs(cur)' PROVE Kept(c)
  <2>1. PICK g \in File : item'[cur][g].recipe # NoRecipe /\ c \in Range(item'[cur][g].recipe)
    BY Zenon, <1>1, <1>2, RefsAfter
  <2>2. CASE g \in reused
    <3>1. c \in Refs(PrevSnapshot)
      BY Zenon, <1>3, <1>7, <2>1, <2>2, RefsAre
    <3> QED BY Zenon, <1>7, <1>11, <2>2, <3>1 DEF QuietInv, QuietCapturesKept, Kept
  <2>3. CASE g \notin reused
    <3>1. item'[cur][g] = item[cur][g]
      BY Zenon, <1>3, <2>3
    <3>2. c \in Refs(cur)
      BY Zenon, <1>5, <2>1, <3>1, RefsAre
    <3> QED BY Zenon, <1>2, <1>11, <3>2, CurKept
  <2> QED BY Zenon, <2>2, <2>3
<1> QED BY Zenon, <1>1, <1>2, <1>3, <1>4, <1>6, <1>8, <1>9, <1>10, <1>11, RowsStep

(* The recipe a worker returned is the content of the file, if the row still
   describes it.                                                              *)
LEMMA WholeFile ==
  ASSUME CaptureAssumption, Types, RowInv, NEW f \in File, task[f].st = "ok", item[cur][f].ver = ver[f]
  PROVE  task[f].chunks = Body(f)
<1>1. task[f].chunks \in Seq(Chunk) /\ Body(f) \in Seq(Chunk)
  BY Zenon, TaskType, BodyType
<1>2. Prefix(f)
  BY Zenon DEF RowInv
<1>3. Len(task[f].chunks) = Len(Body(f)) /\ \A i \in 1..Len(task[f].chunks) : task[f].chunks[i] = Body(f)[i]
  BY Zenon, <1>2 DEF Prefix
<1> QED BY Zenon, <1>1, <1>3, SeqEqual

(* a recipe is written. *)
LEMMA CollectStep ==
  ASSUME CaptureAssumption, IInv, NEW f \in File, Collect(f)
  PROVE  IInv'
<1> USE DEF IInv
<1>1. Elsewhere /\ UNCHANGED <<status, cur, task, index, todo, pending, reused>>
  BY DEF Collect, Elsewhere, diskVars, workVars, gcVars, history
<1>2. pc = "collect" /\ pc # "idle" /\ pc' # "idle" /\ pc \in Open /\ pc' # "reuse"
  BY Zenon DEF Collect, Open
<1>3. /\ item' \in Seq([File -> Row]) /\ Len(item') = Len(item)
      /\ \A s \in Snap : s # cur => item'[s] = item[s]
      /\ \A g \in File : item'[cur][g].ver = item[cur][g].ver
      /\ \A g \in File : \/ item'[cur][g] = item[cur][g]
                         \/ g = f /\ task[f].st = "ok" /\ item'[cur][f].recipe = task[f].chunks
  BY Zenon, CollectEffect
<1>4. todo' \in SUBSET File /\ reused' \in SUBSET File /\ pending' \in SUBSET File
  BY Zenon, <1>1 DEF Types, CoordTypes
<1>5. cur \in Snap /\ cur # 0
  BY Zenon, <1>2, Running1
<1>6. CoordInv'
  BY Zenon, <1>1, <1>2 DEF CoordInv
<1>7. \A g \in File : item'[cur][g].ver <= ver[g]
  BY Zenon, <1>3, <1>5 DEF RowInv, PastRows
<1>8. ASSUME NEW g \in File, item'[cur][g].ver = ver[g], item'[cur][g].recipe # NoRecipe PROVE item'[cur][g].recipe = Body(g)
  <2>1. CASE item'[cur][g] = item[cur][g]
    BY Zenon, <1>5, <1>8, <2>1 DEF RowInv, RowsDescribeFiles
  <2>2. CASE g = f /\ task[f].st = "ok" /\ item'[cur][f].recipe = task[f].chunks
    <3>1. item[cur][f].ver = ver[f]
      BY Zenon, <1>3, <1>8, <2>2
    <3> QED BY Zenon, <2>2, <3>1, WholeFile
  <2> QED BY Zenon, <1>3, <2>1, <2>2
<1>9. ASSUME \A t \in 1..cur : ~met[t], NEW c \in Refs(cur)' PROVE Kept(c)
  <2>1. PICK g \in File : item'[cur][g].recipe # NoRecipe /\ c \in Range(item'[cur][g].recipe)
    BY Zenon, <1>1, <1>2, RefsAfter
  <2>2. CASE item'[cur][g] = item[cur][g]
    <3>1. c \in Refs(cur)
      BY Zenon, <1>5, <2>1, <2>2, RefsAre
    <3> QED BY Zenon, <1>2, <1>9, <3>1, CurKept
  <2>3. CASE g = f /\ task[f].st = "ok" /\ item'[cur][f].recipe = task[f].chunks
    <3>1. task[f].chunks \in Seq(Chunk)
      BY Zenon, TaskType
    <3>2. \E i \in 1..Len(task[f].chunks) : task[f].chunks[i] = c
      <4>1. c \in Range(task[f].chunks)
        BY Zenon, <2>1, <2>3
      <4> QED BY Zenon, <3>1, <4>1, SetOf
    <3>3. cur \in 1..cur
      BY <1>5 DEF Snap
    <3>4. Held(f)
      BY Zenon, <1>5, <1>9, <3>3 DEF QuietInv, WriteInv
    <3> QED BY Zenon, <2>3, <3>2, <3>4 DEF Held, Undecided
  <2> QED BY Zenon, <1>3, <2>2, <2>3
<1> QED BY Zenon, <1>1, <1>2, <1>3, <1>4, <1>6, <1>7, <1>8, <1>9, RowsStep

-----------------------------------------------------------------------------
(* The invariant holds before the first capture.                              *)
LEMMA Start ==
  ASSUME CaptureAssumption, Init
  PROVE  IInv
<1>1. Idle \in TaskRecord /\ Idle.st = "none" /\ "idle" \notin Open
  BY DEF Idle, TaskRecord, Open
<1>2. Len(status) = 0 /\ Len(item) = 0 /\ status \in Seq(Status) /\ item \in Seq([File -> Row]) /\ Snap = {} /\ Len(status) <= MaxSnap
  BY DEF Init, Snap, CaptureAssumption
<1>3. ver \in [File -> 0..MaxVer]
  BY DEF Init, CaptureAssumption
<1>4. \A f \in File : task[f].st = "none"
  BY Zenon, <1>1 DEF Init
<1>5. Types
  BY Zenon, <1>1, <1>2, <1>3 DEF Init, Types, DiskTypes, DbTypes, CoordTypes, WorkTypes
<1>6. CoordInv
  <2>1. pc \notin Open /\ pc # "reuse"
    BY Zenon, <1>1 DEF Init
  <2> QED BY Zenon, <1>4, <2>1 DEF Init, CoordInv
<1>7. Begun
  BY Zenon, <1>4 DEF Begun, Undecided
<1>8. RowInv
  BY Zenon, <1>2, <1>4 DEF RowInv, PastRows, RowsDescribeFiles, Prefix, Active
<1>9. QuietInv
  BY Zenon, <1>2 DEF QuietInv, GcInv, WriteInv, QuietCapturesKept, Init
<1> QED BY Zenon, <1>5, <1>6, <1>7, <1>8, <1>9 DEF IInv

(* Every step keeps the invariant, one case for each action.                  *)
LEMMA Preserved ==
  ASSUME CaptureAssumption, IInv, [Next]_vars
  PROVE  IInv'
<1>1. CASE CreateSnapshot
  BY Zenon, <1>1, CreateSnapshotStep
<1>2. CASE Coordinator
  BY Zenon, <1>2, AddBatchStep, ReuseItemRecipesStep, MoveStep, SettleStep, GoneStep, SubmitStep, CollectStep DEF Coordinator
<1>3. CASE Raise \/ Crash
  BY Zenon, <1>3, MoveStep, GoneStep
<1>4. CASE Collector
  BY Zenon, <1>4, GcProtectStep, GcLookStep, GcUnlinkStep DEF Collector
<1>5. ASSUME NEW f \in File, Edit(f) \/ Worker(f) \/ WorkerFails(f) PROVE IInv'
  BY Zenon, <1>5, EditStep, AdvancesStep, DecideStep, RememberStep, PutStep DEF Worker
<1>6. ASSUME NEW c \in Chunk, Age(c) PROVE IInv'
  BY Zenon, <1>6, AgeStep
<1>7. CASE UNCHANGED vars
  BY Zenon, <1>7, StutterStep
<1> QED BY Zenon, <1>1, <1>2, <1>3, <1>4, <1>5, <1>6, <1>7 DEF Next

(* The invariant holds in every state.                                        *)
THEOREM Invariance == Spec => []IInv
<1>1. Init => IInv
  BY Zenon, CaptureAssumption, Start
<1>2. IInv /\ [Next]_vars => IInv'
  BY Zenon, CaptureAssumption, Preserved
<1> QED BY <1>1, <1>2, PTL DEF Spec

(* RowsDescribeFiles: a row that still describes its file, through any number of
   edits, captures and reuses of recipes by _is_unchanged_file, has its chunks. *)
THEOREM RowsAreFaithful == Spec => []RowsDescribeFiles
<1>1. IInv => RowsDescribeFiles
  BY Zenon DEF IInv, RowInv
<1> QED BY <1>1, Invariance, PTL

(* QuietCapturesKept: captures that met no collection of generated chunks lose
   nothing, whatever the workers of the pool and their shared index interleave. *)
THEOREM QuietCapturesAreKept == Spec => []QuietCapturesKept
<1>1. IInv => QuietCapturesKept
  BY Zenon DEF IInv, QuietInv
<1> QED BY <1>1, Invariance, PTL

(* What a step does to the snapshots that are settled.                        *)
Settle == \A s \in Snap : status[s] # "CREATING" => status'[s] = status[s] /\ item'[s] = item[s]

(* A step changes the status and the rows of the running capture only. *)
LEMMA SettledStep ==
  ASSUME CaptureAssumption, IInv, Next
  PROVE  Settle
<1> USE DEF IInv
<1>1. CASE CreateSnapshot
  BY Zenon, <1>1, CreateEffect DEF Settle
<1>2. ASSUME status' = status, pc \in Open, \A s \in Snap : s # cur => item'[s] = item[s] PROVE Settle
  BY Zenon, <1>2 DEF Settle, CoordInv
<1>3. CASE AddBatch
  <2>1. status' = status /\ pc \in Open
    BY Zenon, <1>3 DEF AddBatch, Open
  <2>2. \A s \in Snap : s # cur => item'[s] = item[s]
    BY Zenon, <1>3, AddBatchEffect
  <2> QED BY Zenon, <1>2, <2>1, <2>2
<1>4. CASE ReuseItemRecipes
  <2>1. status' = status /\ pc \in Open
    BY Zenon, <1>4 DEF ReuseItemRecipes, Open
  <2>2. \A s \in Snap : s # cur => item'[s] = item[s]
    BY Zenon, <1>4, ReuseEffect
  <2> QED BY Zenon, <1>2, <2>1, <2>2
<1>5. ASSUME NEW f \in File, Collect(f) PROVE Settle
  <2>1. status' = status /\ pc \in Open
    BY Zenon, <1>5 DEF Collect, Open
  <2>2. \A s \in Snap : s # cur => item'[s] = item[s]
    BY Zenon, <1>5, CollectEffect
  <2> QED BY Zenon, <1>2, <2>1, <2>2
<1>6. CASE FinishSnapshot \/ FailSnapshot
  <2>1. item' = item
    BY <1>6 DEF FinishSnapshot, FailSnapshot
  <2>2. \A s \in Snap : status'[s] # status[s] => status[s] = "CREATING"
    BY Zenon, <1>6, SettleEffect
  <2> QED BY Zenon, <2>1, <2>2 DEF Settle
<1>7. ASSUME status' = status, item' = item PROVE Settle
  BY Zenon, <1>7 DEF Settle
<1>8. CASE BatchSubmitted \/ WaitFutures \/ LeavePool \/ Close \/ Raise \/ Crash
  <2>1. status' = status /\ item' = item
    BY <1>8 DEF BatchSubmitted, WaitFutures, LeavePool, Close, Raise, Crash, NoCapture, dbVars
  <2> QED BY Zenon, <1>7, <2>1
<1>9. ASSUME NEW f \in File, Submit(f) \/ Edit(f) PROVE Settle
  <2>1. status' = status /\ item' = item
    BY <1>9 DEF Submit, Edit, dbVars
  <2> QED BY Zenon, <1>7, <2>1
<1>10. ASSUME NEW f \in File, Worker(f) \/ WorkerFails(f) PROVE Settle
  <2>1. status' = status /\ item' = item
    BY Zenon, <1>10, WorkerFrame DEF WorkerStep, Apart
  <2> QED BY Zenon, <1>7, <2>1
<1>11. CASE Collector
  <2>1. status' = status /\ item' = item
    BY <1>11 DEF Collector, GcProtect, GcRecheck, GcUnlink, GcEnd, GcVisit, dbVars
  <2> QED BY Zenon, <1>7, <2>1
<1>12. ASSUME NEW c \in Chunk, Age(c) PROVE Settle
  <2>1. status' = status /\ item' = item
    BY <1>12 DEF Age, dbVars
  <2> QED BY Zenon, <1>7, <2>1
<1> QED BY Zenon, <1>1, <1>3, <1>4, <1>5, <1>6, <1>8, <1>9, <1>10, <1>11, <1>12 DEF Next, Coordinator

(* SettledSnapshots: after finish_snapshot or fail_snapshot the rows and the
   status of a snapshot stay, also under interrupts and crashes. *)
THEOREM SettledStaySo == Spec => SettledSnapshots
<1>1. IInv /\ [Next]_vars => [Settle]_vars
  BY Zenon, CaptureAssumption, SettledStep
<1>2. Spec => [][Settle]_vars
  BY <1>1, Invariance, PTL DEF Spec
<1> QED BY <1>2 DEF SettledSnapshots, Settle
====
