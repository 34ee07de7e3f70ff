---------------------------- MODULE BackupCapture ----------------------------
(***************************************************************************)
(* A capture (backup_directory of backup/service.py with its workers, the  *)
(* chunk planner and the snapshot tables of the catalog) beside the        *)
(* collection of local chunks (stopan gc generated-chunks).                *)
(*                                                                         *)
(* The coordinator walks the tree in batches, reuses the recipes of        *)
(* unchanged files, hands the other files to a thread pool and writes the  *)
(* recipes the workers return.  The workers decide chunk by chunk, with a  *)
(* shared index of earlier answers, whether to store the chunk.  The       *)
(* collector is another process: it reads once which chunks the catalog    *)
(* protects, closes the catalog and then removes what is left and old.     *)
(* Files may be edited at any time; each edit changes what stat reports.   *)
(*                                                                         *)
(* The grace period is positive, one collector runs at a time, and the     *)
(* evidence of remote copies does not change while the model runs.         *)
(***************************************************************************)
EXTENDS Integers, Sequences, FiniteSets, FiniteSetsExt, Functions

CONSTANTS
    File,       \* the paths under the root of the backup
    Chunk,      \* the chunk hashes
    Content,    \* Content[f][v]: the chunks of version v of file f
    MaxVer,     \* bound: the edits of a file
    MaxSnap,    \* bound: the snapshots
    MaxEvents,  \* bound: edits, collections, failures, interrupts and crashes together
    BatchSize,  \* _SNAPSHOT_ITEM_BATCH_SIZE
    Workers,    \* the threads of the pool
    MaxPending, \* max_pending_futures
    Mode,       \* the fast-path policies a capture may run with
    Synced      \* the chunks with sufficient evidence of remote copies

ASSUME CaptureAssumption ==
    /\ BatchSize \in Nat \ {0} /\ Workers \in Nat \ {0} /\ MaxPending \in Nat \ {0}
    /\ MaxVer \in Nat /\ MaxSnap \in Nat /\ MaxEvents \in Nat
    /\ Mode \subseteq {"safe", "plain", "local", "remote"}
    /\ Synced \subseteq Chunk
    /\ Content \in [File -> [0..MaxVer -> Seq(Chunk)]]

NoRecipe == <<"no recipe">>
NoItem == [ver |-> -1, recipe |-> NoRecipe]
Idle == [st |-> "none", chunks |-> <<>>, saw |-> FALSE]
Active == {"read", "remember", "check", "replace"}

VARIABLES
    ver,        \* ver[f]: the version of f on disk, as stat tells versions apart
    cas,        \* cas[c]: "none", "fresh" (within the grace period) or "old"
    status,     \* status[s]: the status of snapshot s, in order of creation
    item,       \* item[s][f]: the row of f in snapshot_items
    cur,        \* snapshot_id of the running capture, 0 if there is none
    mode,       \* its policy
    pc,         \* where the coordinator is
    todo,       \* the files the walker has still to yield
    reused,     \* reused_assignments
    pending,    \* pending_processing
    futures,    \* the files in future_map
    done,       \* the futures collect_completed has still to handle
    task,       \* task[f]: the worker that processes f
    failed,     \* failed_files is not empty
    index,      \* shared_index.local_exists
    gcPc,       \* where the collector is
    gcKeep,     \* reachable_hashes
    gcOld,      \* the chunks older than its cutoff that it has still to visit
    gcFile,     \* its candidate, a set of at most one chunk
    met,        \* met[s]: the capture of s met a collection (history)
    events      \* the edits, collections, failures, interrupts and crashes so far

diskVars == <<ver, cas>>
dbVars == <<status, item>>
coordVars == <<cur, mode, pc, todo, reused, pending, futures, done, failed>>
workVars == <<task, index>>
gcVars == <<gcPc, gcKeep, gcOld, gcFile>>
history == <<met, events>>
vars == <<diskVars, dbVars, coordVars, workVars, gcVars, history>>

Snap == 1..Len(status)
Refs(s) == UNION {Range(item[s][f].recipe) : f \in {g \in File : item[s][g].recipe # NoRecipe}}
Stored(c) == cas[c] # "none"

-----------------------------------------------------------------------------
(* chunks of captures that failed long ago may lie in the store             *)
Init ==
    /\ ver = [f \in File |-> 0]
    /\ cas \in [Chunk -> {"none", "old"}]
    /\ status = <<>> /\ item = <<>>
    /\ cur = 0 /\ mode = "none" /\ pc = "idle"
    /\ todo = {} /\ reused = {} /\ pending = {} /\ futures = {} /\ done = {}
    /\ failed = FALSE
    /\ task = [f \in File |-> Idle]
    /\ index = [c \in Chunk |-> "unknown"]
    /\ gcPc = "idle" /\ gcKeep = {} /\ gcOld = {} /\ gcFile = {}
    /\ met = [s \in 1..MaxSnap |-> FALSE] /\ events = 0

Event == events < MaxEvents /\ events' = events + 1

(* the user edits a file; stat reports a new mtime or ctime                 *)
Edit(f) ==
    /\ Event /\ ver[f] < MaxVer
    /\ ver' = [ver EXCEPT ![f] = @ + 1]
    /\ UNCHANGED <<cas, dbVars, coordVars, workVars, gcVars, met>>

(* time passes: the grace period of a chunk runs out                        *)
Age(c) ==
    /\ cas[c] = "fresh"
    /\ cas' = [cas EXCEPT ![c] = "old"]
    /\ UNCHANGED <<ver, dbVars, coordVars, workVars, gcVars, history>>

-----------------------------------------------------------------------------
(* The coordinator.                                                         *)

(* create_snapshot, a fresh ChunkIndex and a fresh pool                      *)
CreateSnapshot ==
    /\ pc = "idle" /\ Len(status) < MaxSnap
    /\ status' = Append(status, "CREATING")
    /\ item' = Append(item, [f \in File |-> NoItem])
    /\ cur' = Len(status) + 1
    /\ mode' \in Mode
    /\ pc' = "walk" /\ todo' = File
    /\ reused' = {} /\ pending' = {} /\ futures' = {} /\ done' = {} /\ failed' = FALSE
    /\ task' = [f \in File |-> Idle]
    /\ index' = [c \in Chunk |-> "unknown"]
    /\ met' = [met EXCEPT ![cur'] = gcPc # "idle"]
    /\ UNCHANGED <<diskVars, gcVars, events>>

(* get_prev_snapshot_id: the last complete snapshot before this one         *)
PrevSnapshot ==
    LET Before == {s \in 1..cur - 1 : status[s] = "COMPLETE"}
    IN  IF Before = {} THEN 0 ELSE Max(Before)

(* _is_unchanged_file, on the row of the previous snapshot                  *)
IsUnchangedAlways(f) ==
    item[PrevSnapshot][f].recipe # NoRecipe
IsUnchanged(f) ==
    /\ item[PrevSnapshot][f].recipe # NoRecipe
    /\ item[PrevSnapshot][f].ver = ver[f]

(* stat a batch, add_items, and split it into reused and pending files      *)
AddBatch ==
    /\ pc = "walk" /\ todo # {}
    /\ \E B \in SUBSET todo :
         LET Reuse == IF mode = "safe" \/ PrevSnapshot = 0 THEN {} ELSE {f \in B : IsUnchanged(f)}
         IN  /\ Cardinality(B) = Min({BatchSize, Cardinality(todo)})
             /\ item' = [item EXCEPT ![cur] = [f \in File |->
                           IF f \in B THEN [ver |-> ver[f], recipe |-> NoRecipe] ELSE @[f]]]
             /\ todo' = todo \ B
             /\ reused' = Reuse
             /\ pending' = B \ Reuse
    /\ pc' = "reuse"
    /\ UNCHANGED <<diskVars, status, cur, mode, futures, done, failed, workVars, gcVars, history>>

(* reuse_item_recipes, one transaction                                      *)
ReuseItemRecipes ==
    /\ pc = "reuse"
    /\ item' = [item EXCEPT ![cur] = [f \in File |->
                  IF f \in reused THEN [@[f] EXCEPT !.recipe = item[PrevSnapshot][f].recipe] ELSE @[f]]]
    /\ reused' = {}
    /\ pc' = "submit"
    /\ UNCHANGED <<diskVars, status, cur, mode, todo, pending, futures, done, failed, workVars, gcVars, history>>

(* executor.submit; a full map of futures is collected before the next      *)
Submit(f) ==
    /\ pc = "submit" /\ f \in pending
    /\ pending' = pending \ {f}
    /\ futures' = futures \cup {f}
    /\ task' = [task EXCEPT ![f] = [Idle EXCEPT !.st = "queued"]]
    /\ pc' = IF Cardinality(futures') >= MaxPending THEN "waitFirst" ELSE "submit"
    /\ UNCHANGED <<diskVars, dbVars, cur, mode, todo, reused, done, failed, index, gcVars, history>>

BatchSubmitted ==
    /\ pc = "submit" /\ pending = {}
    /\ pc' = CASE todo # {} -> "walk"
               [] todo = {} /\ futures # {} -> "waitAll"
               [] OTHER -> "leave"
    /\ UNCHANGED <<diskVars, dbVars, cur, mode, todo, reused, pending, futures, done, failed, workVars, gcVars, history>>

Finished(f) == task[f].st \in {"ok", "error"}

(* collect_completed: wait for one future or for all of them               *)
WaitFutures ==
    /\ \/ pc = "waitFirst" /\ \E f \in futures : Finished(f)
       \/ pc = "waitAll" /\ \A f \in futures : Finished(f)
    /\ done' = {f \in futures : Finished(f)}
    /\ pc' = "collect"
    /\ UNCHANGED <<diskVars, dbVars, cur, mode, todo, reused, pending, futures, failed, workVars, gcVars, history>>

(* one future of done: consolidate_item_recipe, or one more failed file     *)
CollectKeepingFailed(f) ==
    /\ pc = "collect" /\ f \in done
    /\ done' = done \ {f}
    /\ futures' = IF task[f].st = "ok" THEN futures \ {f} ELSE futures
    /\ item' = IF task[f].st = "ok" THEN [item EXCEPT ![cur][f].recipe = task[f].chunks] ELSE item
    /\ failed' = (failed \/ task[f].st = "error")
    /\ pc' = IF done' = {} THEN "submit" ELSE "collect"
    /\ UNCHANGED <<diskVars, status, cur, mode, todo, reused, pending, workVars, gcVars, history>>
Collect(f) ==
    /\ pc = "collect" /\ f \in done
    /\ done' = done \ {f}
    /\ futures' = futures \ {f}
    /\ item' = IF task[f].st = "ok" THEN [item EXCEPT ![cur][f].recipe = task[f].chunks] ELSE item
    /\ failed' = (failed \/ task[f].st = "error")
    /\ pc' = IF done' = {} THEN "submit" ELSE "collect"
    /\ UNCHANGED <<diskVars, status, cur, mode, todo, reused, pending, workVars, gcVars, history>>

(* an exception or an interrupt in the body of the try                      *)
Raise ==
    /\ Event
    /\ pc \in {"walk", "reuse", "submit", "waitFirst", "waitAll", "collect", "finish", "closing"}
    /\ pc' = IF pc \in {"finish", "closing"} THEN "fail" ELSE "unwind"
    /\ UNCHANGED <<diskVars, dbVars, cur, mode, todo, reused, pending, futures, done, failed, workVars, gcVars, met>>

(* the end of the with: the pool waits for every worker, then
   _raise_if_failed_files                                                   *)
LeavePool ==
    /\ pc \in {"leave", "unwind"}
    /\ \A f \in File : task[f].st = "none" \/ Finished(f)
    /\ pc' = IF pc = "unwind" \/ failed THEN "fail" ELSE "finish"
    /\ UNCHANGED <<diskVars, dbVars, cur, mode, todo, reused, pending, futures, done, failed, workVars, gcVars, history>>

(* finish_snapshot, one transaction; it raises if a file has no recipe      *)
FinishSnapshot ==
    /\ pc = "finish"
    /\ IF \A f \in File : item[cur][f].recipe # NoRecipe
       THEN status' = [status EXCEPT ![cur] = "COMPLETE"] /\ pc' = "closing"
       ELSE pc' = "fail" /\ UNCHANGED status
    /\ UNCHANGED <<diskVars, item, cur, mode, todo, reused, pending, futures, done, failed, workVars, gcVars, history>>

(* fail_snapshot; what it raises, for a snapshot that is already complete
   among others, is swallowed                                               *)
FailSnapshotAlways ==
    /\ pc = "fail"
    /\ status' = [status EXCEPT ![cur] = "FAILED"]
    /\ pc' = "end"
    /\ UNCHANGED <<diskVars, item, cur, mode, todo, reused, pending, futures, done, failed, workVars, gcVars, history>>
FailSnapshot ==
    /\ pc = "fail"
    /\ \/ status[cur] = "CREATING" /\ status' = [status EXCEPT ![cur] = "FAILED"]
       \/ UNCHANGED status
    /\ pc' = "end"
    /\ UNCHANGED <<diskVars, item, cur, mode, todo, reused, pending, futures, done, failed, workVars, gcVars, history>>

(* the process is gone: what the catalog and the store hold is all that is
   left of the capture                                                      *)
NoCapture ==
    /\ pc' = "idle" /\ cur' = 0 /\ mode' = "none"
    /\ todo' = {} /\ reused' = {} /\ pending' = {} /\ futures' = {} /\ done' = {} /\ failed' = FALSE
    /\ task' = [f \in File |-> Idle]
    /\ index' = [c \in Chunk |-> "unknown"]
    /\ UNCHANGED <<diskVars, dbVars, gcVars, met>>

(* the finally: the catalog is closed                                       *)
Close == pc \in {"closing", "end"} /\ NoCapture /\ UNCHANGED events

Crash == Event /\ pc # "idle" /\ NoCapture

-----------------------------------------------------------------------------
(* The workers: process_file_worker and the planner.                        *)

Running == {f \in File : task[f].st \in Active}

StartTask(f) ==
    /\ task[f].st = "queued" /\ Cardinality(Running) < Workers
    /\ task' = [task EXCEPT ![f].st = "read"]
    /\ UNCHANGED <<diskVars, dbVars, coordVars, index, gcVars, history>>

(* the chunks of the file as it is now, and the one the worker is at        *)
Body(f) == Content[f][ver[f]]
Here(f) == task[f].chunks[Len(task[f].chunks)]

(* what the planner decides once it knows whether the chunk is stored       *)
Decision(c, exists) ==
    IF exists \/ (mode = "remote" /\ c \in Synced) THEN "read" ELSE "check"

(* the chunker yields the next chunk and decide() consults the index; if
   that has no answer, _exists_local asks the store                         *)
Decide(f) ==
    /\ task[f].st = "read" /\ Len(task[f].chunks) < Len(Body(f))
    /\ LET c == Body(f)[Len(task[f].chunks) + 1]
           Asks == mode \notin {"safe", "plain"} /\ index[c] = "unknown"
       IN  task' = [task EXCEPT ![f] =
                      [st |-> CASE mode \in {"safe", "plain"} -> "check"
                                [] Asks -> "remember"
                                [] OTHER -> Decision(c, index[c] = "yes"),
                       chunks |-> Append(@.chunks, c),
                       saw |-> Asks /\ Stored(c)]]
    /\ UNCHANGED <<diskVars, dbVars, coordVars, index, gcVars, history>>

(* the answer enters the index, after whatever others have entered there    *)
Remember(f) ==
    /\ task[f].st = "remember"
    /\ index' = [index EXCEPT ![Here(f)] = IF task[f].saw THEN "yes" ELSE "no"]
    /\ task' = [task EXCEPT ![f].st = Decision(Here(f), task[f].saw), ![f].saw = FALSE]
    /\ UNCHANGED <<diskVars, dbVars, coordVars, gcVars, history>>

(* repo.put: a chunk that is there is left alone, its age included          *)
PutPresent(f) ==
    /\ task[f].st = "check" /\ Stored(Here(f))
    /\ index' = [index EXCEPT ![Here(f)] = "yes"]
    /\ task' = [task EXCEPT ![f].st = "read"]
    /\ UNCHANGED <<diskVars, dbVars, coordVars, gcVars, history>>

PutAbsent(f) ==
    /\ task[f].st = "check" /\ ~Stored(Here(f))
    /\ task' = [task EXCEPT ![f].st = "replace"]
    /\ UNCHANGED <<diskVars, dbVars, coordVars, index, gcVars, history>>

(* the temporary file is renamed over the path, whoever was first           *)
PutReplace(f) ==
    /\ task[f].st = "replace"
    /\ cas' = [cas EXCEPT ![Here(f)] = "fresh"]
    /\ index' = [index EXCEPT ![Here(f)] = "yes"]
    /\ task' = [task EXCEPT ![f].st = "read"]
    /\ UNCHANGED <<ver, dbVars, coordVars, gcVars, history>>

(* the file ends: the worker returns its recipe                             *)
EndFile(f) ==
    /\ task[f].st = "read" /\ Len(task[f].chunks) >= Len(Body(f))
    /\ task' = [task EXCEPT ![f].st = "ok"]
    /\ UNCHANGED <<diskVars, dbVars, coordVars, index, gcVars, history>>

(* an exception in the worker becomes an unsuccessful result                *)
WorkerFails(f) ==
    /\ Event /\ task[f].st \in Active
    /\ task' = [task EXCEPT ![f].st = "error"]
    /\ UNCHANGED <<diskVars, dbVars, coordVars, index, gcVars, met>>

-----------------------------------------------------------------------------
(* The collector: _cmd_generated_chunks.                                    *)

Live(S) == UNION {Refs(s) : s \in {t \in Snap : status[t] \in S}}

(* gc_protected_chunk_hashes; the catalog is closed, the cutoff computed and
   the listing of the store begun                                           *)
GcProtectCreating ==
    /\ gcPc = "idle" /\ Event
    /\ gcKeep' = Live({"CREATING"})
    /\ gcOld' = {c \in Chunk : cas[c] = "old"}
    /\ gcPc' = "scan"
    /\ met' = IF cur = 0 THEN met ELSE [met EXCEPT ![cur] = TRUE]
    /\ UNCHANGED <<diskVars, dbVars, coordVars, workVars, gcFile>>
GcProtect ==
    /\ gcPc = "idle" /\ Event
    /\ gcKeep' = Live({"CREATING", "COMPLETE"})
    /\ gcOld' = {c \in Chunk : cas[c] = "old"}
    /\ gcPc' = "scan"
    /\ met' = IF cur = 0 THEN met ELSE [met EXCEPT ![cur] = TRUE]
    /\ UNCHANGED <<diskVars, dbVars, coordVars, workVars, gcFile>>

(* a listed file that neither the catalog nor its age retains; the others
   are passed over                                                          *)
GcVisit(c) ==
    /\ gcPc = "scan" /\ c \in gcOld \ gcKeep /\ cas[c] = "old"
    /\ gcPc' = "recheck" /\ gcFile' = {c} /\ gcOld' = gcOld \ {c}
    /\ UNCHANGED <<diskVars, dbVars, coordVars, workVars, gcKeep, history>>

(* same_file_identity: a file that was replaced meanwhile is left alone     *)
GcRecheck ==
    /\ gcPc = "recheck"
    /\ IF \A c \in gcFile : cas[c] = "old"
       THEN gcPc' = "unlink" /\ UNCHANGED gcFile
       ELSE gcPc' = "scan" /\ gcFile' = {}
    /\ UNCHANGED <<diskVars, dbVars, coordVars, workVars, gcKeep, gcOld, history>>

GcUnlink ==
    /\ gcPc = "unlink"
    /\ cas' = [c \in Chunk |-> IF c \in gcFile THEN "none" ELSE cas[c]]
    /\ gcPc' = "scan" /\ gcFile' = {}
    /\ UNCHANGED <<ver, dbVars, coordVars, workVars, gcKeep, gcOld, history>>

(* the collector has seen every file, or dies before that                   *)
GcEnd ==
    /\ gcPc # "idle"
    /\ gcPc' = "idle" /\ gcKeep' = {} /\ gcOld' = {} /\ gcFile' = {}
    /\ UNCHANGED <<diskVars, dbVars, coordVars, workVars, history>>

-----------------------------------------------------------------------------
Worker(f) ==
    \/ StartTask(f) \/ Decide(f) \/ Remember(f)
    \/ PutPresent(f) \/ PutAbsent(f) \/ PutReplace(f) \/ EndFile(f)

Coordinator ==
    \/ AddBatch \/ ReuseItemRecipes \/ BatchSubmitted \/ WaitFutures
    \/ LeavePool \/ FinishSnapshot \/ FailSnapshot \/ Close
    \/ \E f \in File : Submit(f) \/ Collect(f)

Collector == GcProtect \/ GcRecheck \/ GcUnlink \/ GcEnd \/ \E c \in Chunk : GcVisit(c)

Next ==
    \/ CreateSnapshot \/ Coordinator \/ Raise \/ Crash \/ Collector
    \/ \E f \in File : Edit(f) \/ Worker(f) \/ WorkerFails(f)
    \/ \E c \in Chunk : Age(c)

Spec == Init /\ [][Next]_vars

(* the threads of the capture go on while they can                          *)
FairSpec ==
    /\ Spec
    /\ WF_vars(Coordinator)
    /\ \A f \in File : WF_vars(Worker(f))

-----------------------------------------------------------------------------
TaskRecord == [st : Active \cup {"none", "queued", "ok", "error"}, chunks : Seq(Chunk), saw : BOOLEAN]

(* The variables hold what the code can put in them; in particular the map
   of futures never holds more than max_pending_futures files and the pool
   never runs more than its threads.                                        *)
TypeOK ==
    /\ ver \in [File -> 0..MaxVer]
    /\ cas \in [Chunk -> {"none", "fresh", "old"}]
    /\ status \in Seq({"CREATING", "COMPLETE", "FAILED"}) /\ Len(status) <= MaxSnap
    /\ Len(item) = Len(status)
    /\ \A s \in Snap, f \in File : /\ item[s][f].ver \in -1..MaxVer
                                   /\ item[s][f].recipe \in Seq(Chunk) \cup {NoRecipe}
    /\ cur \in {0, Len(status)} /\ mode \in Mode \cup {"none"}
    /\ (pc = "idle") = (cur = 0)
    /\ todo \subseteq File /\ reused \subseteq File /\ pending \subseteq File /\ done \subseteq futures
    /\ Cardinality(futures) <= MaxPending /\ Cardinality(Running) <= Workers
    /\ task \in [File -> TaskRecord]
    /\ index \in [Chunk -> {"unknown", "yes", "no"}]
    /\ events \in 0..MaxEvents /\ gcKeep \subseteq Chunk /\ gcOld \subseteq Chunk /\ gcFile \subseteq Chunk

(* A row of the catalog that still describes the file as stat sees it has
   the recipe of the file's present content, however many captures have
   handed the recipe on and whatever was edited while a worker was reading
   (stat comes before the read in the walk of backup_directory).            *)
RowsDescribeFiles ==
    \A s \in Snap, f \in File :
        item[s][f].ver = ver[f] /\ item[s][f].recipe # NoRecipe => item[s][f].recipe = Body(f)

(* As long as no capture and no collection have met, every chunk that a
   live snapshot refers to is in the store, or has evidence of remote
   copies: the recipes of collect_completed come after the chunks, and
   gc_protected_chunk_hashes keeps them from then on.                       *)
QuietCapturesKept ==
    \A s \in Snap :
        status[s] \in {"CREATING", "COMPLETE"} /\ (\A t \in 1..s : ~met[t])
            => \A c \in Refs(s) : Stored(c) \/ c \in Synced

(* What docs/architecture.md:299 says of generated-chunks: the collection
   takes nothing that a finished capture needs.                             *)
CollectionSparesCaptures ==
    \A s \in Snap : status[s] = "COMPLETE" => \A c \in Refs(s) : Stored(c) \/ c \in Synced

(* A snapshot that is complete or failed stays so, rows and all, also when
   an interrupt arrives between finish_snapshot and the end of the try.     *)
SettledSnapshots ==
    [][\A s \in Snap : status[s] # "CREATING" => status'[s] = status[s] /\ item'[s] = item[s]]_vars

(* A capture comes to its end, whatever fails in it: the coordinator never
   waits for a future that does not come.                                   *)
CaptureEnds == (pc # "idle") ~> (pc = "idle")
=============================================================================
