------------------------------- MODULE Restore -------------------------------
(***************************************************************************)
(* restore of one snapshot.  Each file is rebuilt as a partial file in the *)
(* resume directory, under a lock of that file, from chunks that several   *)
(* sources may have; a whole partial file is moved into the working        *)
(* directory, and the working directory becomes the final one when all its *)
(* files are there.  An interrupted restore is taken up again from what    *)
(* the recipe can verify.                                                  *)
(*                                                                         *)
(* Several processes may restore the same snapshot into the same place.    *)
(* Files are inodes, since a process goes on with the file it has opened   *)
(* when another moves or removes its name.  A file is a sequence of blocks *)
(* of the sizes of the recipe: chunks, or junk.                            *)
(***************************************************************************)
EXTENDS Integers, Sequences, SequencesExt, FiniteSets, FiniteSetsExt

CONSTANTS
    FileOrder,  \* the files of the snapshot, in the order of its items
    Recipe,     \* Recipe[f]: the chunks of f
    Source,     \* where chunks come from, in the order they are asked: a sequence
    Remote,     \* the sources that are asked over the network
    Copies,     \* the copies the sources may have at first
    Restorer,   \* the processes
    Window,     \* prefetch_window
    SyncEvery,  \* RESTORE_RESUME_SYNC_BYTES, in blocks
    MaxInode,   \* bound: enough for all names and all open files
    MaxFaults   \* bound: crashes, failing calls, lost copies, foreign directories

File == ToSet(FileOrder)
Chunk == UNION {ToSet(Recipe[f]) : f \in File}
Inode == 1..MaxInode
None == 0
Junk == "junk"

ASSUME RestoreAssumption ==
    /\ IsInjective(FileOrder) /\ FileOrder # <<>> /\ Source # <<>>
    /\ Window \in Nat \ {0} /\ SyncEvery \in Nat \ {0} /\ MaxFaults \in Nat
    /\ MaxInode >= 3 * Cardinality(File) + Cardinality(Restorer)
    /\ Junk \notin Chunk

VARIABLES
    copy,       \* copy[s][c]: the copy of c at source s, "good", "bad" or "none"
    data,       \* data[i]: the blocks of inode i
    synced,     \* synced[i]: how many of them a power loss cannot take
    part, work, \* the inode of f in the resume and in the working directory
    dirs,       \* which of the two directories exist
    final,      \* the final directory: by whom it was made, and its files
    lock,       \* lock[i]: the process that has inode i locked
    proc,       \* proc[r]: where r is, its file, inode, next chunk, window and successes
    faults

vars == <<copy, data, synced, part, work, dirs, final, lock, proc, faults>>
disk == <<data, synced, part, work, dirs, final, lock>>

NoFiles == [f \in File |-> None]
NoFinal == [by |-> "none", files |-> NoFiles]
Idle == [pc |-> "idle", k |-> 1, fd |-> None, order |-> 0, window |-> <<>>, since |-> 0, good |-> 0]

Init ==
    /\ copy \in Copies
    /\ data = [i \in Inode |-> <<>>] /\ synced = [i \in Inode |-> 0]
    /\ part = NoFiles /\ work = NoFiles /\ dirs = {} /\ final = NoFinal
    /\ lock = [i \in Inode |-> None]
    /\ proc = [r \in Restorer |-> Idle]
    /\ faults = 0

Fault == faults < MaxFaults /\ faults' = faults + 1

At(r, label) == proc[r].pc = label
Current(r) == FileOrder[proc[r].k]
Goto(r, label) == proc' = [proc EXCEPT ![r].pc = label]

-----------------------------------------------------------------------------
(* SnapshotRestorer.restore: the final directory must not be there, the two
   others are made                                                          *)
Begin(r) ==
    /\ At(r, "idle") /\ final.by = "none"
    /\ Goto(r, "mkwork")
    /\ UNCHANGED <<copy, disk, faults>>

MakeDir(r, at, dir, next) ==
    /\ At(r, at)
    /\ dirs' = dirs \cup {dir}
    /\ Goto(r, next)
    /\ UNCHANGED <<copy, data, synced, part, work, final, lock, faults>>

(* _validate_completed_file                                                 *)
ValidBySize(i, f) == i # None /\ Len(data[i]) = Len(Recipe[f])
Valid(i, f) == i # None /\ data[i] = Recipe[f]

Advanced(r, n) == [Idle EXCEPT !.pc = "item", !.k = proc[r].k + 1, !.good = proc[r].good + n]

(* the next item: without the working directory its path is refused, a file
   that is whole already is used again                                      *)
Item(r) ==
    /\ At(r, "item") /\ proc[r].k <= Len(FileOrder)
    /\ proc' = [proc EXCEPT ![r] =
                  IF "work" \notin dirs THEN Advanced(r, 0)
                  ELSE [@ EXCEPT !.pc = IF Valid(work[Current(r)], Current(r)) THEN "discard" ELSE "open"]]
    /\ UNCHANGED <<copy, disk, faults>>

(* _discard_resume_file, by name and without the lock                       *)
Discard(r) ==
    /\ At(r, "discard")
    /\ part' = [part EXCEPT ![Current(r)] = None]
    /\ proc' = [proc EXCEPT ![r] = Advanced(r, 1)]
    /\ UNCHANGED <<copy, data, synced, work, dirs, final, lock, faults>>

InUse == Range(part) \cup Range(work) \cup Range(final.files) \cup {proc[r].fd : r \in Restorer}
Fresh == CHOOSE i \in Inode \ InUse : \A j \in Inode \ InUse : i <= j

(* an error on a file: its partial is kept, the lock goes with the open file *)
LocksWithout(r) == [i \in Inode |-> IF lock[i] = r THEN None ELSE lock[i]]
GiveUp(r) ==
    /\ lock' = LocksWithout(r)
    /\ proc' = [proc EXCEPT ![r] = Advanced(r, 0)]

(* _open_resume_file: open or create, then lock or give the file up          *)
Open(r) ==
    LET f == Current(r)
    IN  /\ At(r, "open")
        /\ \/ /\ "resume" \notin dirs
              /\ GiveUp(r) /\ UNCHANGED <<data, synced, part>>
           \/ /\ "resume" \in dirs /\ part[f] # None
              /\ proc' = [proc EXCEPT ![r].pc = "lock", ![r].fd = part[f]]
              /\ UNCHANGED <<data, synced, part, lock>>
           \/ /\ "resume" \in dirs /\ part[f] = None
              /\ part' = [part EXCEPT ![f] = Fresh]
              /\ data' = [data EXCEPT ![Fresh] = <<>>] /\ synced' = [synced EXCEPT ![Fresh] = 0]
              /\ proc' = [proc EXCEPT ![r].pc = "lock", ![r].fd = Fresh]
              /\ UNCHANGED lock
        /\ UNCHANGED <<copy, work, dirs, final, faults>>

Lock(r) ==
    LET i == proc[r].fd
    IN  /\ At(r, "lock")
        /\ \/ lock[i] # None /\ GiveUp(r)
           \/ lock[i] = None /\ lock' = [lock EXCEPT ![i] = r] /\ Goto(r, "prefix")
        /\ UNCHANGED <<copy, data, synced, part, work, dirs, final, faults>>

VerifiedNone(d, f) == 0
(* _verify_resume_prefix: the blocks the recipe verifies stay, the rest is cut *)
Verified(d, f) ==
    Max({n \in 0..Min({Len(d), Len(Recipe[f])}) : SubSeq(d, 1, n) = SubSeq(Recipe[f], 1, n)})

Prefix(r) ==
    LET i == proc[r].fd
        n == Verified(data[i], Current(r))
    IN  /\ At(r, "prefix")
        /\ data' = [data EXCEPT ![i] = SubSeq(@, 1, n)]
        /\ synced' = [synced EXCEPT ![i] = Min({@, n})]
        /\ proc' = [proc EXCEPT ![r].pc = "fetch", ![r].order = n]
        /\ UNCHANGED <<copy, part, work, dirs, final, lock, faults>>

(* fetch_many_raw_chunks: the sources one after the other; a copy that does
   not validate is passed over, and so is a source that does not answer      *)
ResolvedByFirst(c, down) ==
    \E n \in DOMAIN Source :
        /\ copy[Source[n]][c] = "good" /\ Source[n] \notin down
        /\ \A k \in 1..n - 1 : copy[Source[k]][c] = "none"
Resolved(c, down) == \E s \in ToSet(Source) \ down : copy[s][c] = "good"

(* one window; what another source had is cached in the first one           *)
Fetch(r) ==
    LET m == proc[r]
        asked == SubSeq(Recipe[Current(r)], m.order + 1,
                        Min({m.order + Window, Len(Recipe[Current(r)])}))
    IN  \E down \in SUBSET Remote :
          /\ At(r, "fetch") /\ m.window = <<>> /\ asked # <<>>
          /\ proc' = [proc EXCEPT ![r].window = [n \in DOMAIN asked |-> Resolved(asked[n], down)]]
          /\ copy' = [copy EXCEPT ![Head(Source)] =
                        [c \in DOMAIN @ |-> IF @[c] = "none" /\ c \in ToSet(asked) /\ Resolved(c, down)
                                            THEN "good" ELSE @[c]]]
          /\ IF down = {} THEN UNCHANGED faults ELSE Fault
          /\ UNCHANGED disk

Durable(f) == Len(Recipe[f]) >= SyncEvery

(* the next chunk of the window is written, with a checkpoint when one is due;
   one that is not there ends the file                                      *)
Write(r) ==
    LET m == proc[r]
        f == Current(r)
        sync == Durable(f) /\ m.since + 1 >= SyncEvery
    IN  /\ At(r, "fetch") /\ m.window # <<>>
        /\ \/ /\ Head(m.window)
              /\ data' = [data EXCEPT ![m.fd] = Append(@, Recipe[f][m.order + 1])]
              /\ synced' = IF sync THEN [synced EXCEPT ![m.fd] = Len(data[m.fd]) + 1] ELSE synced
              /\ proc' = [proc EXCEPT ![r].order = @ + 1, ![r].window = Tail(@),
                                      ![r].since = IF sync THEN 0 ELSE @ + 1]
              /\ UNCHANGED lock
           \/ ~Head(m.window) /\ GiveUp(r) /\ UNCHANGED <<data, synced>>
        /\ UNCHANGED <<copy, part, work, dirs, final, faults>>

(* all chunks are written: the lock is released.  The comparison of the size
   that the code makes here cannot fail, as TypeOK says                      *)
Close(r) ==
    LET m == proc[r]
        f == Current(r)
    IN  /\ At(r, "fetch") /\ m.window = <<>> /\ m.order = Len(Recipe[f])
        /\ synced' = IF Durable(f) THEN [synced EXCEPT ![m.fd] = Len(data[m.fd])] ELSE synced
        /\ lock' = LocksWithout(r)
        /\ proc' = [proc EXCEPT ![r].pc = "publish", ![r].fd = None]
        /\ UNCHANGED <<copy, data, part, work, dirs, final, faults>>

(* os.replace: whatever has the name of the partial by now is moved           *)
Publish(r) ==
    LET f == Current(r)
    IN  /\ At(r, "publish")
        /\ \/ /\ "work" \in dirs /\ part[f] # None
              /\ work' = [work EXCEPT ![f] = part[f]] /\ part' = [part EXCEPT ![f] = None]
              /\ proc' = [proc EXCEPT ![r] = Advanced(r, 1)]
           \/ /\ "work" \notin dirs \/ part[f] = None
              /\ proc' = [proc EXCEPT ![r] = Advanced(r, 0)]
              /\ UNCHANGED <<part, work>>
        /\ UNCHANGED <<copy, data, synced, dirs, final, lock, faults>>

(* after the last item: all were successful and the resume directory can be
   removed, or the restore is incomplete                                    *)
RemoveResume(r) ==
    LET done == proc[r].good = Len(FileOrder) /\ part = NoFiles
    IN  /\ At(r, "item") /\ proc[r].k > Len(FileOrder)
        /\ dirs' = IF done THEN dirs \ {"resume"} ELSE dirs
        /\ proc' = [proc EXCEPT ![r] = IF done THEN [Idle EXCEPT !.pc = "check"] ELSE Idle]
        /\ UNCHANGED <<copy, data, synced, part, work, final, lock, faults>>

Check(r) ==
    /\ At(r, "check")
    /\ Goto(r, IF final.by = "none" THEN "promote" ELSE "idle")
    /\ UNCHANGED <<copy, disk, faults>>

(* atomic_rename_noreplace                                                  *)
Promotable == "work" \in dirs /\ final.by = "none"

Promote(r) ==
    /\ At(r, "promote")
    /\ final' = IF Promotable THEN [by |-> "restore", files |-> work] ELSE final
    /\ work' = IF Promotable THEN NoFiles ELSE work
    /\ dirs' = IF Promotable THEN dirs \ {"work"} ELSE dirs
    /\ proc' = [proc EXCEPT ![r] = Idle]
    /\ UNCHANGED <<copy, data, synced, part, lock, faults>>

-----------------------------------------------------------------------------
(* Ctrl+C: what is written is made durable; if nothing has left the buffer
   yet, or the call fails, it is only written                               *)
Interrupt(r) ==
    /\ Fault
    /\ ~At(r, "idle")
    /\ \/ synced' = [i \in Inode |-> IF lock[i] = r THEN Len(data[i]) ELSE synced[i]]
       \/ UNCHANGED synced
    /\ lock' = LocksWithout(r) /\ proc' = [proc EXCEPT ![r] = Idle]
    /\ UNCHANGED <<copy, data, part, work, dirs, final>>

(* the process dies: what it wrote since its last checkpoint is in a buffer
   and may be lost, or its first block be written in part                   *)
Crash(r) ==
    /\ Fault
    /\ ~At(r, "idle")
    /\ \/ UNCHANGED data
       \/ \E i \in {j \in Inode : lock[j] = r}, torn \in {<<>>, <<Junk>>} :
            \E n \in Len(data[i]) - proc[r].since..Len(data[i]) - 1 :
               data' = [data EXCEPT ![i] = SubSeq(@, 1, n) \o torn]
    /\ lock' = LocksWithout(r) /\ proc' = [proc EXCEPT ![r] = Idle]
    /\ UNCHANGED <<copy, synced, part, work, dirs, final>>

(* power fails: blocks that are not synced are missing or junk               *)
PowerLoss ==
    /\ Fault
    /\ \E cut, bad \in SUBSET {i \in Inode : synced[i] < Len(data[i])} :
         /\ cut \cap bad = {}
         /\ data' = [i \in Inode |->
                       IF i \in cut THEN SubSeq(data[i], 1, synced[i])
                       ELSE IF i \in bad
                            THEN [n \in 1..Len(data[i]) |-> IF n <= synced[i] THEN data[i][n] ELSE Junk]
                       ELSE data[i]]
    /\ synced' = [i \in Inode |-> Len(data'[i])]
    /\ lock' = [i \in Inode |-> None] /\ proc' = [r \in Restorer |-> Idle]
    /\ UNCHANGED <<copy, part, work, dirs, final>>

(* a copy is collected or damaged; another program makes the final directory *)
LoseCopy(s, c) ==
    /\ Fault
    /\ copy[s][c] = "good" /\ \E x \in {"bad", "none"} : copy' = [copy EXCEPT ![s][c] = x]
    /\ UNCHANGED <<disk, proc>>

Foreign ==
    /\ Fault
    /\ final.by = "none" /\ final' = [NoFinal EXCEPT !.by = "other"]
    /\ UNCHANGED <<copy, data, synced, part, work, dirs, lock, proc>>

-----------------------------------------------------------------------------
Step(r) ==
    \/ MakeDir(r, "mkwork", "work", "mkresume") \/ MakeDir(r, "mkresume", "resume", "item")
    \/ Item(r) \/ Discard(r) \/ Open(r) \/ Lock(r) \/ Prefix(r) \/ Fetch(r) \/ Write(r)
    \/ Close(r) \/ Publish(r) \/ RemoveResume(r) \/ Check(r) \/ Promote(r)

Next ==
    \/ \E r \in Restorer : Begin(r) \/ Step(r) \/ Interrupt(r) \/ Crash(r)
    \/ PowerLoss \/ Foreign \/ \E s \in ToSet(Source), c \in Chunk : LoseCopy(s, c)

Spec == Init /\ [][Next]_vars

(* the user repeats the restore, and one that runs goes on                  *)
FairSpec == Spec /\ \A r \in Restorer : WF_vars(Begin(r)) /\ WF_vars(Step(r))

-----------------------------------------------------------------------------
(* Names refer to inodes, a lock belongs to the process that works on the
   inode and to no one after the file is closed, nobody else changes the
   length of an inode someone writes, and the counters of a process stay
   within the snapshot.                                                     *)
TypeOK ==
    /\ Range(part) \cup Range(work) \cup Range(final.files) \subseteq Inode \cup {None}
    /\ dirs \subseteq {"work", "resume"} /\ faults \in 0..MaxFaults
    /\ \A i \in Inode : synced[i] <= Len(data[i]) /\ ToSet(data[i]) \subseteq Chunk \cup {Junk}
    /\ \A i \in Inode : lock[i] # None => proc[lock[i]].fd = i
    /\ \A r \in Restorer : At(r, "fetch") => Len(data[proc[r].fd]) = proc[r].order
    /\ \A r \in Restorer : proc[r].good < proc[r].k /\ proc[r].k <= Len(FileOrder) + 1

(* The final directory appears with every file whole, also when earlier
   attempts crashed or lost power and left names with other contents; and it
   never takes the place of one that appears between the check and the move.
   This is so of two processes at a time.  Of three it is not: one creates a
   new partial after another has published its own, and the third, which was
   about to publish, moves the empty one over the whole file.               *)
PromotedWhole ==
    [][final' # final =>
          /\ final.by = "none"
          /\ final'.by = "restore" =>
                \A f \in File : final'.files[f] # None /\ data'[final'.files[f]] = Recipe[f]]_vars

(* How many blocks of f the next attempt need not fetch                     *)
Progress(f) ==
    Max({n \in 0..Len(Recipe[f]) : \E i \in {part[f], work[f], final.files[f]} \ {None} :
            IsPrefix(SubSeq(Recipe[f], 1, n), data[i])} \cup {0})

(* What an attempt has verified is kept for the next one ("Se conservará su
   parcial verificable para el próximo intento"): no step of a restore takes
   it away, neither an error nor an interrupt nor another process; of three
   processes, see PromotedWhole.                                            *)
ProgressKept ==
    [][(\E f \in File : Progress(f)' < Progress(f)) => PowerLoss \/ \E r \in Restorer : Crash(r)]_vars

(* While every chunk has a good copy somewhere, repeated restores reach a
   final directory, whatever crashes and damaged copies came before.        *)
EventuallyRestored ==
    \/ <>(final.by # "none")
    \/ <>[](\E c \in Chunk : \A s \in ToSet(Source) : copy[s][c] # "good")
=============================================================================
