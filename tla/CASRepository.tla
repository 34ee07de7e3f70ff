---------------------------- MODULE CASRepository ----------------------------
(***************************************************************************)
(* The local store of compressed chunks: threads of one process write each *)
(* chunk to a temporary file and rename it, with a cache of the            *)
(* directories known to exist.  Two threads may write the same chunk; a    *)
(* chunk directory may be deleted from outside; writes and renames may     *)
(* fail; the process may die.  Data lost with the power is not modelled    *)
(* (the store does not sync its files).                                    *)
(***************************************************************************)
EXTENDS Naturals, FiniteSets

CONSTANTS
    Thread, Chunk,
    DirOf,      \* DirOf[c]: the directory of chunk c
    MaxRemove,  \* bound: directories deleted from outside
    MaxFaults   \* bound: failing calls and crashes

Dir == {DirOf[c] : c \in Chunk}

NoCall == [pc |-> "idle", chunk |-> CHOOSE c \in Chunk : TRUE, attempt |-> 0]

VARIABLES
    dirs,       \* the directories there are
    ensured,    \* _ensured_dirs
    blob,       \* blob[c]: the file of c: "none", "part" or "whole"
    temp,       \* temp[t]: the temporary file of t
    call,       \* call[t]: the _write_once of t
    settled,    \* chunks a write has returned for, still undisturbed (history)
    removed, faults

vars == <<dirs, ensured, blob, temp, call, settled, removed, faults>>

D(t) == DirOf[call[t].chunk]
Fault == faults < MaxFaults /\ faults' = faults + 1

Init ==
    /\ dirs = {} /\ ensured = {}
    /\ blob = [c \in Chunk |-> "none"] /\ temp = [t \in Thread |-> "none"]
    /\ call = [t \in Thread |-> NoCall] /\ settled = {}
    /\ removed = 0 /\ faults = 0

At(t, label) == call[t].pc = label
Goto(t, label) == call' = [call EXCEPT ![t].pc = label]

(* The call of t ends, and so does its temporary file.                      *)
Leave(t) ==
    /\ call' = [call EXCEPT ![t] = NoCall]
    /\ temp' = [temp EXCEPT ![t] = "none"]
Return(t) == Leave(t) /\ settled' = settled \union {call[t].chunk}
Raise(t) == Leave(t) /\ UNCHANGED settled

Begin(t, c) ==
    /\ At(t, "idle")
    /\ IF blob[c] # "none"
       THEN settled' = settled \union {c} /\ UNCHANGED call
       ELSE call' = [call EXCEPT ![t] = [pc |-> "ensure", chunk |-> c, attempt |-> 0]]
            /\ UNCHANGED settled
    /\ UNCHANGED <<dirs, ensured, blob, temp, removed, faults>>

EnsureCached(t) ==
    /\ At(t, "ensure") /\ D(t) \in ensured
    /\ Goto(t, "open")
    /\ UNCHANGED <<dirs, ensured, blob, temp, settled, removed, faults>>

EnsureMakes(t) ==
    /\ At(t, "ensure") /\ D(t) \notin ensured
    /\ dirs' = dirs \union {D(t)} /\ ensured' = ensured \union {D(t)}
    /\ Goto(t, "open")
    /\ UNCHANGED <<blob, temp, settled, removed, faults>>

EnsureFails(t) ==
    /\ At(t, "ensure") /\ D(t) \notin ensured /\ Fault
    /\ Raise(t)
    /\ UNCHANGED <<dirs, ensured, blob, removed>>

Open(t) ==
    /\ At(t, "open") /\ D(t) \in dirs
    /\ temp' = [temp EXCEPT ![t] = "part"]
    /\ Goto(t, "write")
    /\ UNCHANGED <<dirs, ensured, blob, settled, removed, faults>>

(* The FileNotFoundError of open is raised as a CASRepositoryError, which   *)
(* the retry does not catch.                                               *)
OpenMissing(t) ==
    /\ At(t, "open") /\ D(t) \notin dirs
    /\ Raise(t)
    /\ UNCHANGED <<dirs, ensured, blob, removed, faults>>

Write(t) ==
    /\ At(t, "write")
    /\ temp' = [temp EXCEPT ![t] = IF @ = "part" THEN "whole" ELSE @]
    /\ Goto(t, "replace")
    /\ UNCHANGED <<dirs, ensured, blob, settled, removed, faults>>

WriteFails(t) ==
    /\ At(t, "write") /\ Fault
    /\ Raise(t)
    /\ UNCHANGED <<dirs, ensured, blob, removed>>

Replace(t) ==
    /\ At(t, "replace") /\ temp[t] # "none"
    /\ blob' = [blob EXCEPT ![call[t].chunk] = temp[t]]
    /\ Return(t)
    /\ UNCHANGED <<dirs, ensured, removed, faults>>

(* The temporary file went away with its directory: one more attempt, with  *)
(* the directory out of the cache.                                         *)
ReplaceMissing(t) ==
    /\ At(t, "replace") /\ temp[t] = "none"
    /\ IF call[t].attempt = 0
       THEN /\ ensured' = ensured \ {D(t)}
            /\ call' = [call EXCEPT ![t].pc = "ensure", ![t].attempt = 1]
            /\ UNCHANGED <<temp, settled>>
       ELSE Raise(t) /\ UNCHANGED ensured
    /\ UNCHANGED <<dirs, blob, removed, faults>>

ReplaceFails(t) ==
    /\ At(t, "replace") /\ Fault
    /\ IF blob[call[t].chunk] # "none" THEN Return(t) ELSE Raise(t)
    /\ UNCHANGED <<dirs, ensured, blob, removed>>

-----------------------------------------------------------------------------
(* The world around the process.                                            *)

RemoveDir(d) ==
    /\ d \in dirs /\ removed < MaxRemove
    /\ removed' = removed + 1
    /\ dirs' = dirs \ {d}
    /\ blob' = [c \in Chunk |-> IF DirOf[c] = d THEN "none" ELSE blob[c]]
    /\ temp' = [t \in Thread |-> IF D(t) = d THEN "none" ELSE temp[t]]
    /\ settled' = {c \in settled : DirOf[c] # d}
    /\ UNCHANGED <<ensured, call, faults>>

(* The process dies and starts again: its temporary files stay behind, and  *)
(* nothing reads them.                                                     *)
Crash ==
    /\ Fault
    /\ ensured' = {} /\ temp' = [t \in Thread |-> "none"]
    /\ call' = [t \in Thread |-> NoCall]
    /\ UNCHANGED <<dirs, blob, settled, removed>>

Next ==
    \/ \E t \in Thread :
         \/ \E c \in Chunk : Begin(t, c)
         \/ EnsureCached(t) \/ EnsureMakes(t) \/ EnsureFails(t)
         \/ Open(t) \/ OpenMissing(t) \/ Write(t) \/ WriteFails(t)
         \/ Replace(t) \/ ReplaceMissing(t) \/ ReplaceFails(t)
    \/ \E d \in Dir : RemoveDir(d)
    \/ Crash

Spec == Init /\ [][Next]_vars

-----------------------------------------------------------------------------
State == {"none", "part", "whole"}
TypeOK ==
    /\ blob \in [Chunk -> State] /\ temp \in [Thread -> State]
    /\ call \in [Thread -> [pc : {"idle", "ensure", "open", "write", "replace"},
                            chunk : Chunk \union {NoCall.chunk}, attempt : {0, 1}]]
    /\ \A t \in Thread : ~At(t, "idle") => call[t].chunk \in Chunk
    /\ settled \subseteq Chunk

(* No failure, crash or competing writer leaves a partial chunk under its   *)
(* name, and a chunk a write has returned for, whether it wrote it or      *)
(* found it, is there.                                                     *)
WholeOrAbsent == \A c \in Chunk : blob[c] # "part" /\ (c \in settled => blob[c] = "whole")

(* A thread that is not writing owns no temporary file, so failed writes     *)
(* leave none behind in the chunk directories.                               *)
NoTempLeft == \A t \in Thread : At(t, "idle") => temp[t] = "none"
=============================================================================
