--------------------------- MODULE ReplicationProofs ---------------------------
(***************************************************************************)
(* Proofs about the copies of chunks on other nodes: of the safety         *)
(* properties of ReplicateStream, the node that receives chunks, for every *)
(* number of streams, requests, slots and workers; of those of             *)
(* ChunkProtection, the commands that ask for copies and record them, for  *)
(* any nodes, scores, chunks, factors and numbers of faults; and of the    *)
(* writes of CASRepository, for any threads, directories and failures.     *)
(***************************************************************************)
EXTENDS ReplicateStream, ChunkProtection, FiniteSetTheorems, TLAPS

(***************************************************************************)
(* ReplicateStream.  EngineInv: what a finished commit says is true.       *)
(* ReaderInv, LoopInv: where the threads of a stream are, and that a       *)
(* stream whose client is still there is stopped by nobody but its own     *)
(* consumer, at the end.  FreshInv: a request that is being submitted has  *)
(* no commit yet.  PathInv: only requests with a hash are under way, and   *)
(* only done ones are acknowledged.  LosslessInv: as long as the client is *)
(* there and the reader has met no error, every request read is somewhere  *)
(* on that way.                                                            *)
(*                                                                         *)
(* The chunk store the workers write to is in the last part: CAS, for any  *)
(* threads, directories, deletions, failures and crashes.  A rename        *)
(* publishes whatever the temporary file holds, so StoreInv adds what a    *)
(* thread's temporary file holds at each step of _write_once.              *)
(***************************************************************************)
FutState == {"none", "queued", "writing", "done", "released"}
Status == {"none", "stored", "present", "rejected", "error"}

Types ==
    /\ active \in [Stream -> BOOLEAN] /\ stop \in [Stream -> BOOLEAN]
    /\ readPc \in [Stream -> {"read", "submit", "enter", "enqueue", "sentinel", "sentinelPut", "done"}]
    /\ errors \in [Stream -> BOOLEAN] /\ readIdx \in [Stream -> Nat]
    /\ queue \in [Stream -> Seq(Nat)]
    /\ consPc \in [Stream -> {"drain", "get", "wait", "yield", "finish", "finally", "join", "end"}]
    /\ inflight \in [Stream -> SUBSET Nat] /\ yielding \in [Stream -> SUBSET Nat]
    /\ acks \in [Stream -> SUBSET Nat] /\ finished \in [Stream -> BOOLEAN]
    /\ outcome \in [Stream -> {"none", "ok", "error", "cancelled"}]
    /\ DOMAIN fut = Stream /\ DOMAIN result = Stream
    /\ \A s \in Stream : fut[s] \in [Requests(s) -> FutState] /\ result[s] \in [Requests(s) -> Status]

(* the requests that deserve an ACK *)
Hashed(s) == {i \in Requests(s) : Sent[s][i] # NoHash}

InHand == {"submit", "enter", "enqueue"}
ReadAll == {"sentinel", "sentinelPut", "done"}

EngineInv ==
    /\ cas \subseteq Hash \ Bad
    /\ \A s \in Stream : \A i \in Requests(s) :
          /\ fut[s][i] # "none" => i \in Hashed(s)
          /\ fut[s][i] = "writing" => Sent[s][i] \notin Bad
          /\ IsDone(s, i) => result[s][i] # "none"
          /\ result[s][i] \in {"stored", "present"} => Sent[s][i] \in cas

ReaderInv(s) ==
    /\ readIdx[s] <= Len(Sent[s])
    /\ readPc[s] \in InHand => readIdx[s] \in Hashed(s)
    /\ finished[s] \/ HasSentinel(queue[s]) => readPc[s] = "done"

FreshInv(s) ==
    \A i \in Requests(s) : fut[s][i] # "none" =>
        i <= readIdx[s] /\ (readPc[s] \in {"submit", "enter"} => i # readIdx[s])

LoopInv(s) ==
    /\ active[s] /\ consPc[s] # "yield" => yielding[s] = {}
    /\ consPc[s] = "get" => inflight[s] = {}
    /\ consPc[s] = "finish" => finished[s] /\ inflight[s] = {} /\ queue[s] = <<>>
    /\ active[s] => consPc[s] \notin {"finally", "end"}
    /\ active[s] /\ stop[s] => consPc[s] = "join"

PathInv(s) ==
    /\ \A k \in 1..Len(queue[s]) : queue[s][k] # Sentinel => queue[s][k] \in Hashed(s)
    /\ inflight[s] \subseteq Hashed(s)
    /\ \A i \in yielding[s] \cup acks[s] : i \in Hashed(s) /\ IsDone(s, i)

(* request i, which has been read, is on its way to an ACK or has it *)
OnWay(s, i) ==
    \/ i \in acks[s] \cup yielding[s] \cup inflight[s]
    \/ \E k \in 1..Len(queue[s]) : queue[s][k] = i
    \/ readPc[s] \in InHand /\ i = readIdx[s]

LosslessInv(s) ==
    /\ active[s] /\ consPc[s] # "join" /\ ~errors[s] =>
          /\ readPc[s] \in ReadAll => readIdx[s] = Len(Sent[s])
          /\ \A i \in Hashed(s) : i <= readIdx[s] => OnWay(s, i)
    /\ outcome[s] = "ok" => consPc[s] \in {"join", "end"}
    /\ outcome[s] = "ok" /\ (active[s] \/ consPc[s] = "end") => acks[s] = Hashed(s)

StreamInv(s) == ReaderInv(s) /\ FreshInv(s) /\ LoopInv(s) /\ PathInv(s) /\ LosslessInv(s)

StreamsInv == Types /\ EngineInv /\ \A s \in Stream : StreamInv(s)

-----------------------------------------------------------------------------
(* Nothing is read, queued or acknowledged at first.                         *)
LEMMA StreamInitIInv == StreamInit => StreamsInv
<1> SUFFICES ASSUME StreamInit PROVE StreamsInv
  BY Zenon
<1> USE StreamAssumption DEF StreamInit
<1>1. Types
  BY DEF Types, FutState, Status, Requests
<1>2. EngineInv
  BY Zenon DEF EngineInv, IsDone, Requests
<1>3. ASSUME NEW s \in Stream PROVE StreamInv(s)
  <2>1. queue[s] = <<>> /\ Len(Sent[s]) \in Nat
    OBVIOUS
  <2>2. ReaderInv(s) /\ LoopInv(s)
    BY <2>1 DEF ReaderInv, LoopInv, HasSentinel, InHand
  <2>3. PathInv(s) /\ LosslessInv(s)
    BY <2>1 DEF PathInv, LosslessInv, Hashed, Requests, ReadAll
  <2>4. FreshInv(s)
    BY Zenon DEF FreshInv
  <2> QED BY Zenon, <2>2, <2>3, <2>4 DEF StreamInv
<1> QED BY Zenon, <1>1, <1>2, <1>3 DEF StreamsInv

(* The state of stream t, but for its commits, does not change.              *)
Same(t) ==
    /\ active'[t] = active[t] /\ stop'[t] = stop[t] /\ queue'[t] = queue[t]
    /\ readPc'[t] = readPc[t] /\ readIdx'[t] = readIdx[t] /\ errors'[t] = errors[t]
    /\ consPc'[t] = consPc[t] /\ inflight'[t] = inflight[t] /\ yielding'[t] = yielding[t]
    /\ finished'[t] = finished[t] /\ acks'[t] = acks[t] /\ outcome'[t] = outcome[t]

(* What is done stays done; the engine makes no commit by itself.            *)
DoneStays(t) == \A i \in Requests(t) : IsDone(t, i) => IsDone(t, i)'
NoneNew(t) == \A i \in Requests(t) : fut[t][i] = "none" => fut'[t][i] = "none"

(* A stream that does not move keeps its invariant whatever the engine does. *)
LEMMA SameKeeps ==
  ASSUME NEW t \in Stream, StreamInv(t), Same(t), DoneStays(t), NoneNew(t)
  PROVE  StreamInv(t)'
<1>1. ReaderInv(t)'
  BY Zenon DEF StreamInv, Same, ReaderInv, HasSentinel, Hashed
<1>2. LoopInv(t)'
  BY Zenon DEF StreamInv, Same, LoopInv
<1>3. PathInv(t)'
  BY Zenon DEF StreamInv, Same, PathInv, DoneStays, Hashed
<1>4. LosslessInv(t)'
  BY Zenon DEF StreamInv, Same, LosslessInv, OnWay, Hashed
<1>5. FreshInv(t)'
  BY Zenon DEF StreamInv, Same, FreshInv, NoneNew
<1> QED BY Zenon, <1>1, <1>2, <1>3, <1>4, <1>5 DEF StreamInv

(* It is enough to look at the stream that moves.                            *)
LEMMA OneMoves ==
  ASSUME StreamsInv, NEW s \in Stream, Types', EngineInv', StreamInv(s)',
         \A t \in Stream \ {s} : Same(t) /\ DoneStays(t) /\ NoneNew(t)
  PROVE  StreamsInv'
<1>1. ASSUME NEW t \in Stream PROVE StreamInv(t)'
  BY Zenon, SameKeeps DEF StreamsInv
<1> QED BY Zenon, <1>1 DEF StreamsInv

(* A step that leaves the commits and the store alone.                       *)
LEMMA EngineRests ==
  ASSUME StreamsInv, UNCHANGED <<fut, result, cas>>
  PROVE  EngineInv' /\ \A t \in Stream : DoneStays(t) /\ NoneNew(t)
  BY Zenon DEF StreamsInv, EngineInv, DoneStays, NoneNew, IsDone, Hashed

(* The reader does not begin to submit a request.                            *)
LEMMA FreshKeeps ==
  ASSUME NEW s \in Stream, FreshInv(s), fut' = fut, readIdx'[s] = readIdx[s],
         readPc'[s] \in {"submit", "enter"} => readPc[s] \in {"submit", "enter"}
  PROVE  FreshInv(s)'
  BY Zenon DEF FreshInv

-----------------------------------------------------------------------------
(* Cancellation: it only makes the hypotheses of the invariant weaker.       *)
LEMMA CancelPreserves ==
  ASSUME StreamsInv, NEW s \in Stream, Cancel(s) \/ StopCallback(s)
  PROVE  StreamsInv'
<1> USE DEF Cancel, StopCallback, readerVars, consumerVars, engineVars
<1>1. Types'
  BY Zenon DEF StreamsInv, Types
<1>2. EngineInv' /\ \A t \in Stream : DoneStays(t) /\ NoneNew(t)
  BY Zenon, EngineRests
<1>3. \A t \in Stream \ {s} : Same(t)
  BY Zenon DEF StreamsInv, Types, Same
<1>4. StreamInv(s)
  BY Zenon DEF StreamsInv
<1>5. /\ active'[s] = FALSE
      /\ UNCHANGED <<queue, readPc, readIdx, errors, consPc, inflight, yielding, finished, acks, outcome, fut>>
  BY DEF StreamsInv, Types
<1>6. ReaderInv(s)' /\ LoopInv(s)'
  BY Zenon, <1>4, <1>5 DEF StreamInv, ReaderInv, LoopInv, HasSentinel, Hashed
<1>7. PathInv(s)' /\ LosslessInv(s)'
  BY Zenon, <1>4, <1>5 DEF StreamInv, PathInv, LosslessInv, Hashed, IsDone
<1>8. FreshInv(s)'
  BY Zenon, <1>4, <1>5, FreshKeeps DEF StreamInv
<1> QED BY Zenon, <1>1, <1>2, <1>3, <1>6, <1>7, <1>8, OneMoves DEF StreamInv

-----------------------------------------------------------------------------
(* The reader *)

Quiet(s) == ReadRequest(s) \/ ReadEnd(s) \/ ReadRaises(s) \/ AcquireSlot(s) \/ SubmitRaises(s)
              \/ EnqueueStopped(s) \/ SentinelWaits(s) \/ SentinelFull(s)

(* The steps of the reader that neither queue nor submit anything.           *)
LEMMA QuietPreserves ==
  ASSUME StreamsInv, NEW s \in Stream, Quiet(s)
  PROVE  StreamsInv'
<1> USE DEF readerVars, consumerVars, engineVars
<1>0. /\ UNCHANGED <<active, queue, consPc, inflight, yielding, finished, acks, outcome, fut, result, cas>>
      /\ readPc[s] # "done" /\ readPc'[s] # "done"
  BY Zenon DEF Quiet, ReadRequest, ReadEnd, ReadRaises, AcquireSlot, SubmitRaises, EnqueueStopped, SentinelWaits,
     SentinelFull, ReaderRaises, StreamsInv, Types
<1>1. Types'
  <2>1. stop' \in [Stream -> BOOLEAN]
    <3>1. stop' = stop \/ \E b \in BOOLEAN : stop' = [stop EXCEPT ![s] = b]
      BY Zenon DEF Quiet, ReadRequest, ReadEnd, ReadRaises, AcquireSlot, SubmitRaises, EnqueueStopped,
         SentinelWaits, SentinelFull, Stopped
    <3> QED BY Zenon, <3>1 DEF StreamsInv, Types
  <2>2. errors' \in [Stream -> BOOLEAN]
    <3>1. errors' = errors \/ \E b \in BOOLEAN : errors' = [errors EXCEPT ![s] = b]
      BY Zenon DEF Quiet, ReadRequest, ReadEnd, ReadRaises, AcquireSlot, SubmitRaises, EnqueueStopped,
         SentinelWaits, SentinelFull, ReaderRaises
    <3> QED BY Zenon, <3>1 DEF StreamsInv, Types
  <2>3. readIdx' \in [Stream -> Nat]
    <3>1. readIdx' = readIdx \/ readIdx' = [readIdx EXCEPT ![s] = @ + 1]
      BY Zenon DEF Quiet, ReadRequest, ReadEnd, ReadRaises, AcquireSlot, SubmitRaises, EnqueueStopped,
         SentinelWaits, SentinelFull
    <3>2. readIdx \in [Stream -> Nat] /\ readIdx[s] + 1 \in Nat
      BY DEF StreamsInv, Types
    <3>3. CASE readIdx' = [readIdx EXCEPT ![s] = readIdx[s] + 1]
      BY Zenon, <3>2, <3>3
    <3> QED BY Zenon, <3>1, <3>2, <3>3
  <2>4. readPc' \in [Stream -> {"read", "submit", "enter", "enqueue", "sentinel", "sentinelPut", "done"}]
    <3>1. readPc' = readPc \/ \E v \in {"read", "submit", "enter", "sentinel", "sentinelPut"} :
                                 readPc' = [readPc EXCEPT ![s] = v]
      <4>1. CASE ReadRequest(s)
        BY Zenon, <4>1 DEF ReadRequest
      <4>2. CASE ~ReadRequest(s)
        BY Zenon, <4>2 DEF Quiet, ReadEnd, ReadRaises, AcquireSlot, SubmitRaises, EnqueueStopped,
           SentinelWaits, SentinelFull, ReaderRaises
      <4> QED BY Zenon, <4>1, <4>2
    <3> QED BY Zenon, <3>1 DEF StreamsInv, Types
  <2> QED BY Zenon, <1>0, <2>1, <2>2, <2>3, <2>4 DEF StreamsInv, Types
<1>2. EngineInv' /\ \A t \in Stream : DoneStays(t) /\ NoneNew(t)
  BY Zenon, <1>0, EngineRests
<1>3. \A t \in Stream \ {s} : Same(t)
  BY ZenonT(30), <1>0 DEF Quiet, ReadRequest, ReadEnd, ReadRaises, AcquireSlot, SubmitRaises, EnqueueStopped, SentinelWaits,
     SentinelFull, ReaderRaises, StreamsInv, Types, Same
<1>4. StreamInv(s)
  BY Zenon DEF StreamsInv
<1>5. stop'[s] => stop[s] \/ ~active[s]
  BY Zenon DEF Quiet, ReadRequest, ReadEnd, ReadRaises, AcquireSlot, SubmitRaises, EnqueueStopped, SentinelWaits,
     SentinelFull, ReaderRaises, StreamsInv, Types, Stopped
<1>6. LoopInv(s)'
  BY Zenon, <1>0, <1>4, <1>5 DEF StreamInv, LoopInv
<1>7. PathInv(s)'
  BY Zenon, <1>0, <1>4 DEF StreamInv, PathInv, Hashed, IsDone
<1>8. ~finished[s] /\ ~HasSentinel(queue[s])
  BY Zenon, <1>0, <1>4 DEF StreamInv, ReaderInv
<1>9. Len(Sent[s]) \in Nat /\ readIdx[s] \in Nat
  BY DEF StreamsInv, Types
<1>10. CASE ReadRequest(s)
  <2>1. /\ readIdx'[s] = readIdx[s] + 1 /\ readIdx[s] < Len(Sent[s]) /\ readPc[s] = "read" /\ errors' = errors
        /\ readPc'[s] = IF Stopped(s) THEN "sentinel"
                        ELSE IF Sent[s][readIdx[s] + 1] = NoHash THEN "read" ELSE "submit"
    BY Zenon, <1>10 DEF ReadRequest, StreamsInv, Types
  <2>2. ReaderInv(s)'
    BY <1>0, <1>4, <1>8, <1>9, <2>1 DEF StreamInv, ReaderInv, HasSentinel, Hashed, Requests, InHand
  <2>3. ASSUME active[s], consPc[s] # "join" PROVE ~Stopped(s)
    BY Zenon, <1>4, <2>3 DEF StreamInv, LoopInv, Stopped
  <2>4. ASSUME active[s], consPc[s] # "join", ~errors[s], NEW i \in Hashed(s), i <= readIdx[s] + 1
        PROVE  OnWay(s, i)'
    <3>1. i \in Nat
      BY DEF Hashed, Requests
    <3>2. CASE i = readIdx[s] + 1
      BY Zenon, <2>1, <2>3, <2>4, <3>2 DEF OnWay, InHand, Hashed
    <3>3. CASE i <= readIdx[s]
      BY Zenon, <1>0, <1>4, <2>1, <2>4, <3>3 DEF StreamInv, LosslessInv, OnWay, InHand
    <3> QED BY <1>9, <2>4, <3>1, <3>2, <3>3
  <2>5. LosslessInv(s)'
    BY Zenon, <1>0, <1>4, <2>1, <2>3, <2>4 DEF StreamInv, LosslessInv, ReadAll, Hashed
  <2>6. FreshInv(s)'
    BY <1>0, <1>4, <1>9, <2>1 DEF StreamInv, FreshInv, Requests
  <2> QED BY Zenon, <1>1, <1>2, <1>3, <1>6, <1>7, <2>2, <2>5, <2>6, OneMoves DEF StreamInv
<1>11. CASE ReadEnd(s) \/ AcquireSlot(s) \/ SentinelWaits(s) \/ SentinelFull(s)
  <2>1. /\ readIdx' = readIdx /\ errors' = errors
        /\ readPc'[s] \in InHand <=> readPc[s] \in InHand
        /\ readPc'[s] \in ReadAll => readPc[s] \in ReadAll \/ readIdx[s] = Len(Sent[s])
    BY Zenon, <1>11 DEF ReadEnd, AcquireSlot, SentinelWaits, SentinelFull, StreamsInv, Types, InHand, ReadAll
  <2>2. ReaderInv(s)'
    BY Zenon, <1>0, <1>4, <1>8, <2>1 DEF StreamInv, ReaderInv, HasSentinel, Hashed
  <2>3. LosslessInv(s)'
    BY Zenon, <1>0, <1>4, <2>1 DEF StreamInv, LosslessInv, OnWay, Hashed
  <2>4. FreshInv(s)'
    <3>1. readPc'[s] \in {"submit", "enter"} => readPc[s] \in {"submit", "enter"}
      BY Zenon, <1>11 DEF ReadEnd, AcquireSlot, SentinelWaits, SentinelFull, StreamsInv, Types
    <3> QED BY Zenon, <1>0, <1>4, <2>1, <3>1, FreshKeeps DEF StreamInv
  <2> QED BY Zenon, <1>1, <1>2, <1>3, <1>6, <1>7, <2>2, <2>3, <2>4, OneMoves DEF StreamInv
<1>12. CASE ReadRaises(s) \/ SubmitRaises(s) \/ EnqueueStopped(s)
  <2>1. /\ readIdx' = readIdx /\ readPc'[s] = "sentinel"
        /\ errors'[s] \/ stop[s] \/ ~active[s]
    BY Zenon, <1>12 DEF ReadRaises, SubmitRaises, EnqueueStopped, ReaderRaises, Stopped, StreamsInv, Types
  <2>2. ReaderInv(s)'
    BY Zenon, <1>0, <1>4, <1>8, <2>1 DEF StreamInv, ReaderInv, HasSentinel, Hashed, InHand
  <2>3. LosslessInv(s)'
    BY Zenon, <1>0, <1>4, <2>1 DEF StreamInv, LosslessInv, LoopInv, Hashed
  <2>4. FreshInv(s)'
    BY Zenon, <1>0, <1>4, <2>1, FreshKeeps DEF StreamInv
  <2> QED BY Zenon, <1>1, <1>2, <1>3, <1>6, <1>7, <2>2, <2>3, <2>4, OneMoves DEF StreamInv
<1> QED BY Zenon, <1>10, <1>11, <1>12 DEF Quiet

(* A queue with one item more.                                               *)
LEMMA AppendFacts ==
  ASSUME NEW q \in Seq(Nat), NEW x \in Nat
  PROVE  /\ Len(Append(q, x)) = Len(q) + 1 /\ Len(q) \in Nat
         /\ \A k \in 1..Len(q) : Append(q, x)[k] = q[k]
         /\ Append(q, x)[Len(q) + 1] = x
  OBVIOUS

(* A queue without its head.                                                 *)
LEMMA TailFacts ==
  ASSUME NEW q \in Seq(Nat), q # <<>>
  PROVE  /\ Tail(q) \in Seq(Nat) /\ Head(q) = q[1] /\ Head(q) \in Nat
         /\ Len(Tail(q)) = Len(q) - 1 /\ Len(q) \in Nat \ {0}
         /\ \A k \in 1..Len(q) - 1 : Tail(q)[k] = q[k + 1]
  OBVIOUS

-----------------------------------------------------------------------------
(* enqueue() and the sentinel: the request in hand goes into the queue.      *)
LEMMA PutPreserves ==
  ASSUME StreamsInv, NEW s \in Stream, Enqueue(s) \/ SentinelPut(s)
  PROVE  StreamsInv'
<1> USE DEF readerVars, consumerVars, engineVars
<1> DEFINE x == IF Enqueue(s) THEN readIdx[s] ELSE Sentinel
<1>0. /\ UNCHANGED <<active, stop, readIdx, errors, consPc, inflight, yielding, finished, acks, outcome, fut, result, cas>>
      /\ queue' = [queue EXCEPT ![s] = Append(@, x)]
      /\ readPc[s] = IF Enqueue(s) THEN "enqueue" ELSE "sentinelPut"
      /\ readPc' = [readPc EXCEPT ![s] = IF Enqueue(s) THEN "read" ELSE "done"]
  BY Zenon DEF Enqueue, SentinelPut
<1>1. x \in Nat
  BY Zenon DEF StreamsInv, Types, Sentinel
<1> HIDE DEF x
<1>2. Types'
  <2>1. queue' \in [Stream -> Seq(Nat)]
    BY <1>0, <1>1 DEF StreamsInv, Types
  <2>2. readPc' \in [Stream -> {"read", "submit", "enter", "enqueue", "sentinel", "sentinelPut", "done"}]
    BY Zenon, <1>0 DEF StreamsInv, Types
  <2> QED BY Zenon, <1>0, <2>1, <2>2 DEF StreamsInv, Types
<1>3. EngineInv' /\ \A t \in Stream : DoneStays(t) /\ NoneNew(t)
  BY Zenon, <1>0, EngineRests
<1>4. \A t \in Stream \ {s} : Same(t)
  BY Zenon, <1>0 DEF StreamsInv, Types, Same
<1>5. StreamInv(s) /\ queue[s] \in Seq(Nat)
  BY Zenon DEF StreamsInv, Types
<1>6. /\ queue'[s] = Append(queue[s], x)
      /\ readPc'[s] = IF Enqueue(s) THEN "read" ELSE "done"
  BY Zenon, <1>0 DEF StreamsInv, Types
<1>7. ~finished[s] /\ ~HasSentinel(queue[s]) /\ consPc[s] # "finish"
  BY Zenon, <1>0, <1>5 DEF StreamInv, ReaderInv, LoopInv
<1>8. Enqueue(s) => x = readIdx[s] /\ readIdx[s] \in Hashed(s) /\ x # Sentinel
  <2> SUFFICES ASSUME Enqueue(s) PROVE x = readIdx[s] /\ readIdx[s] \in Hashed(s) /\ x # Sentinel
    BY Zenon
  <2>1. x = readIdx[s]
    BY Zenon DEF x
  <2>2. readIdx[s] \in Hashed(s)
    BY Zenon, <1>0, <1>5 DEF StreamInv, ReaderInv, InHand
  <2>3. \A i \in Hashed(s) : i # Sentinel
    BY DEF Hashed, Requests, Sentinel
  <2> QED BY Zenon, <2>1, <2>2, <2>3
<1>9. ~Enqueue(s) => x = Sentinel
  BY Zenon DEF x
<1>10. /\ Len(queue'[s]) = Len(queue[s]) + 1 /\ Len(queue[s]) \in Nat
       /\ \A k \in 1..Len(queue[s]) : queue'[s][k] = queue[s][k]
       /\ queue'[s][Len(queue[s]) + 1] = x
  BY <1>1, <1>5, <1>6, AppendFacts
<1>11. \A k \in 1..Len(queue'[s]) : k \in 1..Len(queue[s]) \/ k = Len(queue[s]) + 1
  BY <1>10
<1>12. ReaderInv(s)'
  <2>1. Enqueue(s) => ~HasSentinel(queue[s])'
    BY Zenon, <1>7, <1>8, <1>10, <1>11 DEF HasSentinel
  <2> QED BY <1>0, <1>5, <1>6, <1>7, <2>1 DEF StreamInv, ReaderInv, Hashed, InHand
<1>13. LoopInv(s)'
  BY Zenon, <1>0, <1>5, <1>7 DEF StreamInv, LoopInv
<1>14. PathInv(s)'
  <2>1. ASSUME NEW k \in 1..Len(queue'[s]), queue'[s][k] # Sentinel PROVE queue'[s][k] \in Hashed(s)
    BY Zenon, <1>5, <1>8, <1>9, <1>10, <1>11, <2>1 DEF StreamInv, PathInv
  <2> QED BY Zenon, <1>0, <1>5, <2>1 DEF StreamInv, PathInv, Hashed, IsDone
<1>15. LosslessInv(s)'
  <2>1. ASSUME NEW i \in Hashed(s), OnWay(s, i) PROVE OnWay(s, i)'
    <3>1. CASE i \in acks[s] \cup yielding[s] \cup inflight[s]
      BY Zenon, <1>0, <3>1 DEF OnWay
    <3>2. CASE \E k \in 1..Len(queue[s]) : queue[s][k] = i
      <4>1. PICK k \in 1..Len(queue[s]) : queue[s][k] = i
        BY Zenon, <3>2
      <4>2. k \in 1..Len(queue'[s]) /\ queue'[s][k] = i
        BY <1>10, <4>1
      <4> QED BY Zenon, <4>2 DEF OnWay
    <3>3. CASE readPc[s] \in InHand /\ i = readIdx[s]
      <4>1. Enqueue(s)
        BY Zenon, <1>0, <3>3 DEF InHand
      <4>2. Len(queue[s]) + 1 \in 1..Len(queue'[s]) /\ queue'[s][Len(queue[s]) + 1] = i
        BY <1>8, <1>10, <3>3, <4>1
      <4> QED BY Zenon, <4>2 DEF OnWay
    <3> QED BY Zenon, <2>1, <3>1, <3>2, <3>3 DEF OnWay
  <2>2. readPc'[s] \in ReadAll => readPc[s] \in ReadAll
    BY <1>0, <1>6 DEF ReadAll
  <2> QED BY Zenon, <1>0, <1>5, <2>1, <2>2 DEF StreamInv, LosslessInv, Hashed
<1>16. FreshInv(s)'
  BY <1>0, <1>5, <1>6, FreshKeeps DEF StreamInv
<1> QED BY Zenon, <1>2, <1>3, <1>4, <1>12, <1>13, <1>14, <1>15, <1>16, OneMoves DEF StreamInv

(* A stopped stream loses its queue, and nobody is promised anything.        *)
LEMMA SentinelStoppedPreserves ==
  ASSUME StreamsInv, NEW s \in Stream, SentinelStopped(s)
  PROVE  StreamsInv'
<1> USE DEF readerVars, consumerVars, engineVars
<1>0. /\ UNCHANGED <<active, stop, readIdx, errors, consPc, inflight, yielding, finished, acks, outcome, fut, result, cas>>
      /\ queue' = [queue EXCEPT ![s] = <<Sentinel>>]
      /\ readPc[s] = "sentinel" /\ readPc' = [readPc EXCEPT ![s] = "done"] /\ (stop[s] \/ ~active[s])
  BY Zenon DEF SentinelStopped, Stopped
<1>2. Types'
  <2>1. queue' \in [Stream -> Seq(Nat)]
    BY <1>0 DEF StreamsInv, Types, Sentinel
  <2>2. readPc' \in [Stream -> {"read", "submit", "enter", "enqueue", "sentinel", "sentinelPut", "done"}]
    BY Zenon, <1>0 DEF StreamsInv, Types
  <2> QED BY Zenon, <1>0, <2>1, <2>2 DEF StreamsInv, Types
<1>3. EngineInv' /\ \A t \in Stream : DoneStays(t) /\ NoneNew(t)
  BY Zenon, <1>0, EngineRests
<1>4. \A t \in Stream \ {s} : Same(t)
  BY Zenon, <1>0 DEF StreamsInv, Types, Same
<1>5. StreamInv(s)
  BY Zenon DEF StreamsInv
<1>6. queue'[s] = <<Sentinel>> /\ readPc'[s] = "done"
  BY Zenon, <1>0 DEF StreamsInv, Types
<1>7. consPc[s] # "finish"
  BY Zenon, <1>0, <1>5 DEF StreamInv, ReaderInv, LoopInv
<1>8. ReaderInv(s)' /\ LoopInv(s)'
  BY Zenon, <1>0, <1>5, <1>6, <1>7 DEF StreamInv, ReaderInv, LoopInv, Hashed, InHand
<1>9. PathInv(s)'
  BY <1>0, <1>5, <1>6 DEF StreamInv, PathInv, Hashed, IsDone
<1>10. LosslessInv(s)'
  BY Zenon, <1>0, <1>5 DEF StreamInv, LosslessInv, LoopInv, Hashed
<1>11. FreshInv(s)'
  BY Zenon, <1>0, <1>5, <1>6, FreshKeeps DEF StreamInv
<1> QED BY Zenon, <1>2, <1>3, <1>4, <1>8, <1>9, <1>10, <1>11, OneMoves DEF StreamInv

-----------------------------------------------------------------------------
(* submit(): the request becomes a commit, or the slot goes back.            *)
LEMMA EnterEnginePreserves ==
  ASSUME StreamsInv, NEW s \in Stream, EnterEngine(s)
  PROVE  StreamsInv'
<1> USE DEF readerVars, consumerVars, engineVars
<1>0. /\ UNCHANGED <<active, stop, queue, readIdx, consPc, inflight, yielding, finished, acks, outcome, result, cas>>
      /\ readPc[s] = "enter"
  BY Zenon DEF EnterEngine
<1>4. StreamInv(s)
  BY Zenon DEF StreamsInv
<1>8. ~finished[s] /\ ~HasSentinel(queue[s]) /\ readIdx[s] \in Hashed(s)
  BY Zenon, <1>0, <1>4 DEF StreamInv, ReaderInv, InHand
<1>1. CASE EngineClosed
  <2>0. ReaderRaises(s) /\ fut' = fut
    BY Zenon, <1>1 DEF EnterEngine
  <2>1. readPc'[s] = "sentinel" /\ (errors'[s] \/ stop[s])
    BY Zenon, <2>0 DEF ReaderRaises, StreamsInv, Types
  <2>2. Types'
    BY Zenon, <1>0, <2>0 DEF ReaderRaises, StreamsInv, Types
  <2>3. EngineInv' /\ \A t \in Stream : DoneStays(t) /\ NoneNew(t)
    BY Zenon, <1>0, <2>0, EngineRests
  <2>4. \A t \in Stream \ {s} : Same(t)
    BY Zenon, <1>0, <2>0 DEF ReaderRaises, StreamsInv, Types, Same
  <2>5. ReaderInv(s)' /\ LoopInv(s)'
    BY Zenon, <1>0, <1>4, <1>8, <2>1 DEF StreamInv, ReaderInv, LoopInv, HasSentinel, Hashed, InHand
  <2>6. PathInv(s)'
    BY Zenon, <1>0, <1>4, <2>0 DEF StreamInv, PathInv, Hashed, IsDone
  <2>7. LosslessInv(s)'
    BY Zenon, <1>0, <1>4, <2>1 DEF StreamInv, LosslessInv, LoopInv, Hashed
  <2>8. FreshInv(s)'
    BY Zenon, <1>0, <1>4, <2>0, <2>1, FreshKeeps DEF StreamInv
  <2> QED BY Zenon, <2>2, <2>3, <2>4, <2>5, <2>6, <2>7, <2>8, OneMoves DEF StreamInv
<1>2. CASE ~EngineClosed
  <2>0. /\ fut' = [fut EXCEPT ![s][readIdx[s]] = "queued"] /\ readPc' = [readPc EXCEPT ![s] = "enqueue"]
        /\ errors' = errors
    BY Zenon, <1>2 DEF EnterEngine
  <2>9. fut[s][readIdx[s]] = "none"
    BY Zenon, <1>0, <1>4, <1>8 DEF StreamInv, FreshInv, Hashed
  <2>2. Types'
    BY Zenon, <1>0, <1>8, <2>0 DEF StreamsInv, Types, FutState, Hashed
  <2>10. ASSUME NEW t \in Stream, NEW i \in Requests(t)
         PROVE  fut'[t][i] = IF t = s /\ i = readIdx[s] THEN "queued" ELSE fut[t][i]
    BY Zenon, <1>8, <2>0 DEF StreamsInv, Types
  <2>3. /\ EngineInv' /\ \A t \in Stream : DoneStays(t)
        /\ \A t \in Stream \ {s} : NoneNew(t)
    <3>1. EngineInv'
      BY <1>0, <1>8, <2>10 DEF StreamsInv, EngineInv, IsDone, Hashed
    <3>2. ASSUME NEW t \in Stream PROVE DoneStays(t)
      BY Zenon, <2>9, <2>10 DEF DoneStays, IsDone
    <3>3. ASSUME NEW t \in Stream \ {s} PROVE NoneNew(t)
      BY Zenon, <2>10 DEF NoneNew
    <3> QED BY Zenon, <3>1, <3>2, <3>3
  <2>4. \A t \in Stream \ {s} : Same(t)
    BY Zenon, <1>0, <2>0 DEF StreamsInv, Types, Same
  <2>1. readPc'[s] = "enqueue"
    BY Zenon, <2>0 DEF StreamsInv, Types
  <2>5. ReaderInv(s)' /\ LoopInv(s)'
    BY Zenon, <1>0, <1>4, <1>8, <2>1 DEF StreamInv, ReaderInv, LoopInv, HasSentinel, Hashed, InHand
  <2>6. PathInv(s)'
    BY Zenon, <1>0, <1>4, <2>3 DEF StreamInv, PathInv, Hashed, DoneStays
  <2>7. LosslessInv(s)'
    BY Zenon, <1>0, <1>4, <2>0, <2>1 DEF StreamInv, LosslessInv, OnWay, Hashed, InHand, ReadAll
  <2>8. FreshInv(s)'
    <3>1. ASSUME NEW i \in Requests(s), fut'[s][i] # "none" PROVE i <= readIdx[s]
      <4>1. CASE i = readIdx[s]
        BY <4>1 DEF Requests
      <4>2. CASE i # readIdx[s]
        BY Zenon, <1>4, <2>10, <3>1, <4>2 DEF StreamInv, FreshInv
      <4> QED BY Zenon, <4>1, <4>2
    <3> QED BY Zenon, <1>0, <2>1, <3>1 DEF FreshInv
  <2> QED BY Zenon, <2>2, <2>3, <2>4, <2>5, <2>6, <2>7, <2>8, OneMoves DEF StreamInv
<1> QED BY Zenon, <1>1, <1>2


-----------------------------------------------------------------------------
(* The engine: it tells the truth about what it stored.                      *)
LEMMA EnginePreserves ==
  ASSUME StreamsInv, NEW s \in Stream, NEW i \in Requests(s),
         ProcessOne(s, i) \/ PutCompressed(s, i) \/ ReleaseSlot(s, i)
  PROVE  StreamsInv'
<1>0. /\ UNCHANGED <<active, stop, queue, readPc, readIdx, errors, consPc, inflight, yielding, finished, acks, outcome>>
      /\ fut[s][i] \in {"queued", "writing", "done"}
  BY Zenon DEF ProcessOne, PutCompressed, ReleaseSlot, readerVars, consumerVars
<1>1. PICK f \in FutState, r \in Status :
          /\ fut' = [fut EXCEPT ![s][i] = f]
          /\ result' = [result EXCEPT ![s][i] = r] \/ (result' = result /\ r = result[s][i])
          /\ f # "none" /\ (fut[s][i] = "done" => f = "released")
          /\ f = "writing" => Sent[s][i] \notin Bad
          /\ f \in {"done", "released"} => r # "none"
          /\ r \in {"stored", "present"} => Sent[s][i] \in cas'
          /\ cas' = cas \/ (Sent[s][i] \notin Bad /\ cas' = cas \cup {Sent[s][i]})
  <2>1. /\ result[s][i] \in Status
        /\ result[s][i] \in {"stored", "present"} => Sent[s][i] \in cas
        /\ fut[s][i] = "done" => result[s][i] # "none"
        /\ fut[s][i] = "writing" => Sent[s][i] \notin Bad
    <3>1. result[s][i] \in Status
      BY Zenon DEF StreamsInv, Types
    <3> QED BY Zenon, <3>1 DEF StreamsInv, EngineInv, IsDone
  <2>2. CASE ProcessOne(s, i) /\ Sent[s][i] \in cas
    <3>1. /\ fut' = [fut EXCEPT ![s][i] = "done"] /\ result' = [result EXCEPT ![s][i] = "present"]
          /\ cas' = cas /\ fut[s][i] = "queued"
      BY Zenon, <2>2 DEF ProcessOne, Finish
    <3> QED BY Zenon, <2>2, <3>1 DEF FutState, Status
  <2>3. CASE ProcessOne(s, i) /\ Sent[s][i] \notin cas /\ Sent[s][i] \in Bad
    <3>1. /\ fut' = [fut EXCEPT ![s][i] = "done"] /\ result' = [result EXCEPT ![s][i] = "rejected"]
          /\ cas' = cas /\ fut[s][i] = "queued"
      BY Zenon, <2>3 DEF ProcessOne, Finish
    <3> QED BY Zenon, <3>1 DEF FutState, Status
  <2>4. CASE ProcessOne(s, i) /\ Sent[s][i] \notin cas /\ Sent[s][i] \notin Bad
    <3>1. /\ fut' = [fut EXCEPT ![s][i] = "writing"] /\ result' = result
          /\ cas' = cas /\ fut[s][i] = "queued"
      BY Zenon, <2>1, <2>4 DEF ProcessOne
    <3> QED BY Zenon, <2>1, <2>4, <3>1 DEF FutState
  <2>5. CASE PutCompressed(s, i)
    <3>1. PICK r \in {"present", "stored", "error"} :
            /\ fut' = [fut EXCEPT ![s][i] = "done"] /\ result' = [result EXCEPT ![s][i] = r]
            /\ fut[s][i] = "writing"
            /\ r = "present" => Sent[s][i] \in cas
            /\ cas' = IF r = "stored" THEN cas \cup {Sent[s][i]} ELSE cas
      BY Zenon, <2>5 DEF PutCompressed, Finish
    <3> QED BY Zenon, <2>1, <3>1 DEF FutState, Status
  <2>6. CASE ReleaseSlot(s, i)
    <3>1. /\ fut' = [fut EXCEPT ![s][i] = "released"] /\ result' = result
          /\ cas' = cas /\ fut[s][i] = "done"
      BY Zenon, <2>1, <2>6 DEF ReleaseSlot
    <3> QED BY Zenon, <2>1, <3>1 DEF FutState
  <2> QED BY Zenon, <2>2, <2>3, <2>4, <2>5, <2>6
<1>2. Types'
  <2>1. DOMAIN fut' = Stream /\ \A t \in Stream : fut'[t] \in [Requests(t) -> FutState]
    BY Zenon, <1>1 DEF StreamsInv, Types
  <2>2. DOMAIN result' = Stream /\ \A t \in Stream : result'[t] \in [Requests(t) -> Status]
    <3>1. DOMAIN result = Stream /\ \A t \in Stream : result[t] \in [Requests(t) -> Status]
      BY Zenon DEF StreamsInv, Types
    <3>2. CASE result' = [result EXCEPT ![s][i] = r]
      BY Zenon, <3>1, <3>2
    <3> QED BY Zenon, <1>1, <3>1, <3>2
  <2> QED BY Zenon, <1>0, <2>1, <2>2 DEF StreamsInv, Types
<1>3. ASSUME NEW t \in Stream, NEW j \in Requests(t)
      PROVE  /\ fut'[t][j] = IF t = s /\ j = i THEN f ELSE fut[t][j]
             /\ result'[t][j] = IF t = s /\ j = i THEN r ELSE result[t][j]
  BY <1>1 DEF StreamsInv, Types
<1>4. i \in Hashed(s) /\ Sent[s][i] \in Hash
  BY <1>0, StreamAssumption DEF StreamsInv, EngineInv, Hashed, Requests
<1>5. cas \subseteq cas' /\ cas' \subseteq Hash \ Bad
  BY Zenon, <1>1, <1>4 DEF StreamsInv, EngineInv
<1>6. EngineInv'
  <2>1. ASSUME NEW t \in Stream, NEW j \in Requests(t)
        PROVE  /\ fut'[t][j] # "none" => j \in Hashed(t)
               /\ fut'[t][j] = "writing" => Sent[t][j] \notin Bad
               /\ fut'[t][j] \in {"done", "released"} => result'[t][j] # "none"
               /\ result'[t][j] \in {"stored", "present"} => Sent[t][j] \in cas'
    <3>1. CASE t = s /\ j = i
      BY Zenon, <1>1, <1>3, <1>4, <3>1
    <3>2. CASE ~(t = s /\ j = i)
      <4>1. fut'[t][j] = fut[t][j] /\ result'[t][j] = result[t][j]
        BY Zenon, <1>3, <3>2
      <4> QED BY Zenon, <1>5, <4>1 DEF StreamsInv, EngineInv, IsDone
    <3> QED BY Zenon, <3>1, <3>2
  <2> QED BY Zenon, <1>5, <2>1 DEF EngineInv, IsDone, Hashed
<1>7. ASSUME NEW t \in Stream PROVE Same(t) /\ DoneStays(t) /\ NoneNew(t)
  <2>1. Same(t)
    BY Zenon, <1>0 DEF Same
  <2>2. DoneStays(t)
    <3>1. ASSUME NEW j \in Requests(t), fut[t][j] \in {"done", "released"}
          PROVE  fut'[t][j] \in {"done", "released"}
      BY <1>0, <1>1, <1>3, <3>1
    <3> QED BY Zenon, <3>1 DEF DoneStays, IsDone
  <2>3. NoneNew(t)
    BY Zenon, <1>0, <1>3 DEF NoneNew
  <2> QED BY Zenon, <2>1, <2>2, <2>3
<1>8. ASSUME NEW t \in Stream PROVE StreamInv(t)'
  BY Zenon, <1>7, SameKeeps DEF StreamsInv
<1> QED BY Zenon, <1>2, <1>6, <1>8 DEF StreamsInv

-----------------------------------------------------------------------------
(* The consumer *)

(* What a step of the consumer leaves alone.                                 *)
LEMMA ConsumerFrame ==
  ASSUME StreamsInv, NEW s \in Stream, UNCHANGED <<readerVars, engineVars>>
  PROVE  /\ EngineInv' /\ \A t \in Stream : DoneStays(t) /\ NoneNew(t)
         /\ FreshInv(s)'
<1>1. UNCHANGED <<fut, result, cas, readPc, readIdx>>
  BY Zenon DEF readerVars, engineVars
<1>2. FreshInv(s)
  BY Zenon DEF StreamsInv, StreamInv
<1> QED BY Zenon, <1>1, <1>2, EngineRests, FreshKeeps

(* The consumer takes items from the queue into the set it waits for.        *)
LEMMA TakePreserves ==
  ASSUME StreamsInv, NEW s \in Stream, DrainQueue(s) \/ GetOne(s)
  PROVE  StreamsInv'
<1>0. /\ UNCHANGED <<active, stop, readPc, readIdx, errors, yielding, acks, outcome, fut, result, cas>>
      /\ UNCHANGED <<readerVars, engineVars>>
      /\ consPc[s] \in {"drain", "get"}
  BY Zenon DEF DrainQueue, GetOne, readerVars, engineVars
<1>1. EngineInv' /\ (\A t \in Stream : DoneStays(t) /\ NoneNew(t)) /\ FreshInv(s)'
  BY Zenon, <1>0, ConsumerFrame
<1>2. StreamInv(s) /\ queue[s] \in Seq(Nat) /\ inflight[s] \subseteq Nat /\ finished[s] \in BOOLEAN
  BY Zenon DEF StreamsInv, Types
<1>3. \A k \in 1..Len(queue[s]) : queue[s][k] # Sentinel => queue[s][k] \in Hashed(s)
  BY Zenon, <1>2 DEF StreamInv, PathInv
<1>4. Hashed(s) \subseteq Nat \ {Sentinel}
  BY DEF Hashed, Requests, Sentinel
<1>5. outcome[s] # "ok" /\ ~(active[s] /\ stop[s]) /\ (active[s] => yielding[s] = {})
  BY Zenon, <1>0, <1>2 DEF StreamInv, LosslessInv, LoopInv
(* what has to be known of the new queue, set and flag *)
<1>6. /\ queue' \in [Stream -> Seq(Nat)] /\ inflight' \in [Stream -> SUBSET Nat]
      /\ finished' \in [Stream -> BOOLEAN]
      /\ consPc' \in [Stream -> {"drain", "get", "wait", "yield", "finish", "finally", "join", "end"}]
      /\ \A t \in Stream \ {s} : /\ queue'[t] = queue[t] /\ inflight'[t] = inflight[t]
                                 /\ finished'[t] = finished[t] /\ consPc'[t] = consPc[t]
      /\ \A k \in 1..Len(queue'[s]) : \E j \in 1..Len(queue[s]) : queue'[s][k] = queue[s][j]
      /\ \A i \in inflight'[s] : i \in inflight[s] \/ (i # Sentinel /\ \E j \in 1..Len(queue[s]) : queue[s][j] = i)
      /\ \A i \in inflight[s] : i \in inflight'[s]
      /\ \A j \in 1..Len(queue[s]) : \/ \E k \in 1..Len(queue'[s]) : queue'[s][k] = queue[s][j]
                                     \/ queue[s][j] = Sentinel \/ queue[s][j] \in inflight'[s]
      /\ finished'[s] => finished[s] \/ HasSentinel(queue[s])
      /\ consPc'[s] \in {"drain", "get", "wait", "finish", "finally"}
      /\ consPc'[s] = "get" => inflight'[s] = {}
      /\ consPc'[s] = "finish" => finished'[s] /\ inflight'[s] = {} /\ queue'[s] = <<>>
      /\ active[s] => consPc'[s] # "finally"
  <2>1. CASE DrainQueue(s)
    <3> DEFINE flying == inflight[s] \cup Futures(queue[s])
               last == finished[s] \/ HasSentinel(queue[s])
               next == IF flying = {} /\ last THEN "finish"
                       ELSE IF ~active[s] THEN "finally" ELSE IF flying = {} THEN "get" ELSE "wait"
    <3>1. /\ queue' = [queue EXCEPT ![s] = <<>>] /\ inflight' = [inflight EXCEPT ![s] = flying]
          /\ finished' = [finished EXCEPT ![s] = last] /\ consPc' = [consPc EXCEPT ![s] = next]
      BY Zenon, <2>1 DEF DrainQueue
    <3>2. \A i : i \in flying <=> i \in inflight[s] \/ (i # Sentinel /\ \E j \in 1..Len(queue[s]) : queue[s][j] = i)
      BY Zenon DEF Futures
    <3>3. flying \in SUBSET Nat
      BY <1>2 DEF Futures
    <3>4. last \in BOOLEAN
      BY Zenon, <1>2 DEF HasSentinel
    <3>5. next \in {"get", "wait", "finish", "finally"} /\ (active[s] => next # "finally")
          /\ (next = "get" => flying = {}) /\ (next = "finish" => last /\ flying = {})
      BY Zenon
    <3> HIDE DEF flying, last, next
    <3>6. queue'[s] = <<>> /\ inflight'[s] = flying /\ finished'[s] = last /\ consPc'[s] = next
      BY Zenon, <3>1 DEF StreamsInv, Types
    <3>7. queue' \in [Stream -> Seq(Nat)] /\ inflight' \in [Stream -> SUBSET Nat]
      BY <3>1, <3>3 DEF StreamsInv, Types
    <3>8. finished' \in [Stream -> BOOLEAN]
      BY Zenon, <3>1, <3>4 DEF StreamsInv, Types
    <3>9. consPc' \in [Stream -> {"drain", "get", "wait", "yield", "finish", "finally", "join", "end"}]
      BY Zenon, <3>1, <3>5 DEF StreamsInv, Types
    <3>10. \A t \in Stream \ {s} : /\ queue'[t] = queue[t] /\ inflight'[t] = inflight[t]
                                   /\ finished'[t] = finished[t] /\ consPc'[t] = consPc[t]
      BY Zenon, <3>1 DEF StreamsInv, Types
    <3>11. last => finished[s] \/ HasSentinel(queue[s])
      BY Zenon DEF last
    <3>12. \A k \in 1..Len(queue'[s]) : FALSE
      BY <3>6
    <3> QED BY Zenon, <3>2, <3>5, <3>6, <3>7, <3>8, <3>9, <3>10, <3>11, <3>12
  <2>2. CASE GetOne(s) /\ queue[s] = <<>>
    <3>1. UNCHANGED <<queue, inflight, finished>> /\ consPc' = [consPc EXCEPT ![s] = "drain"]
      BY Zenon, <2>2 DEF GetOne
    <3>2. consPc'[s] = "drain"
      BY Zenon, <3>1 DEF StreamsInv, Types
    <3> QED BY Zenon, <3>1, <3>2 DEF StreamsInv, Types
  <2>3. CASE GetOne(s) /\ queue[s] # <<>>
    <3> DEFINE h == Head(queue[s])
    <3>1. /\ queue' = [queue EXCEPT ![s] = Tail(@)] /\ inflight' = [inflight EXCEPT ![s] = Futures(<<h>>)]
          /\ finished' = [finished EXCEPT ![s] = @ \/ h = Sentinel] /\ consPc' = [consPc EXCEPT ![s] = "drain"]
          /\ consPc[s] = "get"
      BY Zenon, <2>3 DEF GetOne
    <3>2. /\ Tail(queue[s]) \in Seq(Nat) /\ h = queue[s][1] /\ h \in Nat
          /\ Len(Tail(queue[s])) = Len(queue[s]) - 1 /\ Len(queue[s]) \in Nat \ {0}
          /\ \A k \in 1..Len(queue[s]) - 1 : Tail(queue[s])[k] = queue[s][k + 1]
      BY Zenon, <1>2, <2>3, TailFacts
    <3> HIDE DEF h
    <3>3. Futures(<<h>>) = {h} \ {Sentinel}
      BY DEF Futures
    <3>4. inflight[s] = {}
      BY Zenon, <1>2, <3>1 DEF StreamInv, LoopInv
    <3>5. /\ queue'[s] = Tail(queue[s]) /\ inflight'[s] = {h} \ {Sentinel} /\ consPc'[s] = "drain"
      BY Zenon, <3>1, <3>3 DEF StreamsInv, Types
    <3>6. finished'[s] = (finished[s] \/ h = Sentinel)
      BY Zenon, <3>1 DEF StreamsInv, Types
    <3>7. queue' \in [Stream -> Seq(Nat)] /\ inflight' \in [Stream -> SUBSET Nat]
      BY ZenonT(30), <3>1, <3>2, <3>3 DEF StreamsInv, Types
    <3>8. finished' \in [Stream -> BOOLEAN]
      BY Zenon, <1>2, <3>1 DEF StreamsInv, Types
    <3>9. consPc' \in [Stream -> {"drain", "get", "wait", "yield", "finish", "finally", "join", "end"}]
      BY Zenon, <3>1 DEF StreamsInv, Types
    <3>10. \A t \in Stream \ {s} : /\ queue'[t] = queue[t] /\ inflight'[t] = inflight[t]
                                   /\ finished'[t] = finished[t] /\ consPc'[t] = consPc[t]
      BY Zenon, <3>1 DEF StreamsInv, Types
    <3>11. \A k \in 1..Len(queue'[s]) : \E j \in 1..Len(queue[s]) : queue'[s][k] = queue[s][j]
      <4> SUFFICES ASSUME NEW k \in 1..Len(queue'[s]) PROVE \E j \in 1..Len(queue[s]) : queue'[s][k] = queue[s][j]
        BY Zenon
      <4>1. k + 1 \in 1..Len(queue[s]) /\ queue'[s][k] = queue[s][k + 1]
        BY <3>2, <3>5
      <4> QED BY Zenon, <4>1
    <3>12. ASSUME NEW j \in 1..Len(queue[s])
           PROVE  \/ \E k \in 1..Len(queue'[s]) : queue'[s][k] = queue[s][j]
                  \/ queue[s][j] = Sentinel \/ queue[s][j] \in inflight'[s]
      <4>1. CASE j = 1
        BY Zenon, <3>2, <3>5, <4>1
      <4>2. CASE j # 1
        <5>1. j - 1 \in 1..Len(queue[s]) - 1 /\ (j - 1) + 1 = j
          BY <3>2, <4>2
        <5>2. j - 1 \in 1..Len(queue'[s]) /\ queue'[s][j - 1] = queue[s][j]
          BY Zenon, <3>2, <3>5, <5>1
        <5> QED BY Zenon, <5>2
      <4> QED BY Zenon, <4>1, <4>2
    <3>13. 1 \in 1..Len(queue[s])
      BY <3>2
    <3>14. \A i \in inflight'[s] : i # Sentinel /\ \E j \in 1..Len(queue[s]) : queue[s][j] = i
      BY Zenon, <3>2, <3>5, <3>13
    <3>15. finished'[s] => finished[s] \/ HasSentinel(queue[s])
      BY Zenon, <3>2, <3>6, <3>13 DEF HasSentinel
    <3> QED BY Zenon, <3>4, <3>5, <3>7, <3>8, <3>9, <3>10, <3>11, <3>12, <3>14, <3>15
  <2> QED BY Zenon, <2>1, <2>2, <2>3
<1>7. Types'
  BY Zenon, <1>0, <1>6 DEF StreamsInv, Types
<1>8. \A t \in Stream \ {s} : Same(t)
  BY Zenon, <1>0, <1>6 DEF Same
<1>13. \A k \in 1..Len(queue'[s]) : \E j \in 1..Len(queue[s]) : queue'[s][k] = queue[s][j]
  BY Zenon, <1>6
<1>14. /\ \A i \in inflight'[s] : i \in inflight[s] \/ (i # Sentinel /\ \E j \in 1..Len(queue[s]) : queue[s][j] = i)
       /\ \A i \in inflight[s] : i \in inflight'[s]
  BY Zenon, <1>6
<1>15. \A j \in 1..Len(queue[s]) : \/ \E k \in 1..Len(queue'[s]) : queue'[s][k] = queue[s][j]
                                   \/ queue[s][j] = Sentinel \/ queue[s][j] \in inflight'[s]
  BY Zenon, <1>6
<1>9. ReaderInv(s)'
  <2>1. ASSUME NEW k \in 1..Len(queue'[s]), queue'[s][k] = Sentinel PROVE HasSentinel(queue[s])
    BY Zenon, <1>13, <2>1 DEF HasSentinel
  <2>2. HasSentinel(queue[s])' => HasSentinel(queue[s])
    BY Zenon, <2>1 DEF HasSentinel
  <2>3. finished'[s] => finished[s] \/ HasSentinel(queue[s])
    BY Zenon, <1>6
  <2> QED BY Zenon, <1>0, <1>2, <2>2, <2>3 DEF StreamInv, ReaderInv, Hashed
<1>10. LoopInv(s)'
  BY Zenon, <1>0, <1>5, <1>6 DEF LoopInv
<1>11. PathInv(s)'
  <2>1. ASSUME NEW k \in 1..Len(queue'[s]), queue'[s][k] # Sentinel PROVE queue'[s][k] \in Hashed(s)
    <3>1. PICK j \in 1..Len(queue[s]) : queue'[s][k] = queue[s][j]
      BY Zenon, <1>13
    <3> QED BY Zenon, <1>3, <2>1, <3>1
  <2>2. ASSUME NEW i \in inflight'[s] PROVE i \in Hashed(s)
    <3>1. CASE i \in inflight[s]
      BY Zenon, <1>2, <3>1 DEF StreamInv, PathInv
    <3>2. CASE i \notin inflight[s]
      <4>1. PICK j \in 1..Len(queue[s]) : queue[s][j] = i /\ i # Sentinel
        BY Zenon, <1>14, <3>2
      <4> QED BY Zenon, <1>3, <4>1
    <3> QED BY Zenon, <3>1, <3>2
  <2> QED BY Zenon, <1>0, <1>2, <2>1, <2>2 DEF StreamInv, PathInv, Hashed, IsDone
<1>12. LosslessInv(s)'
  <2>1. ASSUME NEW i \in Hashed(s), OnWay(s, i) PROVE OnWay(s, i)'
    <3>1. CASE i \in acks[s] \cup yielding[s] \cup inflight[s]
      BY Zenon, <1>0, <1>14, <3>1 DEF OnWay
    <3>2. CASE \E k \in 1..Len(queue[s]) : queue[s][k] = i
      <4>1. PICK j \in 1..Len(queue[s]) : queue[s][j] = i
        BY Zenon, <3>2
      <4>2. (\E k \in 1..Len(queue'[s]) : queue'[s][k] = i) \/ i \in inflight'[s]
        BY Zenon, <1>4, <1>15, <4>1
      <4> QED BY Zenon, <4>2 DEF OnWay
    <3>3. CASE readPc[s] \in InHand /\ i = readIdx[s]
      BY Zenon, <1>0, <3>3 DEF OnWay
    <3> QED BY Zenon, <2>1, <3>1, <3>2, <3>3 DEF OnWay
  <2>2. consPc[s] # "join"
    BY Zenon, <1>0
  <2> QED BY Zenon, <1>0, <1>2, <1>5, <2>1, <2>2 DEF StreamInv, LosslessInv, Hashed
<1> QED BY Zenon, <1>1, <1>7, <1>8, <1>9, <1>10, <1>11, <1>12, OneMoves DEF StreamInv

(* What the wait found done is yielded, the rest waits on.                   *)
LEMMA WaitDonePreserves ==
  ASSUME StreamsInv, NEW s \in Stream, WaitDone(s)
  PROVE  StreamsInv'
<1> DEFINE done == {i \in inflight[s] : IsDone(s, i)}
<1>0. /\ UNCHANGED <<active, stop, queue, readPc, readIdx, errors, finished, acks, outcome, fut, result, cas>>
      /\ UNCHANGED <<readerVars, engineVars>>
      /\ consPc[s] = "wait" /\ yielding' = [yielding EXCEPT ![s] = done]
      /\ inflight' = [inflight EXCEPT ![s] = @ \ done]
      /\ consPc' = [consPc EXCEPT ![s] = IF done = {} THEN "drain" ELSE "yield"]
  BY Zenon DEF WaitDone, readerVars, engineVars
<1>1. EngineInv' /\ (\A t \in Stream : DoneStays(t) /\ NoneNew(t)) /\ FreshInv(s)'
  BY Zenon, <1>0, ConsumerFrame
<1>2. StreamInv(s) /\ inflight[s] \subseteq Nat
  BY Zenon DEF StreamsInv, Types
<1>3. /\ yielding'[s] = done /\ inflight'[s] = inflight[s] \ done
      /\ consPc'[s] = IF done = {} THEN "drain" ELSE "yield"
  BY Zenon, <1>0 DEF StreamsInv, Types
<1>4. done \subseteq inflight[s] /\ \A i \in done : IsDone(s, i)
  BY Zenon
<1> HIDE DEF done
<1>5. Types'
  BY Zenon, <1>0, <1>2, <1>4 DEF StreamsInv, Types
<1>6. \A t \in Stream \ {s} : Same(t)
  BY Zenon, <1>0 DEF StreamsInv, Types, Same
<1>10. ReaderInv(s)'
  BY Zenon, <1>0, <1>2 DEF StreamInv, ReaderInv, HasSentinel, Hashed
<1>7. LoopInv(s)'
  BY <1>0, <1>2, <1>3 DEF StreamInv, LoopInv
<1>8. PathInv(s)'
  BY Zenon, <1>0, <1>2, <1>3, <1>4 DEF StreamInv, PathInv, Hashed, IsDone
<1>9. LosslessInv(s)'
  <2>1. active[s] => yielding[s] = {}
    BY Zenon, <1>0, <1>2 DEF StreamInv, LoopInv
  <2>2. ASSUME active[s], NEW i \in Hashed(s), OnWay(s, i) PROVE OnWay(s, i)'
    BY Zenon, <1>0, <1>3, <2>1, <2>2 DEF OnWay
  <2> QED BY Zenon, <1>0, <1>2, <1>3, <2>2 DEF StreamInv, LosslessInv, Hashed
<1> QED BY Zenon, <1>1, <1>5, <1>6, <1>7, <1>8, <1>9, <1>10, OneMoves DEF StreamInv

(* An ACK: a request goes from those yielded to those acknowledged.          *)
LEMMA YieldAckPreserves ==
  ASSUME StreamsInv, NEW s \in Stream, YieldAck(s)
  PROVE  StreamsInv'
<1>0. /\ UNCHANGED <<active, stop, queue, readPc, readIdx, errors, inflight, finished, outcome, fut, result, cas>>
      /\ UNCHANGED <<readerVars, engineVars>>
      /\ consPc[s] = "yield" /\ active[s]
  BY Zenon DEF YieldAck, readerVars, engineVars
<1>1. PICK i \in yielding[s] : /\ acks' = [acks EXCEPT ![s] = @ \cup {i}]
                               /\ yielding' = [yielding EXCEPT ![s] = @ \ {i}]
                               /\ consPc' = [consPc EXCEPT ![s] = IF yielding[s] = {i} THEN "drain" ELSE "yield"]
  BY Zenon DEF YieldAck
<1>2. EngineInv' /\ (\A t \in Stream : DoneStays(t) /\ NoneNew(t)) /\ FreshInv(s)'
  BY Zenon, <1>0, ConsumerFrame
<1>3. StreamInv(s) /\ yielding[s] \subseteq Nat
  BY Zenon DEF StreamsInv, Types
<1>4. /\ acks'[s] = acks[s] \cup {i} /\ yielding'[s] = yielding[s] \ {i}
      /\ consPc'[s] = IF yielding[s] = {i} THEN "drain" ELSE "yield"
  BY Zenon, <1>1 DEF StreamsInv, Types
<1>5. Types'
  BY Zenon, <1>0, <1>1, <1>3 DEF StreamsInv, Types
<1>6. \A t \in Stream \ {s} : Same(t)
  BY Zenon, <1>0, <1>1 DEF StreamsInv, Types, Same
<1>7. ReaderInv(s)' /\ LoopInv(s)'
  BY Zenon, <1>0, <1>3, <1>4 DEF StreamInv, ReaderInv, LoopInv, HasSentinel, Hashed
<1>8. PathInv(s)'
  BY Zenon, <1>0, <1>3, <1>4 DEF StreamInv, PathInv, Hashed, IsDone
<1>9. LosslessInv(s)'
  <2>1. ASSUME NEW j \in Hashed(s), OnWay(s, j) PROVE OnWay(s, j)'
    BY Zenon, <1>0, <1>4, <2>1 DEF OnWay
  <2> QED BY Zenon, <1>0, <1>3, <1>4, <2>1 DEF StreamInv, LosslessInv, Hashed
<1> QED BY Zenon, <1>2, <1>5, <1>6, <1>7, <1>8, <1>9, OneMoves DEF StreamInv

(* The loop is left and the call ends.  A call is only "ok" when the reader  *)
(* is done and nothing is left in the queue, in flight or to be yielded.     *)
LEMMA EndPreserves ==
  ASSUME StreamsInv, NEW s \in Stream, YieldAbandoned(s) \/ EndLoop(s) \/ JoinReader(s)
  PROVE  StreamsInv'
<1>0. /\ UNCHANGED <<queue, readPc, readIdx, errors, inflight, yielding, finished, acks, fut, result, cas>>
      /\ UNCHANGED <<readerVars, engineVars>>
  BY Zenon DEF YieldAbandoned, EndLoop, JoinReader, readerVars, engineVars
<1>1. EngineInv' /\ (\A t \in Stream : DoneStays(t) /\ NoneNew(t)) /\ FreshInv(s)'
  BY Zenon, <1>0, ConsumerFrame
<1>2. StreamInv(s)
  BY Zenon DEF StreamsInv
<1>3. CASE YieldAbandoned(s)
  <2>1. /\ UNCHANGED <<active, stop, outcome>> /\ ~active[s]
        /\ consPc[s] = "yield" /\ consPc' = [consPc EXCEPT ![s] = "finally"]
    BY Zenon, <1>3 DEF YieldAbandoned
  <2>2. consPc'[s] = "finally" /\ \A t \in Stream \ {s} : Same(t)
    BY Zenon, <1>0, <2>1 DEF StreamsInv, Types, Same
  <2>3. Types'
    BY Zenon, <1>0, <2>1 DEF StreamsInv, Types
  <2>4. ReaderInv(s)' /\ LoopInv(s)' /\ PathInv(s)'
    BY Zenon, <1>0, <1>2, <2>1, <2>2 DEF StreamInv, ReaderInv, LoopInv, PathInv, HasSentinel, Hashed, IsDone
  <2>5. LosslessInv(s)'
    BY Zenon, <1>0, <1>2, <2>1, <2>2 DEF StreamInv, LosslessInv, Hashed
  <2> QED BY Zenon, <1>1, <2>2, <2>3, <2>4, <2>5, OneMoves DEF StreamInv
<1>4. CASE EndLoop(s)
  <2> DEFINE verdict == IF consPc[s] = "finally" THEN outcome[s] ELSE IF errors[s] THEN "error" ELSE "ok"
  <2>1. /\ UNCHANGED active /\ consPc[s] \in {"finish", "finally"}
        /\ outcome' = [outcome EXCEPT ![s] = verdict]
        /\ stop' = [stop EXCEPT ![s] = TRUE] /\ consPc' = [consPc EXCEPT ![s] = "join"]
    BY Zenon, <1>4 DEF EndLoop
  <2>2. verdict \in {"none", "ok", "error", "cancelled"}
    BY Zenon DEF StreamsInv, Types
  <2>3. verdict = "ok" => consPc[s] = "finally" \/ (consPc[s] = "finish" /\ ~errors[s])
    BY Zenon, <2>1
  <2> HIDE DEF verdict
  <2>4. /\ consPc'[s] = "join" /\ stop'[s] = TRUE /\ outcome'[s] = verdict
        /\ \A t \in Stream \ {s} : Same(t)
    BY Zenon, <1>0, <2>1 DEF StreamsInv, Types, Same
  <2>5. Types'
    BY Zenon, <1>0, <2>1, <2>2 DEF StreamsInv, Types
  <2>6. ReaderInv(s)' /\ LoopInv(s)' /\ PathInv(s)'
    BY Zenon, <1>0, <1>2, <2>1, <2>4 DEF StreamInv, ReaderInv, LoopInv, PathInv, HasSentinel, Hashed, IsDone
  <2>7. ASSUME active[s], verdict = "ok" PROVE acks[s] = Hashed(s)
    <3>1. consPc[s] = "finish" /\ ~errors[s]
      BY Zenon, <1>2, <2>3, <2>7 DEF StreamInv, LoopInv
    <3>2. readPc[s] = "done" /\ inflight[s] = {} /\ queue[s] = <<>> /\ yielding[s] = {}
      BY Zenon, <1>2, <2>7, <3>1 DEF StreamInv, LoopInv, ReaderInv
    <3>3. \A i \in Hashed(s) : i <= readIdx[s] => OnWay(s, i)
      BY Zenon, <1>2, <2>7, <3>1 DEF StreamInv, LosslessInv
    <3>4. readIdx[s] = Len(Sent[s])
      BY Zenon, <1>2, <2>7, <3>1, <3>2 DEF StreamInv, LosslessInv, ReadAll
    <3>5. \A i \in Hashed(s) : OnWay(s, i)
      BY <3>3, <3>4 DEF Hashed, Requests
    <3>6. Hashed(s) \subseteq acks[s]
      BY <3>2, <3>5 DEF OnWay, InHand
    <3> QED BY Zenon, <1>2, <3>6 DEF StreamInv, PathInv
  <2>8. LosslessInv(s)'
    BY Zenon, <1>0, <2>1, <2>4, <2>7 DEF LosslessInv, Hashed
  <2> QED BY Zenon, <1>1, <2>4, <2>5, <2>6, <2>8, OneMoves DEF StreamInv
<1>5. CASE JoinReader(s)
  <2> DEFINE verdict == IF ~active[s] THEN "cancelled" ELSE IF readPc[s] = "done" THEN outcome[s] ELSE "error"
  <2>1. /\ UNCHANGED stop /\ consPc[s] = "join"
        /\ outcome' = [outcome EXCEPT ![s] = verdict]
        /\ active' = [active EXCEPT ![s] = FALSE] /\ consPc' = [consPc EXCEPT ![s] = "end"]
    BY Zenon, <1>5 DEF JoinReader
  <2>2. verdict \in {"none", "ok", "error", "cancelled"}
    BY Zenon DEF StreamsInv, Types
  <2>3. verdict = "ok" => active[s] /\ outcome[s] = "ok"
    BY Zenon
  <2> HIDE DEF verdict
  <2>4. /\ consPc'[s] = "end" /\ active'[s] = FALSE /\ outcome'[s] = verdict
        /\ \A t \in Stream \ {s} : Same(t)
    BY Zenon, <1>0, <2>1 DEF StreamsInv, Types, Same
  <2>5. Types'
    BY Zenon, <1>0, <2>1, <2>2 DEF StreamsInv, Types
  <2>6. ReaderInv(s)' /\ LoopInv(s)' /\ PathInv(s)'
    BY Zenon, <1>0, <1>2, <2>1, <2>4 DEF StreamInv, ReaderInv, LoopInv, PathInv, HasSentinel, Hashed, IsDone
  <2>7. LosslessInv(s)'
    BY Zenon, <1>0, <1>2, <2>3, <2>4 DEF StreamInv, LosslessInv, Hashed
  <2> QED BY Zenon, <1>1, <2>4, <2>5, <2>6, <2>7, OneMoves DEF StreamInv
<1> QED BY Zenon, <1>3, <1>4, <1>5
(* Every step keeps the invariant.                                           *)
LEMMA StreamNextIInv == StreamsInv /\ [StreamNext]_streamVars => StreamsInv'
<1> SUFFICES ASSUME StreamsInv, [StreamNext]_streamVars PROVE StreamsInv'
  BY Zenon
<1>1. ASSUME UNCHANGED <<active, stop, queue, readerVars, consumerVars, fut, result, cas>> PROVE StreamsInv'
  <2>1. /\ UNCHANGED <<active, stop, queue, readPc, readIdx, errors, consPc, inflight, yielding, finished, acks, outcome>>
        /\ UNCHANGED <<fut, result, cas>>
    BY Zenon, <1>1 DEF readerVars, consumerVars
  <2>2. Types'
    BY Zenon, <2>1 DEF StreamsInv, Types
  <2>3. EngineInv' /\ \A t \in Stream : DoneStays(t) /\ NoneNew(t)
    BY Zenon, <2>1, EngineRests
  <2>4. ASSUME NEW t \in Stream PROVE StreamInv(t)'
    <3>1. Same(t)
      BY Zenon, <2>1 DEF Same
    <3> QED BY Zenon, <2>3, <3>1, SameKeeps DEF StreamsInv
  <2> QED BY Zenon, <2>2, <2>3, <2>4 DEF StreamsInv
<1>2. CASE UNCHANGED streamVars \/ BeginClose \/ EndClose
  BY Zenon, <1>1, <1>2 DEF streamVars, BeginClose, EndClose, engineVars
<1>3. ASSUME NEW s \in Stream, Cancel(s) \/ StopCallback(s) PROVE StreamsInv'
  BY Zenon, <1>3, CancelPreserves
<1>4. ASSUME NEW s \in Stream, Reader(s) PROVE StreamsInv'
  BY Zenon, <1>4, QuietPreserves, EnterEnginePreserves, PutPreserves, SentinelStoppedPreserves DEF Reader, Quiet
<1>5. ASSUME NEW s \in Stream, Consumer(s) PROVE StreamsInv'
  BY Zenon, <1>5, TakePreserves, WaitDonePreserves, YieldAckPreserves, EndPreserves DEF Consumer
<1>6. ASSUME NEW s \in Stream, NEW i \in Requests(s),
             ProcessOne(s, i) \/ PutCompressed(s, i) \/ ReleaseSlot(s, i)
      PROVE  StreamsInv'
  BY Zenon, <1>6, EnginePreserves
<1> QED BY Zenon, <1>2, <1>3, <1>4, <1>5, <1>6 DEF StreamNext

(* The inductive invariant holds throughout.                                 *)
THEOREM StreamInvariance == StreamSpec => []StreamsInv
  BY StreamInitIInv, StreamNextIInv, PTL DEF StreamSpec

(* "no se inventan ACKs": an ACK is sent only for a commit that has          *)
(* finished, and one that reports success means that a valid chunk is in the *)
(* CAS, for any number of streams, requests, slots and workers.              *)
THEOREM AcksAreRealHolds == StreamSpec => []AcksAreReal
<1>1. StreamsInv => AcksAreReal
  <2> SUFFICES ASSUME StreamsInv, NEW s \in Stream, NEW i \in acks[s]
               PROVE  /\ IsDone(s, i) /\ result[s][i] # "none"
                      /\ result[s][i] \in {"stored", "present"} => Sent[s][i] \in cas \ Bad
    BY Zenon DEF AcksAreReal
  <2>1. i \in Requests(s) /\ IsDone(s, i)
    BY Zenon DEF StreamsInv, StreamInv, PathInv, Hashed
  <2> QED BY Zenon, <2>1 DEF StreamsInv, EngineInv
<1> QED BY <1>1, StreamInvariance, PTL

(* A call that its client sees end without error has acknowledged every      *)
(* request with a hash.                                                      *)
THEOREM NoSilentTruncationHolds == StreamSpec => []NoSilentTruncation
<1>1. StreamsInv => NoSilentTruncation
  BY Zenon DEF StreamsInv, StreamInv, LosslessInv, NoSilentTruncation, Hashed
<1> QED BY <1>1, StreamInvariance, PTL

-----------------------------------------------------------------------------
(***************************************************************************)
(* ChunkProtection: evidence that suffices is true, and a protected row    *)
(* covers what it says is desired.                                         *)
(*                                                                         *)
(* SufficientIsStored is not inductive: it speaks of the nodes that are    *)
(* eligible now, and a row outlives many views.  Evidence says of every row*)
(* that copies enough for the epoch it was written with are on the targets *)
(* of that epoch; PushInv and VerifyInv say the same of what push and      *)
(* verify have counted so far, for the view and the factor they began with.*)
(* That k copies on k distinct targets are all of them is TargetsBound.    *)
(***************************************************************************)
States == {"none", "PENDING", "PLACED", "DEGRADED", "VERIFIED", "FAILED"}
Rf == CaptureRf \cup PushRf \cup {0}
RowRecord == [state : States, rf : Rf, copies : 0..Cardinality(Node), epoch : Nat \X SUBSET Node]
PushRecords == [pc : {"idle", "stale", "select", "send"}, rf : PushRf \cup {0}, view : SUBSET Node, scope : SUBSET Chunk,
                chunks : SUBSET Chunk, left : SUBSET Node, acks : SUBSET (Node \X Chunk)]
Factors == UNION {[D -> Rf \ {0}] : D \in SUBSET Chunk}
VerifyRecords == [pc : {"idle", "select", "probe"}, all : BOOLEAN, view : SUBSET Node, rfs : Factors,
                  left : SUBSET Node, seen : SUBSET (Node \X Chunk)]

NetTypes ==
    /\ eligible \in SUBSET Node /\ held \in SUBSET (Node \X Chunk) /\ lost \in SUBSET (Node \X Chunk)
    /\ held \cap lost = {} /\ faults \in 0..MaxFaults
RowTypes == row \in [Chunk -> RowRecord]
PushTypes == push \in PushRecords /\ push.left \subseteq push.view
VerifyTypes == verify \in VerifyRecords /\ verify.left \subseteq verify.view

(* a copy of c is or was on n                                                  *)
Reached(n, c) == <<n, c>> \in held \cup lost
(* the k nodes chosen for c among E are k, and all had it                      *)
Full(c, k, E) == Cardinality(Targets(c, k, E)) = k /\ \A n \in Targets(c, k, E) : Reached(n, c)
(* copies enough for the factor of the epoch are on the targets of the epoch   *)
Evidence(c) == row[c].epoch[1] # 0 /\ row[c].copies >= row[c].epoch[1] => Full(c, row[c].epoch[1], row[c].epoch[2])
Covers(r) == Protected(r) => r.copies >= r.rf /\ r.rf >= 1 /\ r.epoch[1] = r.rf
RowInv == \A c \in Chunk : Covers(row[c]) /\ Evidence(c)
(* what was acknowledged came from targets that have it or had it              *)
PushInv ==
    /\ push.pc # "idle" => push.rf # 0
    /\ \A n \in Node, c \in Chunk : <<n, c>> \in push.acks => Reached(n, c) /\ n \in Targets(c, push.rf, push.view)
(* so did what verify has seen                                                 *)
VerifyInv ==
    /\ verify.pc # "probe" => verify.seen = {}
    /\ \A n \in Node, c \in Chunk : <<n, c>> \in verify.seen =>
        /\ Reached(n, c) /\ c \in DOMAIN verify.rfs
        /\ n \in Targets(c, verify.rfs[c], verify.view)

(* The inductive invariant.                                                    *)
IInv == NetTypes /\ RowTypes /\ PushTypes /\ VerifyTypes /\ RowInv /\ PushInv /\ VerifyInv

-----------------------------------------------------------------------------
(* Among finitely many nodes, one with a higher score is beaten by fewer.      *)
LEMMA FewerBetter ==
  ASSUME ProtectionAssumption, NEW c \in Chunk, NEW E \in SUBSET Node, NEW m \in E, NEW n \in E, Score[c][m] > Score[c][n]
  PROVE  Cardinality(Better(c, m, E)) < Cardinality(Better(c, n, E))
<1> DEFINE A == Better(c, m, E)
           B == Better(c, n, E)
<1>1. \A x \in Node : Score[c][x] \in Nat
  BY Zenon DEF ProtectionAssumption
<1>2. IsFiniteSet(E) /\ A \in SUBSET E /\ B \in SUBSET E
  BY Zenon, FS_Subset DEF ProtectionAssumption, Better
<1>3. m \notin A /\ A \cup {m} \in SUBSET B
  BY <1>1 DEF Better
<1> HIDE DEF A, B
<1>4. IsFiniteSet(A) /\ IsFiniteSet(B)
  BY Zenon, <1>2, FS_Subset
<1>5. IsFiniteSet(A \cup {m}) /\ Cardinality(A \cup {m}) = Cardinality(A) + 1
  BY Zenon, <1>3, <1>4, FS_AddElement
<1>6. Cardinality(A \cup {m}) <= Cardinality(B)
  BY Zenon, <1>3, <1>4, FS_Subset
<1>7. Cardinality(A) \in Nat /\ Cardinality(B) \in Nat
  BY Zenon, <1>4, FS_CardinalityType
<1>8. Cardinality(A) < Cardinality(B)
  BY <1>5, <1>6, <1>7
<1> QED BY Zenon, <1>8 DEF A, B

(* hrw_top_k_node_ids chooses at most k nodes.                                 *)
LEMMA TargetsBound ==
  ASSUME ProtectionAssumption, NEW c \in Chunk, NEW k \in Nat, NEW E \in SUBSET Node
  PROVE  /\ IsFiniteSet(Targets(c, k, E)) /\ Targets(c, k, E) \in SUBSET E
         /\ Cardinality(Targets(c, k, E)) \in Nat /\ Cardinality(Targets(c, k, E)) <= k
<1> DEFINE T == Targets(c, k, E)
           f == [n \in T |-> Cardinality(Better(c, n, E))]
<1>1. T \in SUBSET E /\ IsFiniteSet(E)
  BY Zenon, FS_Subset DEF ProtectionAssumption, Targets
<1>2. IsFiniteSet(T)
  BY Zenon, <1>1, FS_Subset
<1>3. \A n \in T : Cardinality(Better(c, n, E)) \in 0..k - 1
  <2> SUFFICES ASSUME NEW n \in T PROVE Cardinality(Better(c, n, E)) \in 0..k - 1
    BY Zenon
  <2>1. Cardinality(Better(c, n, E)) < k
    BY Zenon DEF Targets
  <2>2. IsFiniteSet(Better(c, n, E))
    <3>1. Better(c, n, E) \in SUBSET E
      BY Zenon DEF Better
    <3> QED BY Zenon, <1>1, <3>1, FS_Subset
  <2>3. Cardinality(Better(c, n, E)) \in Nat
    BY Zenon, <2>2, FS_CardinalityType
  <2> QED BY <2>1, <2>3
<1>4. \A m, n \in T : Cardinality(Better(c, m, E)) = Cardinality(Better(c, n, E)) => m = n
  <2> SUFFICES ASSUME NEW m \in T, NEW n \in T, m # n
               PROVE  Cardinality(Better(c, m, E)) # Cardinality(Better(c, n, E))
    BY Zenon
  <2>1. m \in E /\ n \in E /\ m \in Node /\ n \in Node
    BY Zenon, <1>1
  <2>2. Score[c][m] \in Nat /\ Score[c][n] \in Nat /\ Score[c][m] # Score[c][n]
    BY Zenon, <2>1 DEF ProtectionAssumption
  <2>3. Score[c][m] > Score[c][n] \/ Score[c][n] > Score[c][m]
    BY <2>2
  <2>4. /\ Score[c][m] > Score[c][n] => Cardinality(Better(c, m, E)) < Cardinality(Better(c, n, E))
        /\ Score[c][n] > Score[c][m] => Cardinality(Better(c, n, E)) < Cardinality(Better(c, m, E))
    BY Zenon, <2>1, FewerBetter
  <2>5. Cardinality(Better(c, m, E)) \in Nat /\ Cardinality(Better(c, n, E)) \in Nat
    <3>1. \A x \in 0..k - 1 : x \in Nat
      OBVIOUS
    <3> QED BY Zenon, <1>3, <3>1
  <2> QED BY <2>3, <2>4, <2>5
<1> HIDE DEF T
<1>5. f \in Injection(T, 0..k - 1)
  BY Zenon, <1>3, <1>4 DEF Injection, IsInjective
<1>6. IsFiniteSet(0..k - 1) /\ Cardinality(0..k - 1) = k
  <2>1. 0 \in Int /\ k - 1 \in Int
    OBVIOUS
  <2>2. IsFiniteSet(0..k - 1) /\ Cardinality(0..k - 1) = IF 0 > k - 1 THEN 0 ELSE k - 1 - 0 + 1
    BY Zenon, <2>1, FS_Interval
  <2> QED BY <2>2
<1>7. Cardinality(T) <= k
  <2> HIDE DEF f
  <2>1. Cardinality(T) <= Cardinality(0..k - 1)
    BY Zenon, <1>5, <1>6, FS_Injection
  <2> QED BY Zenon, <1>6, <2>1
<1>8. Cardinality(T) \in Nat
  BY Zenon, <1>2, FS_CardinalityType
<1> QED BY Zenon, <1>1, <1>2, <1>7, <1>8 DEF T

(* k copies on targets are on all of them, and the targets are k.              *)
LEMMA AllOfThem ==
  ASSUME ProtectionAssumption, NEW c \in Chunk, NEW k \in Nat, NEW E \in SUBSET Node,
         NEW A \in SUBSET Targets(c, k, E), Cardinality(A) >= k
  PROVE  A = Targets(c, k, E) /\ Cardinality(Targets(c, k, E)) = k
<1> DEFINE T == Targets(c, k, E)
<1>1. IsFiniteSet(T) /\ Cardinality(T) \in Nat /\ Cardinality(T) <= k
  BY Zenon, TargetsBound
<1> HIDE DEF T
<1>2. A \in SUBSET T
  BY Zenon DEF T
<1>3. IsFiniteSet(A) /\ Cardinality(A) <= Cardinality(T) /\ (Cardinality(T) = Cardinality(A) => T = A)
  BY Zenon, <1>1, <1>2, FS_Subset
<1>4. Cardinality(A) \in Nat
  BY Zenon, <1>3, FS_CardinalityType
<1>5. Cardinality(T) = Cardinality(A) /\ Cardinality(T) = k
  BY <1>1, <1>3, <1>4
<1> QED BY Zenon, <1>3, <1>5 DEF T

(* A count of nodes.                                                           *)
LEMMA CountType ==
  ASSUME ProtectionAssumption, NEW A \in SUBSET Node
  PROVE  Cardinality(A) \in 0..Cardinality(Node) /\ Cardinality(A) \in Nat
<1>1. IsFiniteSet(Node) /\ IsFiniteSet(A) /\ Cardinality(A) <= Cardinality(Node)
  BY Zenon, FS_Subset DEF ProtectionAssumption
<1>2. Cardinality(Node) \in Nat /\ Cardinality(A) \in Nat
  BY Zenon, <1>1, FS_CardinalityType
<1> QED BY <1>1, <1>2

-----------------------------------------------------------------------------
(* Copies that were there stay reached.                                        *)
Grows == held \cup lost \subseteq held' \cup lost'

(* What a row needs of a step: it keeps its evidence, drops it, or gets some.  *)
LEMMA EvidenceStays ==
  ASSUME RowInv, Grows, NEW c \in Chunk, row'[c].epoch = row[c].epoch, row'[c].copies = row[c].copies
  PROVE  Evidence(c)'
<1>1. Evidence(c)
  BY Zenon DEF RowInv
<1> QED BY Zenon, <1>1 DEF Evidence, Full, Reached, Grows

(* Rows that a step leaves alone keep their evidence.                          *)
LEMMA RowFrame ==
  ASSUME RowInv, Grows, row' = row
  PROVE  RowInv'
<1>1. \A c \in Chunk : Evidence(c)'
  BY Zenon, EvidenceStays
<1> QED BY Zenon, <1>1 DEF RowInv

(* What push has counted stays true.                                           *)
LEMMA PushFrame ==
  ASSUME PushInv, Grows, push' = push
  PROVE  PushInv'
  BY Zenon DEF PushInv, Reached, Grows

(* What verify has counted stays true.                                         *)
LEMMA VerifyFrame ==
  ASSUME VerifyInv, Grows, verify' = verify
  PROVE  VerifyInv'
  BY Zenon DEF VerifyInv, Reached, Grows

(* The factors are numbers.                                                    *)
LEMMA RfType ==
  ASSUME ProtectionAssumption
  PROVE  Rf \subseteq Nat /\ PushRf \subseteq Rf \ {0} /\ CaptureRf \subseteq Rf /\ 0 \in Rf
  BY DEF ProtectionAssumption, Rf

(* The fields of a row.                                                        *)
LEMMA RowFields ==
  ASSUME NEW r \in RowRecord
  PROVE  /\ r.state \in States /\ r.rf \in Rf /\ r.copies \in 0..Cardinality(Node)
         /\ r.epoch \in Nat \X SUBSET Node /\ r.epoch[1] \in Nat /\ r.epoch[2] \in SUBSET Node
<1>1. /\ r.state \in States /\ r.rf \in Rf /\ r.copies \in 0..Cardinality(Node) /\ r.epoch \in Nat \X SUBSET Node
  BY DEF RowRecord
<1>2. r.epoch[1] \in Nat /\ r.epoch[2] \in SUBSET Node
  BY <1>1
<1> QED BY Zenon, <1>1, <1>2

(* The fields of the running push.                                             *)
LEMMA PushFields ==
  ASSUME PushTypes
  PROVE  /\ push.pc \in {"idle", "stale", "select", "send"} /\ push.rf \in PushRf \cup {0} /\ push.view \in SUBSET Node
         /\ push.scope \in SUBSET Chunk /\ push.chunks \in SUBSET Chunk /\ push.left \in SUBSET Node
         /\ push.acks \in SUBSET (Node \X Chunk)
  BY DEF PushTypes, PushRecords

(* The fields of the running verification.                                     *)
LEMMA VerifyFields ==
  ASSUME VerifyTypes
  PROVE  /\ verify.pc \in {"idle", "select", "probe"} /\ verify.all \in BOOLEAN /\ verify.view \in SUBSET Node
         /\ verify.rfs \in Factors /\ verify.left \in SUBSET Node /\ verify.seen \in SUBSET (Node \X Chunk)
  BY DEF VerifyTypes, VerifyRecords

(* A verification knows a positive factor of each of its chunks.               *)
LEMMA FactorType ==
  ASSUME ProtectionAssumption, VerifyTypes, NEW c \in DOMAIN verify.rfs
  PROVE  c \in Chunk /\ verify.rfs[c] \in Rf \ {0} /\ verify.rfs[c] \in Nat /\ verify.rfs[c] >= 1
<1>1. PICK D \in SUBSET Chunk : verify.rfs \in [D -> Rf \ {0}]
  BY Zenon, VerifyFields DEF Factors
<1>2. c \in Chunk /\ verify.rfs[c] \in Rf \ {0}
  BY Zenon, <1>1
<1>3. Rf \subseteq Nat
  BY Zenon, RfType
<1>4. \A k \in Rf \ {0} : k \in Nat /\ k >= 1
  BY <1>3
<1> QED BY Zenon, <1>2, <1>4

(* Nothing runs.                                                               *)
LEMMA NoneRuns ==
  /\ NoPush \in PushRecords /\ NoPush.pc = "idle" /\ NoPush.acks = {} /\ NoPush.left = {}
  /\ NoVerify \in VerifyRecords /\ NoVerify.pc = "idle" /\ NoVerify.seen = {} /\ NoVerify.left = {}
<1>1. NoPush \in PushRecords /\ NoPush.pc = "idle" /\ NoPush.acks = {} /\ NoPush.left = {}
  BY DEF NoPush, PushRecords
<1>2. <<>> \in Factors
  <2>1. <<>> \in [{} -> Rf \ {0}]
    OBVIOUS
  <2> QED BY Zenon, <2>1 DEF Factors
<1>3. NoVerify \in VerifyRecords /\ NoVerify.pc = "idle" /\ NoVerify.seen = {} /\ NoVerify.left = {}
  BY <1>2 DEF NoVerify, VerifyRecords
<1> QED BY Zenon, <1>1, <1>3

(* A push that has ended counts nothing.                                       *)
LEMMA PushGone ==
  ASSUME push' = NoPush
  PROVE  PushTypes' /\ PushInv'
  BY Zenon, NoneRuns DEF PushTypes, PushInv

(* A verification that has ended counts nothing.                               *)
LEMMA VerifyGone ==
  ASSUME verify' = NoVerify
  PROVE  VerifyTypes' /\ VerifyInv'
  BY Zenon, NoneRuns DEF VerifyTypes, VerifyInv

(* _ensure_recipe_protection on a row.                                         *)
LEMMA RaiseIs ==
  ASSUME ProtectionAssumption, NEW r \in RowRecord, NEW k \in CaptureRf, Covers(r)
  PROVE  /\ Raise(r, k) \in RowRecord /\ Covers(Raise(r, k))
         /\ \/ Raise(r, k).epoch = r.epoch /\ Raise(r, k).copies = r.copies
            \/ Raise(r, k).epoch[1] = 0
<1>1. k \in Rf
  BY Zenon, RfType
<1>2. NoRow \in RowRecord /\ NoRow.epoch[1] = 0
  <2>1. 0 \in 0..Cardinality(Node)
    <3>1. Cardinality(Node) \in Nat
      BY Zenon, FS_CardinalityType DEF ProtectionAssumption
    <3> QED BY <3>1
  <2>2. <<0, {}>> \in Nat \X SUBSET Node /\ <<0, {}>>[1] = 0
    OBVIOUS
  <2>3. 0 \in Rf
    BY Zenon, RfType
  <2> QED BY <2>1, <2>2, <2>3 DEF NoRow, NoEpoch, RowRecord, States
<1>3. CASE r.state = "none"
  <2> DEFINE q == [NoRow EXCEPT !.state = "PENDING", !.rf = k]
  <2>1. Raise(r, k) = q /\ q = [NoRow EXCEPT !.state = "PENDING", !.rf = k] /\ "PENDING" \in States
    BY Zenon, <1>3 DEF Raise, States
  <2> HIDE DEF q
  <2>2. q \in RowRecord /\ q.state = "PENDING" /\ q.epoch = NoRow.epoch
    <3>1. q \in RowRecord
      BY Zenon, <1>1, <1>2, <2>1 DEF RowRecord
    <3>2. q.state = "PENDING" /\ q.epoch = NoRow.epoch
      BY <1>1, <1>2, <2>1 DEF RowRecord
    <3> QED BY Zenon, <3>1, <3>2
  <2>3. ~Protected(q)
    BY Zenon, <2>2 DEF Protected
  <2> QED BY Zenon, <1>2, <2>1, <2>2, <2>3 DEF Covers
<1>4. CASE r.state # "none" /\ r.rf < k
  <2> DEFINE st == IF Protected(r) THEN "DEGRADED" ELSE r.state
             q == [r EXCEPT !.state = st, !.rf = k]
  <2>1. Raise(r, k) = [r EXCEPT !.rf = k, !.state = st]
    BY Zenon, <1>4 DEF Raise
  <2>2. st \in States /\ st \notin {"PLACED", "VERIFIED"}
    BY Zenon, RowFields DEF States, Protected
  <2> HIDE DEF st
  <2>3. [r EXCEPT !.rf = k, !.state = st] = q /\ q = [r EXCEPT !.state = st, !.rf = k]
    BY Zenon DEF RowRecord
  <2> HIDE DEF q
  <2>4. q \in RowRecord /\ q.state = st /\ q.epoch = r.epoch /\ q.copies = r.copies
    <3>1. q \in RowRecord
      BY Zenon, <1>1, <2>2, <2>3 DEF RowRecord
    <3>2. q.state = st /\ q.epoch = r.epoch /\ q.copies = r.copies
      BY <1>1, <2>2, <2>3 DEF RowRecord
    <3> QED BY Zenon, <3>1, <3>2
  <2>5. ~Protected(q)
    BY Zenon, <2>2, <2>4 DEF Protected
  <2> QED BY Zenon, <2>1, <2>3, <2>4, <2>5 DEF Covers
<1>5. CASE r.state # "none" /\ ~(r.rf < k)
  BY Zenon, <1>5 DEF Raise
<1> QED BY Zenon, <1>3, <1>4, <1>5

-----------------------------------------------------------------------------
(* The cluster changes, or a node loses a chunk.                               *)
LEMMA ClusterStep ==
  ASSUME ProtectionAssumption, IInv, ViewChange \/ \E p \in held : Lose(p)
  PROVE  IInv'
<1> USE DEF IInv
<1>1. row' = row /\ push' = push /\ verify' = verify
  BY DEF ViewChange, Lose
<1>2. faults' \in 0..MaxFaults
  BY DEF ViewChange, Lose, Fault, NetTypes, ProtectionAssumption
<1>3. Grows /\ NetTypes'
  <2>1. CASE ViewChange
    BY Zenon, <1>2, <2>1 DEF ViewChange, NetTypes, Grows
  <2>2. ASSUME NEW p \in held, Lose(p) PROVE Grows /\ NetTypes'
    BY Zenon, <1>2, <2>2 DEF Lose, NetTypes, Grows
  <2> QED BY Zenon, <2>1, <2>2
<1>4. RowInv' /\ PushInv' /\ VerifyInv'
  BY Zenon, <1>1, <1>3, RowFrame, PushFrame, VerifyFrame
<1> QED BY Zenon, <1>1, <1>3, <1>4 DEF RowTypes, PushTypes, VerifyTypes

(* What a step needs that leaves the nodes alone.                              *)
LEMMA Still ==
  ASSUME UNCHANGED <<held, lost>>
  PROVE  Grows
  BY Zenon DEF Grows

(* The faults so far.                                                          *)
LEMMA FaultsType ==
  ASSUME ProtectionAssumption, NetTypes, Fault \/ faults' = faults
  PROVE  faults' \in 0..MaxFaults
  BY DEF Fault, NetTypes, ProtectionAssumption

(* The nodes and the faults, when only a fault is counted.                     *)
LEMMA NetFrame ==
  ASSUME ProtectionAssumption, NetTypes, UNCHANGED <<eligible, held, lost>>, Fault \/ faults' = faults
  PROVE  NetTypes'
<1>1. faults' \in 0..MaxFaults
  BY Zenon, FaultsType
<1> QED BY Zenon, <1>1 DEF NetTypes

(* A capture raises what is desired (EnsureProtection).                        *)
LEMMA EnsureStep ==
  ASSUME ProtectionAssumption, IInv, NEW c \in Chunk, NEW k \in CaptureRf, EnsureProtection(c, k)
  PROVE  IInv'
<1> USE DEF IInv
<1>1. UNCHANGED <<eligible, held, lost, push, verify, faults>> /\ row' = [row EXCEPT ![c] = Raise(row[c], k)]
  BY Zenon DEF EnsureProtection
<1>2. row \in [Chunk -> RowRecord] /\ row[c] \in RowRecord /\ Covers(row[c])
  BY Zenon DEF RowTypes, RowInv
<1>3. /\ Raise(row[c], k) \in RowRecord /\ Covers(Raise(row[c], k))
      /\ \/ Raise(row[c], k).epoch = row[c].epoch /\ Raise(row[c], k).copies = row[c].copies
         \/ Raise(row[c], k).epoch[1] = 0
  BY Zenon, <1>2, RaiseIs
<1>4. row' \in [Chunk -> RowRecord] /\ row'[c] = Raise(row[c], k) /\ \A d \in Chunk : d # c => row'[d] = row[d]
  BY Zenon, <1>1, <1>2, <1>3
<1>5. Grows /\ NetTypes' /\ PushInv' /\ VerifyInv'
  BY Zenon, <1>1, Still, NetFrame, PushFrame, VerifyFrame
<1>6. Evidence(c)'
  <2>1. CASE row'[c].epoch[1] = 0
    BY Zenon, <2>1 DEF Evidence
  <2>2. CASE row'[c].epoch = row[c].epoch /\ row'[c].copies = row[c].copies
    BY Zenon, <1>5, <2>2, EvidenceStays
  <2> QED BY Zenon, <1>3, <1>4, <2>1, <2>2
<1>7. \A d \in Chunk : d # c => Evidence(d)'
  BY Zenon, <1>4, <1>5, EvidenceStays
<1>8. RowInv'
  BY Zenon, <1>3, <1>4, <1>6, <1>7 DEF RowInv
<1> QED BY Zenon, <1>1, <1>4, <1>5, <1>8 DEF RowTypes, PushTypes, VerifyTypes

-----------------------------------------------------------------------------
(* push reads the view and begins.                                             *)
LEMMA PushViewStep ==
  ASSUME ProtectionAssumption, IInv, NEW k \in PushRf, NEW start \in {"stale", "select"}, NEW S \in SUBSET Chunk,
         PushView(k, start, S)
  PROVE  IInv'
<1> USE DEF IInv
<1>1. /\ UNCHANGED <<row, eligible, held, lost, verify, faults>>
      /\ push' = [NoPush EXCEPT !.pc = start, !.rf = k, !.view = eligible, !.scope = S]
  BY Zenon DEF PushView
<1>2. NoPush \in PushRecords /\ NoPush.acks = {} /\ NoPush.left = {} /\ eligible \in SUBSET Node
  BY Zenon, NoneRuns DEF NetTypes
<1>3. push' \in PushRecords
  BY Zenon, <1>1, <1>2 DEF PushRecords
<1>4. push'.rf = k /\ push'.acks = {} /\ push'.left = {}
  BY <1>1, <1>2 DEF PushRecords
<1>5. k # 0
  BY Zenon, RfType
<1>6. PushTypes' /\ PushInv'
  BY Zenon, <1>3, <1>4, <1>5 DEF PushTypes, PushInv
<1>7. NetTypes' /\ RowInv' /\ VerifyInv'
  BY Zenon, <1>1, Still, NetFrame, RowFrame, VerifyFrame
<1> QED BY Zenon, <1>1, <1>6, <1>7 DEF RowTypes, VerifyTypes

(* push marks the rows of other epochs; they keep their evidence.              *)
LEMMA MarkStaleStep ==
  ASSUME ProtectionAssumption, IInv, MarkStale
  PROVE  IInv'
<1> USE DEF IInv
<1>1. /\ UNCHANGED <<eligible, held, lost, verify, faults>> /\ push' = [push EXCEPT !.pc = "select"] /\ push.pc = "stale"
      /\ row' = [c \in Chunk |->
                  IF Protected(row[c]) /\ (row[c].rf < push.rf \/ row[c].epoch # PushEpoch)
                  THEN [row[c] EXCEPT !.state = "DEGRADED"] ELSE row[c]]
  BY Zenon DEF MarkStale
<1>2. ASSUME NEW c \in Chunk
      PROVE  /\ row'[c] \in RowRecord /\ row'[c].epoch = row[c].epoch /\ row'[c].copies = row[c].copies
             /\ Covers(row'[c])
  <2>1. row[c] \in RowRecord /\ Covers(row[c])
    BY Zenon DEF RowTypes, RowInv
  <2>2. row'[c] = row[c] \/ row'[c] = [row[c] EXCEPT !.state = "DEGRADED"]
    BY Zenon, <1>1
  <2>3. CASE row'[c] = [row[c] EXCEPT !.state = "DEGRADED"]
    <3> DEFINE r == row[c]
               q == [r EXCEPT !.state = "DEGRADED"]
    <3>1. r \in RowRecord
      BY Zenon, <2>1
    <3> HIDE DEF r
    <3>2. q \in RowRecord
      BY <3>1 DEF RowRecord, States
    <3>3. q.state = "DEGRADED" /\ q.epoch = r.epoch /\ q.copies = r.copies
      BY <3>1 DEF RowRecord
    <3>4. row'[c] = q
      BY Zenon, <2>3 DEF r
    <3> HIDE DEF q
    <3>5. ~Protected(q)
      BY Zenon, <3>3 DEF Protected
    <3> QED BY Zenon, <3>2, <3>3, <3>4, <3>5 DEF Covers, r
  <2> QED BY Zenon, <2>1, <2>2, <2>3
<1>3. Grows /\ NetTypes' /\ VerifyInv'
  BY Zenon, <1>1, Still, NetFrame, VerifyFrame
<1>4. RowTypes'
  <2>1. row' = [c \in Chunk |-> row'[c]]
    BY Zenon, <1>1
  <2> QED BY Zenon, <1>2, <2>1 DEF RowTypes
<1>5. RowInv'
  <2>1. \A c \in Chunk : Evidence(c)'
    BY Zenon, <1>2, <1>3, EvidenceStays
  <2> QED BY Zenon, <1>2, <2>1 DEF RowInv
<1>6. PushTypes' /\ PushInv'
  <2>1. push \in PushRecords /\ push.left \subseteq push.view
    BY Zenon DEF PushTypes
  <2>2. push' \in PushRecords
    BY <1>1, <2>1 DEF PushRecords
  <2>3. push'.rf = push.rf /\ push'.view = push.view /\ push'.acks = push.acks /\ push'.left = push.left
    BY <1>1, <2>1 DEF PushRecords
  <2>4. push.pc # "idle"
    BY Zenon, <1>1
  <2> QED BY Zenon, <1>3, <2>1, <2>2, <2>3, <2>4 DEF PushTypes, PushInv, Grows, Reached
<1> QED BY Zenon, <1>1, <1>3, <1>4, <1>5, <1>6 DEF VerifyTypes

(* push chooses the chunks and their targets.                                  *)
LEMMA PushSelectStep ==
  ASSUME ProtectionAssumption, IInv, PushSelect
  PROVE  IInv'
<1> USE DEF IInv
<1> DEFINE P == {c \in push.scope : IsPending(row[c])}
           L == UNION {Targets(c, push.rf, push.view) : c \in P}
<1>1. /\ UNCHANGED <<row, eligible, held, lost, verify, faults>> /\ push.pc = "select"
      /\ push' = NoPush \/ push' = [push EXCEPT !.pc = "send", !.chunks = P, !.left = L]
  BY Zenon DEF PushSelect
<1>2. Grows /\ NetTypes' /\ RowInv' /\ VerifyInv'
  BY Zenon, <1>1, Still, NetFrame, RowFrame, VerifyFrame
<1>3. P \in SUBSET Chunk /\ L \subseteq push.view /\ push.view \in SUBSET Node
  BY Zenon, PushFields DEF Targets
<1>4. PushTypes' /\ PushInv'
  <2> HIDE DEF P, L
  <2>1. CASE push' = NoPush
    BY Zenon, <2>1, PushGone
  <2>2. CASE push' = [push EXCEPT !.pc = "send", !.chunks = P, !.left = L]
    <3>1. push \in PushRecords /\ L \in SUBSET Node
      BY Zenon, <1>3 DEF PushTypes
    <3>2. push' \in PushRecords
      BY Zenon, <1>3, <2>2, <3>1 DEF PushRecords
    <3>3. push'.rf = push.rf /\ push'.view = push.view /\ push'.acks = push.acks /\ push'.left = L
      BY <2>2, <3>1 DEF PushRecords
    <3>4. push.pc # "idle"
      BY Zenon, <1>1
    <3> QED BY Zenon, <1>2, <1>3, <3>2, <3>3, <3>4 DEF PushTypes, PushInv, Grows, Reached
  <2> QED BY Zenon, <1>1, <2>1, <2>2
<1> QED BY Zenon, <1>1, <1>2, <1>4 DEF RowTypes, VerifyTypes

(* A target is asked; what it acknowledges it holds, before or since.          *)
LEMMA PushTargetStep ==
  ASSUME ProtectionAssumption, IInv, NEW n \in Node, PushTarget(n)
  PROVE  IInv'
<1> USE DEF IInv
<1> DEFINE H == {c \in Planned(n) : <<n, c>> \in held}
<1>1. PICK S \in SUBSET (Planned(n) \ H), A \in SUBSET Planned(n) :
          /\ push.pc = "send" /\ A \subseteq H \cup S
          /\ held' = held \cup ({n} \X S) /\ lost' = lost \ ({n} \X S)
          /\ push' = [push EXCEPT !.left = push.left \ {n}, !.acks = push.acks \cup ({n} \X A)]
          /\ Fault \/ faults' = faults
          /\ UNCHANGED <<row, eligible, verify>>
  BY Zenon DEF PushTarget
<1>2. Planned(n) \in SUBSET Chunk /\ \A c \in Planned(n) : n \in Targets(c, push.rf, push.view)
  BY Zenon, PushFields DEF Planned
<1>3. Grows
  BY Zenon, <1>1 DEF Grows
<1>4. NetTypes'
  <2>1. faults' \in 0..MaxFaults
    BY Zenon, <1>1, FaultsType
  <2>2. {n} \X S \in SUBSET (Node \X Chunk)
    BY Zenon, <1>2
  <2>3. held' \in SUBSET (Node \X Chunk) /\ lost' \in SUBSET (Node \X Chunk) /\ held' \cap lost' = {}
    <3> DEFINE New == {n} \X S
    <3> HIDE DEF New
    <3> QED BY Zenon, <1>1, <2>2 DEF NetTypes, New
  <2> QED BY Zenon, <1>1, <2>1, <2>3 DEF NetTypes
<1>5. RowInv' /\ VerifyInv'
  BY Zenon, <1>1, <1>3, RowFrame, VerifyFrame
<1>6. \A c \in A : Reached(n, c)' /\ n \in Targets(c, push.rf, push.view)
  BY Zenon, <1>1, <1>2 DEF Reached
<1>7. /\ push' \in PushRecords /\ push'.rf = push.rf /\ push'.view = push.view
      /\ push'.acks = push.acks \cup ({n} \X A) /\ push'.left \subseteq push.left
  <2> DEFINE L == push.left \ {n}
             K == push.acks \cup ({n} \X A)
  <2>1. push \in PushRecords /\ L \in SUBSET Node /\ L \subseteq push.left /\ K \in SUBSET (Node \X Chunk)
    BY Zenon, <1>2, PushFields DEF PushTypes
  <2>2. push' = [push EXCEPT !.left = L, !.acks = K]
    BY Zenon, <1>1
  <2> HIDE DEF L, K
  <2>3. push' \in PushRecords
    BY Zenon, <2>1, <2>2 DEF PushRecords
  <2>4. push'.rf = push.rf /\ push'.view = push.view /\ push'.acks = K /\ push'.left = L
    BY <2>1, <2>2 DEF PushRecords
  <2> QED BY Zenon, <2>1, <2>3, <2>4 DEF K
<1>8. PushTypes'
  BY Zenon, <1>7 DEF PushTypes
<1>9. PushInv'
  <2>1. push.rf # 0
    BY Zenon, <1>1 DEF PushInv
  <2>2. ASSUME NEW m \in Node, NEW c \in Chunk, <<m, c>> \in push'.acks
        PROVE  Reached(m, c)' /\ m \in Targets(c, push.rf, push.view)
    <3>1. CASE <<m, c>> \in push.acks
      BY Zenon, <1>3, <3>1 DEF PushInv, Reached, Grows
    <3>2. CASE m = n /\ c \in A
      BY Zenon, <1>6, <3>2
    <3>3. <<m, c>> \in push.acks \/ <<m, c>> \in {n} \X A
      BY Zenon, <1>7, <2>2
    <3>4. <<m, c>> \in {n} \X A => m = n /\ c \in A
      OBVIOUS
    <3> QED BY Zenon, <3>1, <3>2, <3>3, <3>4
  <2> QED BY Zenon, <1>7, <2>1, <2>2 DEF PushInv
<1> QED BY Zenon, <1>1, <1>4, <1>5, <1>8, <1>9 DEF RowTypes, VerifyTypes

-----------------------------------------------------------------------------
(* A row written with the count of targets that answered.                      *)
LEMMA NewRow ==
  ASSUME ProtectionAssumption, NEW c \in Chunk, NEW k \in Rf \ {0}, NEW E \in SUBSET Node,
         NEW A \in SUBSET Targets(c, k, E), \A n \in A : Reached(n, c)',
         NEW st \in States, st \in {"PLACED", "VERIFIED"} => Cardinality(A) >= k,
         row'[c] = [state |-> st, rf |-> k, copies |-> Cardinality(A), epoch |-> Epoch(k, E)]
  PROVE  row'[c] \in RowRecord /\ Covers(row'[c]) /\ Evidence(c)'
<1>1. k \in Nat /\ k >= 1 /\ k \in Rf
  BY RfType
<1>2. Cardinality(A) \in 0..Cardinality(Node)
  <2>1. A \in SUBSET Node
    BY Zenon DEF Targets
  <2> QED BY Zenon, <2>1, CountType
<1> DEFINE m == Cardinality(A)
           q == row'[c]
<1>3. q = [state |-> st, rf |-> k, copies |-> m, epoch |-> <<k, E>>] /\ m \in 0..Cardinality(Node)
  BY Zenon, <1>2 DEF Epoch
<1> HIDE DEF m, q
<1>4. q \in RowRecord
  BY <1>1, <1>3 DEF RowRecord
<1>5. q.state = st /\ q.rf = k /\ q.copies = m /\ q.epoch[1] = k /\ q.epoch[2] = E
  BY <1>3
<1>6. Covers(q)
  BY Zenon, <1>1, <1>5 DEF Covers, Protected, m
<1>7. Evidence(c)'
  <2>1. row'[c].epoch[1] = k /\ row'[c].epoch[2] = E /\ row'[c].copies = m
    BY Zenon, <1>5 DEF q
  <2>2. m >= k => Full(c, k, E)'
    <3> SUFFICES ASSUME m >= k PROVE Full(c, k, E)'
      OBVIOUS
    <3>1. A = Targets(c, k, E) /\ Cardinality(Targets(c, k, E)) = k
      BY Zenon, <1>1, AllOfThem DEF m
    <3>2. \A n \in Targets(c, k, E) : Reached(n, c)'
      BY Zenon, <3>1
    <3> QED BY Zenon, <3>1, <3>2 DEF Full
  <2> QED BY Zenon, <2>1, <2>2 DEF Evidence
<1> QED BY Zenon, <1>4, <1>6, <1>7 DEF q

(* replication_push_state calls the copies placed when they are enough.        *)
LEMMA PushStateIs ==
  ASSUME NEW m, NEW k
  PROVE  PushState(m, k) \in States /\ (PushState(m, k) \in {"PLACED", "VERIFIED"} => m >= k)
<1>1. CASE m >= k
  BY <1>1 DEF PushState, States
<1>2. CASE ~(m >= k)
  <2>1. PushState(m, k) = "DEGRADED" \/ PushState(m, k) = "FAILED"
    BY <1>2 DEF PushState
  <2> QED BY <2>1 DEF States
<1> QED BY Zenon, <1>1, <1>2

(* flush_updates writes rows whose evidence is true.                           *)
LEMMA FlushRows ==
  ASSUME ProtectionAssumption, IInv, NEW B \in SUBSET Chunk, B # {} => push.pc = "send", Flush(B), Grows
  PROVE  RowTypes' /\ RowInv'
<1> USE DEF IInv
<1>1. row' = [c \in Chunk |-> IF c \notin B THEN row[c]
              ELSE [state |-> PushState(Acked(c), push.rf), rf |-> push.rf,
                    copies |-> Acked(c), epoch |-> PushEpoch]]
  BY Zenon DEF Flush
<1>2. ASSUME NEW c \in Chunk PROVE row'[c] \in RowRecord /\ Covers(row'[c]) /\ Evidence(c)'
  <2>1. CASE c \notin B
    <3>1. row'[c] = row[c]
      BY Zenon, <1>1, <2>1
    <3>2. row[c] \in RowRecord /\ Covers(row[c])
      BY Zenon DEF RowTypes, RowInv
    <3> QED BY Zenon, <3>1, <3>2, EvidenceStays
  <2>2. CASE c \in B
    <3> DEFINE A == {n \in Node : <<n, c>> \in push.acks}
               st == PushState(Acked(c), push.rf)
    <3>1. push.rf \in Rf \ {0} /\ push.view \in SUBSET Node
      <4>1. push.rf # 0
        BY Zenon, <2>2 DEF PushInv
      <4>2. PushRf \subseteq Rf \ {0}
        BY Zenon, RfType
      <4> QED BY Zenon, <4>1, <4>2, PushFields
    <3>2. A \in SUBSET Targets(c, push.rf, push.view) /\ \A n \in A : Reached(n, c)'
      BY Zenon DEF PushInv, Reached, Grows
    <3>3. row'[c] = [state |-> st, rf |-> push.rf, copies |-> Cardinality(A), epoch |-> Epoch(push.rf, push.view)]
      BY Zenon, <1>1, <2>2 DEF Acked, PushEpoch
    <3>4. st \in States /\ (st \in {"PLACED", "VERIFIED"} => Cardinality(A) >= push.rf)
      BY Zenon, PushStateIs DEF Acked
    <3> HIDE DEF A, st
    <3> QED BY Zenon, <3>1, <3>2, <3>3, <3>4, NewRow
  <2> QED BY Zenon, <2>1, <2>2
<1>3. row' = [c \in Chunk |-> row'[c]]
  BY Zenon, <1>1
<1> QED BY Zenon, <1>2, <1>3 DEF RowTypes, RowInv

(* push writes a batch of outcomes.                                            *)
LEMMA PushRecordStep ==
  ASSUME ProtectionAssumption, IInv, NEW B \in SUBSET Chunk, PushRecord(B)
  PROVE  IInv'
<1> USE DEF IInv
<1> DEFINE R == push.chunks \ B
<1>1. /\ UNCHANGED <<eligible, held, lost, verify, faults>> /\ push.pc = "send" /\ Flush(B)
      /\ push' = NoPush \/ push' = [push EXCEPT !.chunks = R]
  BY Zenon DEF PushRecord
<1>2. Grows /\ NetTypes' /\ VerifyInv'
  BY Zenon, <1>1, Still, NetFrame, VerifyFrame
<1>3. RowTypes' /\ RowInv'
  BY Zenon, <1>1, <1>2, FlushRows
<1>4. PushTypes' /\ PushInv'
  <2>1. R \in SUBSET Chunk /\ push \in PushRecords
    BY Zenon, PushFields DEF PushTypes
  <2> HIDE DEF R
  <2>2. CASE push' = NoPush
    BY Zenon, <2>2, PushGone
  <2>3. CASE push' = [push EXCEPT !.chunks = R]
    <3>1. push' \in PushRecords
      BY <2>1, <2>3 DEF PushRecords
    <3>2. /\ push'.rf = push.rf /\ push'.view = push.view /\ push'.acks = push.acks /\ push'.left = push.left
          /\ push'.pc = push.pc
      BY <2>1, <2>3 DEF PushRecords
    <3> QED BY Zenon, <1>2, <3>1, <3>2 DEF PushTypes, PushInv, Grows, Reached
  <2> QED BY Zenon, <1>1, <2>2, <2>3
<1> QED BY Zenon, <1>1, <1>2, <1>3, <1>4 DEF VerifyTypes

(* push is interrupted, or dies.                                               *)
LEMMA PushInterruptStep ==
  ASSUME ProtectionAssumption, IInv, NEW B \in SUBSET Chunk, PushInterrupt(B)
  PROVE  IInv'
<1> USE DEF IInv
<1>1. /\ UNCHANGED <<eligible, held, lost, verify>> /\ (B # {} => push.pc = "send") /\ Flush(B)
      /\ push' = NoPush /\ Fault
  BY Zenon DEF PushInterrupt
<1>2. Grows /\ NetTypes' /\ VerifyInv'
  BY Zenon, <1>1, Still, NetFrame, VerifyFrame
<1>3. RowTypes' /\ RowInv'
  BY Zenon, <1>1, <1>2, FlushRows
<1>4. PushTypes' /\ PushInv'
  BY Zenon, <1>1, PushGone
<1> QED BY Zenon, <1>1, <1>2, <1>3, <1>4 DEF VerifyTypes

-----------------------------------------------------------------------------
(* verify reads the view and begins.                                           *)
LEMMA VerifyViewStep ==
  ASSUME ProtectionAssumption, IInv, VerifyView
  PROVE  IInv'
<1> USE DEF IInv
<1>1. PICK b \in BOOLEAN : verify' = [NoVerify EXCEPT !.pc = "select", !.view = eligible, !.all = b]
  BY Zenon DEF VerifyView
<1>2. UNCHANGED <<row, eligible, held, lost, push, faults>>
  BY Zenon DEF VerifyView
<1>3. NoVerify \in VerifyRecords /\ NoVerify.seen = {} /\ NoVerify.left = {} /\ eligible \in SUBSET Node
  BY Zenon, NoneRuns DEF NetTypes
<1>4. verify' \in VerifyRecords
  BY Zenon, <1>1, <1>3 DEF VerifyRecords
<1>5. verify'.seen = {} /\ verify'.left = {}
  BY <1>1, <1>3 DEF VerifyRecords
<1>6. VerifyTypes' /\ VerifyInv'
  BY Zenon, <1>4, <1>5 DEF VerifyTypes, VerifyInv
<1>7. NetTypes' /\ RowInv' /\ PushInv'
  BY Zenon, <1>2, Still, NetFrame, RowFrame, PushFrame
<1> QED BY Zenon, <1>2, <1>6, <1>7 DEF RowTypes, PushTypes

(* verify chooses its candidates and reads their factors.                      *)
LEMMA VerifySelectStep ==
  ASSUME ProtectionAssumption, IInv, NEW S \in SUBSET Chunk, NEW scoped \in BOOLEAN, VerifySelect(S, scoped)
  PROVE  IInv'
<1> USE DEF IInv
<1> DEFINE V == {c \in S : row[c].state \in VerifyStates(scoped) /\ row[c].rf > 0}
           F == [c \in V |-> row[c].rf]
           L == UNION {Targets(c, row[c].rf, verify.view) : c \in V}
<1>1. /\ UNCHANGED <<row, eligible, held, lost, push, faults>> /\ verify.pc = "select"
      /\ verify' = NoVerify \/ verify' = [verify EXCEPT !.pc = "probe", !.rfs = F, !.left = L]
  BY Zenon DEF VerifySelect
<1>2. NetTypes' /\ RowInv' /\ PushInv'
  BY Zenon, <1>1, Still, NetFrame, RowFrame, PushFrame
<1>3. verify \in VerifyRecords /\ verify.view \in SUBSET Node /\ verify.seen = {}
  <2>1. verify.pc # "probe"
    BY Zenon, <1>1
  <2> QED BY Zenon, <2>1, VerifyFields DEF VerifyTypes, VerifyInv
<1>4. L \subseteq verify.view /\ L \in SUBSET Node
  BY Zenon, <1>3 DEF Targets
<1>5. F \in Factors
  <2>1. V \in SUBSET Chunk
    BY Zenon
  <2>2. ASSUME NEW c \in V PROVE row[c].rf \in Rf \ {0}
    <3>1. row[c] \in RowRecord
      BY Zenon, <2>1 DEF RowTypes
    <3>2. row[c].rf \in Rf /\ row[c].rf > 0
      BY Zenon, <3>1, RowFields
    <3>3. row[c].rf # 0
      BY <3>2
    <3> QED BY Zenon, <3>2, <3>3
  <2> HIDE DEF V
  <2>3. F \in [V -> Rf \ {0}]
    BY Zenon, <2>2
  <2> QED BY Zenon, <2>1, <2>3 DEF Factors
<1> HIDE DEF V, F, L
<1>6. VerifyTypes' /\ VerifyInv'
  <2>1. CASE verify' = NoVerify
    BY Zenon, <2>1, VerifyGone
  <2>2. CASE verify' = [verify EXCEPT !.pc = "probe", !.rfs = F, !.left = L]
    <3>1. verify' \in VerifyRecords
      BY Zenon, <1>3, <1>4, <1>5, <2>2 DEF VerifyRecords
    <3>2. verify'.view = verify.view /\ verify'.seen = verify.seen /\ verify'.left = L
      BY <1>3, <2>2 DEF VerifyRecords
    <3> QED BY Zenon, <1>3, <1>4, <3>1, <3>2 DEF VerifyTypes, VerifyInv
  <2> QED BY Zenon, <1>1, <2>1, <2>2
<1> QED BY Zenon, <1>1, <1>2, <1>6 DEF RowTypes, PushTypes

(* A target answers what it still holds.                                       *)
LEMMA VerifyTargetStep ==
  ASSUME ProtectionAssumption, IInv, NEW n \in Node, VerifyTarget(n)
  PROVE  IInv'
<1> USE DEF IInv
<1> DEFINE Asked == {c \in DOMAIN verify.rfs : n \in Targets(c, verify.rfs[c], verify.view)}
<1>1. PICK D \in SUBSET Asked :
          /\ verify.pc = "probe"
          /\ verify' = [verify EXCEPT !.left = verify.left \ {n}, !.seen = verify.seen \cup (({n} \X D) \cap held)]
          /\ Fault \/ faults' = faults
          /\ UNCHANGED <<row, eligible, held, lost, push>>
  BY Zenon DEF VerifyTarget
<1>2. Grows /\ NetTypes' /\ RowInv' /\ PushInv'
  BY Zenon, <1>1, Still, NetFrame, RowFrame, PushFrame
<1> DEFINE L == verify.left \ {n}
           K == verify.seen \cup (({n} \X D) \cap held)
<1>3. verify \in VerifyRecords /\ L \in SUBSET Node /\ L \subseteq verify.left /\ K \in SUBSET (Node \X Chunk)
  BY Zenon, VerifyFields DEF VerifyTypes, NetTypes
<1>4. verify' = [verify EXCEPT !.left = L, !.seen = K]
  BY Zenon, <1>1
<1>5. /\ verify' \in VerifyRecords /\ verify'.rfs = verify.rfs /\ verify'.view = verify.view
      /\ verify'.seen = K /\ verify'.left = L /\ verify'.pc = verify.pc
  <2> HIDE DEF L, K
  <2>1. verify' \in VerifyRecords
    BY Zenon, <1>3, <1>4 DEF VerifyRecords
  <2>2. verify'.rfs = verify.rfs /\ verify'.view = verify.view /\ verify'.seen = K /\ verify'.left = L /\ verify'.pc = verify.pc
    BY <1>3, <1>4 DEF VerifyRecords
  <2> QED BY Zenon, <2>1, <2>2
<1>6. VerifyTypes'
  BY Zenon, <1>3, <1>5 DEF VerifyTypes
<1>7. VerifyInv'
  <2>1. ASSUME NEW m \in Node, NEW c \in Chunk, <<m, c>> \in K
        PROVE  Reached(m, c)' /\ c \in DOMAIN verify.rfs /\ m \in Targets(c, verify.rfs[c], verify.view)
    <3>1. CASE <<m, c>> \in verify.seen
      BY Zenon, <1>2, <3>1 DEF VerifyInv, Reached, Grows
    <3>2. CASE m = n /\ c \in D /\ <<m, c>> \in held
      BY Zenon, <1>1, <3>2 DEF Reached
    <3>3. <<m, c>> \in verify.seen \/ (<<m, c>> \in {n} \X D /\ <<m, c>> \in held)
      BY Zenon, <2>1
    <3>4. <<m, c>> \in {n} \X D => m = n /\ c \in D
      OBVIOUS
    <3> QED BY Zenon, <3>1, <3>2, <3>3, <3>4
  <2> HIDE DEF K
  <2> QED BY Zenon, <1>1, <1>5, <2>1 DEF VerifyInv
<1> QED BY Zenon, <1>1, <1>2, <1>6, <1>7 DEF RowTypes, PushTypes

(* verify writes what it found over the rows as they are by then.              *)
LEMMA VerifyRecordStep ==
  ASSUME ProtectionAssumption, IInv, VerifyRecord
  PROVE  IInv'
<1> USE DEF IInv
<1> DEFINE Seen(c) == {n \in Node : <<n, c>> \in verify.seen}
<1>1. /\ UNCHANGED <<eligible, held, lost, push, faults>> /\ verify' = NoVerify
      /\ row' = [c \in Chunk |-> IF c \notin DOMAIN verify.rfs THEN row[c]
                 ELSE [state |-> IF Cardinality(Seen(c)) >= verify.rfs[c] THEN "VERIFIED" ELSE "DEGRADED",
                       rf |-> verify.rfs[c], copies |-> Cardinality(Seen(c)),
                       epoch |-> Epoch(verify.rfs[c], verify.view)]]
  BY Zenon DEF VerifyRecord
<1>2. Grows /\ NetTypes' /\ PushInv'
  BY Zenon, <1>1, Still, NetFrame, PushFrame
<1>3. VerifyTypes' /\ VerifyInv'
  BY Zenon, <1>1, VerifyGone
<1>4. ASSUME NEW c \in Chunk PROVE row'[c] \in RowRecord /\ Covers(row'[c]) /\ Evidence(c)'
  <2>1. CASE c \notin DOMAIN verify.rfs
    <3>1. row'[c] = row[c]
      BY Zenon, <1>1, <2>1
    <3>2. row[c] \in RowRecord /\ Covers(row[c])
      BY Zenon DEF RowTypes, RowInv
    <3> QED BY Zenon, <1>2, <3>1, <3>2, EvidenceStays
  <2>2. CASE c \in DOMAIN verify.rfs
    <3> DEFINE A == Seen(c)
               k == verify.rfs[c]
               st == IF Cardinality(A) >= k THEN "VERIFIED" ELSE "DEGRADED"
    <3>1. k \in Rf \ {0} /\ verify.view \in SUBSET Node
      BY Zenon, <2>2, FactorType, VerifyFields
    <3>2. A \in SUBSET Targets(c, k, verify.view) /\ \A n \in A : Reached(n, c)'
      BY Zenon, <1>2 DEF VerifyInv, Reached, Grows
    <3>3. row'[c] = [state |-> st, rf |-> k, copies |-> Cardinality(A), epoch |-> Epoch(k, verify.view)]
      BY Zenon, <1>1, <2>2
    <3> HIDE DEF A, k
    <3>4. st \in States /\ (st \in {"PLACED", "VERIFIED"} => Cardinality(A) >= k)
      BY Zenon DEF States
    <3> HIDE DEF st
    <3> QED BY Zenon, <3>1, <3>2, <3>3, <3>4, NewRow
  <2> QED BY Zenon, <2>1, <2>2
<1>5. row' = [c \in Chunk |-> row'[c]]
  BY Zenon, <1>1
<1>6. RowTypes' /\ RowInv'
  BY Zenon, <1>4, <1>5 DEF RowTypes, RowInv
<1> QED BY Zenon, <1>1, <1>2, <1>3, <1>6 DEF PushTypes

(* verify dies.                                                                *)
LEMMA VerifyCrashStep ==
  ASSUME ProtectionAssumption, IInv, VerifyCrash
  PROVE  IInv'
<1> USE DEF IInv
<1>1. UNCHANGED <<row, eligible, held, lost, push>> /\ verify' = NoVerify /\ Fault
  BY Zenon DEF VerifyCrash
<1>2. NetTypes' /\ RowInv' /\ PushInv'
  BY Zenon, <1>1, Still, NetFrame, RowFrame, PushFrame
<1>3. VerifyTypes' /\ VerifyInv'
  BY Zenon, <1>1, VerifyGone
<1> QED BY Zenon, <1>1, <1>2, <1>3 DEF RowTypes, PushTypes

-----------------------------------------------------------------------------
(* No row, no push and no verification: the catalog of an empty repository.    *)
LEMMA InitIInv ==
  ASSUME ProtectionAssumption, Init
  PROVE  IInv
<1>1. NoRow \in RowRecord /\ NoRow.epoch[1] = 0 /\ NoRow.state = "none"
  <2>1. 0 \in 0..Cardinality(Node)
    <3>1. Cardinality(Node) \in Nat
      BY Zenon, FS_CardinalityType DEF ProtectionAssumption
    <3> QED BY <3>1
  <2>2. <<0, {}>> \in Nat \X SUBSET Node /\ <<0, {}>>[1] = 0
    OBVIOUS
  <2>3. 0 \in Rf
    BY Zenon, RfType
  <2> QED BY <2>1, <2>2, <2>3 DEF NoRow, NoEpoch, RowRecord, States
<1>2. ~Protected(NoRow)
  BY Zenon, <1>1 DEF Protected
<1>3. row = [c \in Chunk |-> NoRow] /\ \A c \in Chunk : row[c] = NoRow
  BY Zenon DEF Init
<1>4. RowTypes /\ RowInv
  BY Zenon, <1>1, <1>2, <1>3 DEF RowTypes, RowInv, Covers, Evidence
<1>5. 0 \in 0..MaxFaults
  BY DEF ProtectionAssumption
<1>6. NetTypes
  BY Zenon, <1>5 DEF Init, NetTypes
<1>7. PushTypes /\ PushInv /\ VerifyTypes /\ VerifyInv
  BY Zenon, NoneRuns DEF Init, PushTypes, PushInv, VerifyTypes, VerifyInv
<1> QED BY Zenon, <1>4, <1>6, <1>7 DEF IInv

(* Every step keeps the invariant.                                             *)
LEMMA NextIInv ==
  ASSUME ProtectionAssumption, IInv, Next
  PROVE  IInv'
<1>1. CASE ViewChange \/ \E p \in held : Lose(p)
  BY Zenon, <1>1, ClusterStep
<1>2. CASE \E c \in Chunk, k \in CaptureRf : EnsureProtection(c, k)
  BY Zenon, <1>2, EnsureStep
<1>3. CASE ScheduledPush
  BY Zenon, <1>3, PushViewStep DEF ScheduledPush
<1>4. CASE \E k \in PushRf, S \in SUBSET Chunk : PushView(k, "select", S)
  BY Zenon, <1>4, PushViewStep
<1>5. CASE PushStep
  BY Zenon, <1>5, MarkStaleStep, PushSelectStep, PushRecordStep, PushTargetStep DEF PushStep
<1>6. CASE VerifyStep
  BY Zenon, <1>6, VerifyViewStep, VerifyRecordStep, VerifyCrashStep, VerifySelectStep, VerifyTargetStep DEF VerifyStep
<1>7. CASE \E B \in SUBSET Chunk : PushInterrupt(B)
  BY Zenon, <1>7, PushInterruptStep
<1> QED BY Zenon, <1>1, <1>2, <1>3, <1>4, <1>5, <1>6, <1>7 DEF Next

(* The invariant holds throughout, whatever commands overtake each other.      *)
THEOREM Invariance == Spec => []IInv
<1>1. Init => IInv
  BY Zenon, ProtectionAssumption, InitIInv
<1>2. IInv /\ [Next]_vars => IInv'
  <2>1. ASSUME IInv, UNCHANGED vars PROVE IInv'
    <3>1. UNCHANGED <<row, eligible, held, lost, push, verify, faults>>
      BY Zenon, <2>1 DEF vars
    <3>2. NetTypes' /\ RowInv' /\ PushInv' /\ VerifyInv'
      BY Zenon, <2>1, <3>1, ProtectionAssumption, Still, NetFrame, RowFrame, PushFrame, VerifyFrame DEF IInv
    <3> QED BY Zenon, <2>1, <3>1, <3>2 DEF IInv, RowTypes, PushTypes, VerifyTypes
  <2> QED BY Zenon, <2>1, ProtectionAssumption, NextIInv
<1> QED BY <1>1, <1>2, PTL DEF Spec

(* The rows and the local state of push and verify have their types: the
   copies a row counts are never more than the nodes, and no command counts
   an answer of a node that was not asked.                                     *)
THEOREM TypesHold == Spec => []TypeOK
<1>1. ASSUME IInv PROVE TypeOK
  <2> USE <1>1 DEF IInv
  <2>1. \A c \in Chunk : row[c] \in RowRecord
    BY Zenon DEF RowTypes
  <2>2. \A c \in Chunk : /\ row[c].state \in States /\ row[c].rf \in Rf /\ row[c].copies \in 0..Cardinality(Node)
    BY Zenon, <2>1, RowFields
  <2>3. DOMAIN verify.rfs \subseteq Chunk
    BY Zenon, ProtectionAssumption, FactorType
  <2> QED BY Zenon, <2>2, <2>3, PushFields DEF TypeOK, NetTypes, PushTypes, VerifyTypes, States, Rf
<1> QED BY <1>1, Invariance, PTL

(* Evidence that suffices now is true (is_record_sufficient, which the fast
   path of backup trusts instead of asking the nodes): each of the k nodes
   HRW chooses among the eligible ones has the chunk or had it, and they are
   k, for any cluster and any interleaving of captures, a push and a
   verification.                                                               *)
THEOREM SufficientIsTrue == Spec => []SufficientIsStored
<1>1. ASSUME IInv PROVE SufficientIsStored
  <2> SUFFICES ASSUME NEW c \in Chunk, NEW k \in CaptureRf \ {0}, IsSufficient(row[c], k, Epoch(k, eligible))
               PROVE  /\ Cardinality(Targets(c, k, eligible)) = k
                      /\ \A n \in Targets(c, k, eligible) : <<n, c>> \in held \cup lost
    BY Zenon DEF SufficientIsStored
  <2>1. row[c].epoch = <<k, eligible>> /\ row[c].copies >= k
    BY Zenon DEF IsSufficient, Epoch
  <2>2. row[c].epoch[1] = k /\ row[c].epoch[2] = eligible
    BY <2>1
  <2>3. Evidence(c)
    BY Zenon, <1>1 DEF IInv, RowInv
  <2> QED BY Zenon, <2>1, <2>2, <2>3 DEF Evidence, Full, Reached
<1> QED BY <1>1, Invariance, PTL

(* A row that counts as protected covers the number of copies it says are
   desired, with an epoch for that number: raising that number takes the evidence away
   (_ensure_recipe_protection).                                                *)
THEOREM ProtectedCovers == Spec => []ProtectedCoversIntent
<1>1. ASSUME IInv PROVE ProtectedCoversIntent
  BY Zenon, <1>1 DEF IInv, RowInv, Covers, ProtectedCoversIntent
<1> QED BY <1>1, Invariance, PTL

-----------------------------------------------------------------------------
(* The writes of CASRepository, one level down: the threads that write       *)
(* chunks at the same time, of these streams and of others.                  *)
CONSTANTS Thread, DirOf, MaxRemove, MaxStoreFaults
VARIABLES dirs, ensured, blob, temp, call, settled, removed, storeFaults

CAS == INSTANCE CASRepository WITH Chunk <- Hash, MaxFaults <- MaxStoreFaults, faults <- storeFaults

(* Only a thread between open and close has a partial temporary file.        *)
TempInv ==
    \A t \in Thread :
        /\ temp[t] # "none" => call[t].pc \in {"write", "replace"}
        /\ temp[t] = "part" => CAS!At(t, "write")

StoreInv == CAS!TypeOK /\ TempInv /\ CAS!WholeOrAbsent

(* The store starts empty and no thread is writing.                          *)
LEMMA StoreInit == CAS!Init => StoreInv
  BY DEF CAS!Init, StoreInv, CAS!TypeOK, TempInv, CAS!WholeOrAbsent, CAS!NoCall, CAS!At, CAS!State

(* The end of a call, with or without an error, keeps the types and what is  *)
(* known of temporary files.                                                 *)
LEMMA CallEnds ==
  ASSUME CAS!TypeOK, TempInv, NEW t \in Thread, CAS!Leave(t)
  PROVE  /\ temp' \in [Thread -> CAS!State]
         /\ call' \in [Thread -> [pc : {"idle", "ensure", "open", "write", "replace"},
                                  chunk : Hash \union {CAS!NoCall.chunk}, attempt : {0, 1}]]
         /\ \A u \in Thread : ~CAS!At(u, "idle")' => call'[u].chunk \in Hash
         /\ TempInv'
  BY DEF CAS!TypeOK, TempInv, CAS!Leave, CAS!NoCall, CAS!At, CAS!State

(* Every step of a writer, of another program or of the operating system     *)
(* keeps the invariant.                                                      *)
LEMMA StoreNext == StoreInv /\ [CAS!Next]_(CAS!vars) => StoreInv'
<1> SUFFICES ASSUME StoreInv, [CAS!Next]_(CAS!vars) PROVE StoreInv'
  OBVIOUS
<1> USE DEF StoreInv
<1>1. ASSUME NEW t \in Thread, NEW c \in Hash, CAS!Begin(t, c) PROVE StoreInv'
  <2>1. CASE blob[c] # "none"
    BY <1>1, <2>1 DEF CAS!Begin, CAS!TypeOK, TempInv, CAS!WholeOrAbsent, CAS!At, CAS!State
  <2>2. CASE blob[c] = "none"
    BY SMTT(20), <1>1, <2>2 DEF CAS!Begin, CAS!TypeOK, TempInv, CAS!WholeOrAbsent, CAS!At
  <2> QED BY <2>1, <2>2
<1>2. ASSUME NEW t \in Thread, CAS!EnsureCached(t) \/ CAS!EnsureMakes(t) PROVE StoreInv'
  BY SMTT(20), <1>2 DEF CAS!EnsureCached, CAS!EnsureMakes, CAS!Goto, CAS!TypeOK, TempInv, CAS!WholeOrAbsent, CAS!At
<1>3. ASSUME NEW t \in Thread, CAS!EnsureFails(t) \/ CAS!OpenMissing(t) \/ CAS!WriteFails(t) PROVE StoreInv'
  <2>1. CAS!Leave(t) /\ UNCHANGED <<blob, settled>>
    BY <1>3 DEF CAS!EnsureFails, CAS!OpenMissing, CAS!WriteFails, CAS!Raise
  <2> QED BY <2>1, CallEnds DEF CAS!TypeOK, CAS!WholeOrAbsent
<1>4. ASSUME NEW t \in Thread, CAS!Open(t) PROVE StoreInv'
  BY <1>4 DEF CAS!Open, CAS!Goto, CAS!TypeOK, TempInv, CAS!WholeOrAbsent, CAS!At, CAS!State
<1>5. ASSUME NEW t \in Thread, CAS!Write(t) PROVE StoreInv'
  BY <1>5 DEF CAS!Write, CAS!Goto, CAS!TypeOK, TempInv, CAS!WholeOrAbsent, CAS!At, CAS!State
<1>6. ASSUME NEW t \in Thread, CAS!Replace(t) PROVE StoreInv'
  <2>1. temp[t] = "whole" /\ call[t].chunk \in Hash
    BY <1>6 DEF CAS!Replace, CAS!TypeOK, TempInv, CAS!At, CAS!State
  <2>2. CAS!Leave(t) /\ settled' = settled \union {call[t].chunk} /\ blob' = [blob EXCEPT ![call[t].chunk] = "whole"]
    BY <1>6, <2>1 DEF CAS!Replace, CAS!Return
  <2> QED BY <2>1, <2>2, CallEnds DEF CAS!TypeOK, CAS!WholeOrAbsent, CAS!State
<1>7. ASSUME NEW t \in Thread, CAS!ReplaceMissing(t) PROVE StoreInv'
  <2>1. CASE call[t].attempt = 0
    BY <1>7, <2>1 DEF CAS!ReplaceMissing, CAS!TypeOK, TempInv, CAS!WholeOrAbsent, CAS!At
  <2>2. CASE call[t].attempt # 0
    <3>1. CAS!Leave(t) /\ UNCHANGED <<blob, settled>>
      BY <1>7, <2>2 DEF CAS!ReplaceMissing, CAS!Raise
    <3> QED BY <3>1, CallEnds DEF CAS!TypeOK, CAS!WholeOrAbsent
  <2> QED BY <2>1, <2>2
<1>8. ASSUME NEW t \in Thread, CAS!ReplaceFails(t) PROVE StoreInv'
  <2>1. CAS!Leave(t) /\ UNCHANGED blob
    BY <1>8 DEF CAS!ReplaceFails, CAS!Return, CAS!Raise
  <2>2. call[t].chunk \in Hash
    BY <1>8 DEF CAS!ReplaceFails, CAS!TypeOK, CAS!At
  <2>3. settled' = settled \/ (blob[call[t].chunk] # "none" /\ settled' = settled \union {call[t].chunk})
    BY <1>8 DEF CAS!ReplaceFails, CAS!Return, CAS!Raise
  <2> QED BY <2>1, <2>2, <2>3, CallEnds DEF CAS!TypeOK, CAS!WholeOrAbsent, CAS!State
<1>9. ASSUME NEW d \in CAS!Dir, CAS!RemoveDir(d) PROVE StoreInv'
  BY <1>9 DEF CAS!RemoveDir, CAS!TypeOK, TempInv, CAS!WholeOrAbsent, CAS!At, CAS!State
<1>10. CASE CAS!Crash
  BY <1>10 DEF CAS!Crash, CAS!TypeOK, TempInv, CAS!WholeOrAbsent, CAS!NoCall, CAS!At, CAS!State
<1>11. CASE UNCHANGED CAS!vars
  BY <1>11 DEF CAS!vars, CAS!TypeOK, TempInv, CAS!WholeOrAbsent, CAS!At
<1> QED BY SMTT(20), <1>1, <1>2, <1>3, <1>4, <1>5, <1>6, <1>7, <1>8, <1>9, <1>10, <1>11 DEF CAS!Next

(* No partial chunk is ever visible under its hash, and a chunk that a write *)
(* has returned for stays until its directory is deleted from outside: the   *)
(* contract of CASRepository._write_once among competing threads.            *)
THEOREM WholeOrAbsentHolds == CAS!Spec => []CAS!WholeOrAbsent
<1>1. StoreInv => CAS!WholeOrAbsent
  BY DEF StoreInv
<1> QED BY StoreInit, StoreNext, <1>1, PTL DEF CAS!Spec

(* The finally clause of _write_once removes the temporary file on every     *)
(* path out of it.                                                           *)
THEOREM NoTempLeftHolds == CAS!Spec => []CAS!NoTempLeft
<1>1. StoreInv => CAS!NoTempLeft
  BY DEF StoreInv, TempInv, CAS!NoTempLeft, CAS!At
<1> QED BY StoreInit, StoreNext, <1>1, PTL DEF CAS!Spec
=============================================================================
