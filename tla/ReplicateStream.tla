---------------------------- MODULE ReplicateStream ----------------------------
(***************************************************************************)
(* The receiving side of chunk replication: ReplicateChunks of             *)
(* node/services/storage_rpc.py and the StorageCommitEngine of             *)
(* node/storage/commit_engine.py.                                          *)
(*                                                                         *)
(* Every stream has two threads.  The reader takes requests from gRPC,     *)
(* submits them to the engine, which all streams share, and puts the       *)
(* futures into a bounded queue; the consumer, which is the handler,       *)
(* moves futures from the queue to its in-flight set and yields one ACK    *)
(* for each that is done.  The engine bounds the commits that are not      *)
(* finished with a semaphore of slots.  A request is named by its stream   *)
(* and its position.                                                       *)
(*                                                                         *)
(* Timed waits (put, get, acquire, futures.wait) give up and are tried     *)
(* again; a wait that times out changes nothing but the place in the loop. *)
(***************************************************************************)
EXTENDS Integers, Sequences, FiniteSets

CONSTANTS
    Stream,      \* concurrent ReplicateChunks calls
    Hash,       \* chunk hashes
    Bad,         \* chunks whose payload does not decompress to their hash
    NoHash,      \* a request without a chunk_hash
    Sent,        \* Sent[s]: the requests the client of s sends, then half-closes
    MaxPending,  \* max_pending: slots of the engine, and size of each queue
    Workers,     \* worker_count
    MayClose     \* bound: whether the engine may be closed under the streams

ASSUME StreamAssumption ==
    /\ IsFiniteSet(Stream)
    /\ Bad \subseteq Hash /\ NoHash \notin Hash
    /\ Sent \in [Stream -> Seq(Hash \cup {NoHash})]
    /\ MaxPending \in Nat \ {0} /\ Workers \in Nat \ {0}
    /\ MayClose \in BOOLEAN

VARIABLES
    active,    \* active[s]: context.is_active()
    stop,      \* stop[s]: stop_event
    readPc,    \* readPc[s]: where the reader is
    readIdx,   \* readIdx[s]: requests taken from request_iterator
    errors,    \* errors[s]: reader_errors is not empty
    queue,     \* queue[s]: future_queue; 0 is the sentinel
    consPc,    \* consPc[s]: where the consumer is
    inflight,  \* inflight[s]: futures the consumer waits for
    yielding,  \* yielding[s]: the done futures it is yielding
    finished,  \* finished[s]: reader_finished
    acks,      \* acks[s]: positions for which an ACK was sent
    outcome,   \* outcome[s]: how the call ended
    fut,       \* fut[s][i]: the commit of request i, "none" if not submitted
    result,    \* result[s][i]: the status of its StorageCommitResult
    slots,     \* _slots
    closing,   \* close(): "open", "closing" once _closed is set, "closed" on return
    cas        \* chunks in the local CAS

readerVars == <<readPc, readIdx, errors>>
consumerVars == <<consPc, inflight, yielding, finished, acks, outcome>>
engineVars == <<fut, result, slots, closing, cas>>
streamVars == <<active, stop, queue, readerVars, consumerVars, engineVars>>

Sentinel == 0
Requests(s) == 1..Len(Sent[s])
EngineClosed == closing # "open"

-----------------------------------------------------------------------------
StreamInit ==
    /\ active = [s \in Stream |-> TRUE]
    /\ stop = [s \in Stream |-> FALSE]
    /\ readPc = [s \in Stream |-> "read"]
    /\ readIdx = [s \in Stream |-> 0]
    /\ errors = [s \in Stream |-> FALSE]
    /\ queue = [s \in Stream |-> <<>>]
    /\ consPc = [s \in Stream |-> "drain"]
    /\ inflight = [s \in Stream |-> {}]
    /\ yielding = [s \in Stream |-> {}]
    /\ finished = [s \in Stream |-> FALSE]
    /\ acks = [s \in Stream |-> {}]
    /\ outcome = [s \in Stream |-> "none"]
    /\ fut = [s \in Stream |-> [i \in Requests(s) |-> "none"]]
    /\ result = [s \in Stream |-> [i \in Requests(s) |-> "none"]]
    /\ slots = MaxPending
    /\ closing = "open"
    /\ cas = {}

(* the client cancels, disappears or runs into its timeout *)
Cancel(s) ==
    /\ active[s]
    /\ active' = [active EXCEPT ![s] = FALSE]
    /\ UNCHANGED <<stop, queue, readerVars, consumerVars, engineVars>>

(* context.add_callback(stop_event.set) *)
StopCallback(s) ==
    /\ ~active[s] /\ ~stop[s]
    /\ stop' = [stop EXCEPT ![s] = TRUE]
    /\ UNCHANGED <<active, queue, readerVars, consumerVars, engineVars>>

-----------------------------------------------------------------------------
(* reader() *)

Stopped(s) == stop[s] \/ ~active[s]

(* an exception leaves the loop; it is kept unless the stream is stopped *)
ReaderRaises(s) ==
    /\ readPc' = [readPc EXCEPT ![s] = "sentinel"]
    /\ errors' = [errors EXCEPT ![s] = @ \/ ~stop[s]]

(* the next request, tested before it is submitted *)
ReadRequest(s) ==
    /\ readPc[s] = "read" /\ readIdx[s] < Len(Sent[s])
    /\ readIdx' = [readIdx EXCEPT ![s] = @ + 1]
    /\ stop' = [stop EXCEPT ![s] = Stopped(s)]
    /\ readPc' = [readPc EXCEPT ![s] = IF Stopped(s) THEN "sentinel"
                                       ELSE IF Sent[s][readIdx'[s]] = NoHash THEN "read"
                                       ELSE "submit"]
    /\ UNCHANGED <<active, queue, errors, consumerVars, engineVars>>

(* the client has half-closed *)
ReadEnd(s) ==
    /\ readPc[s] = "read" /\ readIdx[s] = Len(Sent[s])
    /\ readPc' = [readPc EXCEPT ![s] = "sentinel"]
    /\ UNCHANGED <<active, stop, queue, readIdx, errors, consumerVars, engineVars>>

(* request_iterator raises once the call is not active *)
ReadRaises(s) ==
    /\ readPc[s] = "read" /\ ~active[s]
    /\ ReaderRaises(s)
    /\ UNCHANGED <<active, stop, queue, readIdx, consumerVars, engineVars>>

(* submit(): raises when closed or cancelled, otherwise waits for a slot *)
AcquireSlot(s) ==
    /\ readPc[s] = "submit" /\ ~EngineClosed /\ ~stop[s] /\ slots > 0
    /\ slots' = slots - 1
    /\ readPc' = [readPc EXCEPT ![s] = "enter"]
    /\ UNCHANGED <<active, stop, queue, readIdx, errors, consumerVars, fut, result, closing, cas>>

SubmitRaises(s) ==
    /\ readPc[s] = "submit" /\ (EngineClosed \/ stop[s])
    /\ ReaderRaises(s)
    /\ UNCHANGED <<active, stop, queue, readIdx, consumerVars, engineVars>>

(* Mutant of EnterEngine: the slot is not given back when the engine is closed. *)
EnterEngineLosingSlot(s) ==
    /\ readPc[s] = "enter"
    /\ IF EngineClosed
       THEN ReaderRaises(s) /\ UNCHANGED <<slots, fut>>
       ELSE /\ fut' = [fut EXCEPT ![s][readIdx[s]] = "queued"]
            /\ readPc' = [readPc EXCEPT ![s] = "enqueue"]
            /\ UNCHANGED <<slots, errors>>
    /\ UNCHANGED <<active, stop, queue, readIdx, consumerVars, result, closing, cas>>

(* submit(): the second test of _closed, under _lifecycle_lock *)
EnterEngine(s) ==
    /\ readPc[s] = "enter"
    /\ IF EngineClosed
       THEN /\ slots' = slots + 1
            /\ ReaderRaises(s)
            /\ UNCHANGED fut
       ELSE /\ fut' = [fut EXCEPT ![s][readIdx[s]] = "queued"]
            /\ readPc' = [readPc EXCEPT ![s] = "enqueue"]
            /\ UNCHANGED <<slots, errors>>
    /\ UNCHANGED <<active, stop, queue, readIdx, consumerVars, result, closing, cas>>

(* enqueue(): gives up when stopped, otherwise waits for room *)
Enqueue(s) ==
    /\ readPc[s] = "enqueue" /\ ~Stopped(s) /\ Len(queue[s]) < MaxPending
    /\ queue' = [queue EXCEPT ![s] = Append(@, readIdx[s])]
    /\ readPc' = [readPc EXCEPT ![s] = "read"]
    /\ UNCHANGED <<active, stop, readIdx, errors, consumerVars, engineVars>>

EnqueueStopped(s) ==
    /\ readPc[s] = "enqueue" /\ Stopped(s)
    /\ stop' = [stop EXCEPT ![s] = TRUE]
    /\ readPc' = [readPc EXCEPT ![s] = "sentinel"]
    /\ UNCHANGED <<active, queue, readIdx, errors, consumerVars, engineVars>>

(* enqueue_sentinel() of a stopped stream: the queue is emptied first *)
SentinelStopped(s) ==
    /\ readPc[s] = "sentinel" /\ Stopped(s)
    /\ queue' = [queue EXCEPT ![s] = <<Sentinel>>]
    /\ readPc' = [readPc EXCEPT ![s] = "done"]
    /\ UNCHANGED <<active, stop, readIdx, errors, consumerVars, engineVars>>

(* enqueue_sentinel() otherwise: from here on only room in the queue ends it *)
SentinelWaits(s) ==
    /\ readPc[s] = "sentinel" /\ ~Stopped(s)
    /\ readPc' = [readPc EXCEPT ![s] = "sentinelPut"]
    /\ UNCHANGED <<active, stop, queue, readIdx, errors, consumerVars, engineVars>>

(* Mutant of SentinelPut: one attempt, whose queue.Full is ignored. *)
SentinelPutOnce(s) ==
    /\ readPc[s] = "sentinelPut"
    /\ queue' = IF Len(queue[s]) < MaxPending THEN [queue EXCEPT ![s] = Append(@, Sentinel)]
                ELSE queue
    /\ readPc' = [readPc EXCEPT ![s] = "done"]
    /\ UNCHANGED <<active, stop, readIdx, errors, consumerVars, engineVars>>

(* the put, retried while the queue is full *)
SentinelPut(s) ==
    /\ readPc[s] = "sentinelPut" /\ Len(queue[s]) < MaxPending
    /\ queue' = [queue EXCEPT ![s] = Append(@, Sentinel)]
    /\ readPc' = [readPc EXCEPT ![s] = "done"]
    /\ UNCHANGED <<active, stop, readIdx, errors, consumerVars, engineVars>>

(* queue.Full on a stopped stream: stop_event is set and the put tried again *)
SentinelFull(s) ==
    /\ readPc[s] = "sentinelPut" /\ Len(queue[s]) = MaxPending /\ Stopped(s)
    /\ stop' = [stop EXCEPT ![s] = TRUE]
    /\ UNCHANGED <<active, queue, readerVars, consumerVars, engineVars>>

-----------------------------------------------------------------------------
(* The consumer: the generator gRPC iterates *)

Futures(items) == {items[k] : k \in 1..Len(items)} \ {Sentinel}
HasSentinel(items) == \E k \in 1..Len(items) : items[k] = Sentinel

(* the top of the loop: the queue is emptied, then the exits are tested *)
DrainQueue(s) ==
    LET flying == inflight[s] \cup Futures(queue[s])
        last   == finished[s] \/ HasSentinel(queue[s])
    IN /\ consPc[s] = "drain"
       /\ queue' = [queue EXCEPT ![s] = <<>>]
       /\ inflight' = [inflight EXCEPT ![s] = flying]
       /\ finished' = [finished EXCEPT ![s] = last]
       /\ consPc' = [consPc EXCEPT ![s] = IF flying = {} /\ last THEN "finish"
                                          ELSE IF ~active[s] THEN "finally"
                                          ELSE IF flying = {} THEN "get" ELSE "wait"]
       /\ UNCHANGED <<active, stop, readerVars, yielding, acks, outcome, engineVars>>

(* nothing in flight: a timed get *)
GetOne(s) ==
    /\ consPc[s] = "get"
    /\ IF queue[s] = <<>>
       THEN UNCHANGED <<queue, inflight, finished>>
       ELSE /\ queue' = [queue EXCEPT ![s] = Tail(@)]
            /\ inflight' = [inflight EXCEPT ![s] = Futures(<<Head(queue[s])>>)]
            /\ finished' = [finished EXCEPT ![s] = @ \/ Head(queue[s]) = Sentinel]
    /\ consPc' = [consPc EXCEPT ![s] = "drain"]
    /\ UNCHANGED <<active, stop, readerVars, yielding, acks, outcome, engineVars>>

IsDone(s, i) == fut[s][i] \in {"done", "released"}

(* Mutant of WaitDone: not_done is forgotten. *)
WaitDoneForgetting(s) ==
    /\ consPc[s] = "wait"
    /\ yielding' = [yielding EXCEPT ![s] = {i \in inflight[s] : IsDone(s, i)}]
    /\ inflight' = [inflight EXCEPT ![s] = {}]
    /\ consPc' = [consPc EXCEPT ![s] = IF yielding'[s] = {} THEN "drain" ELSE "yield"]
    /\ UNCHANGED <<active, stop, queue, readerVars, finished, acks, outcome, engineVars>>

(* Mutant of WaitDone: the futures are taken for done when the wait returns. *)
WaitDoneEarly(s) ==
    /\ consPc[s] = "wait"
    /\ yielding' = [yielding EXCEPT ![s] = inflight[s]]
    /\ inflight' = [inflight EXCEPT ![s] = {}]
    /\ consPc' = [consPc EXCEPT ![s] = "yield"]
    /\ UNCHANGED <<active, stop, queue, readerVars, finished, acks, outcome, engineVars>>

(* futures.wait with a timeout: what is done, possibly nothing *)
WaitDone(s) ==
    LET done == {i \in inflight[s] : IsDone(s, i)}
    IN /\ consPc[s] = "wait"
       /\ yielding' = [yielding EXCEPT ![s] = done]
       /\ inflight' = [inflight EXCEPT ![s] = @ \ done]
       /\ consPc' = [consPc EXCEPT ![s] = IF done = {} THEN "drain" ELSE "yield"]
       /\ UNCHANGED <<active, stop, queue, readerVars, finished, acks, outcome, engineVars>>

(* one ACK per done future, in any order *)
YieldAck(s) ==
    /\ consPc[s] = "yield" /\ active[s]
    /\ \E i \in yielding[s] :
          /\ acks' = [acks EXCEPT ![s] = @ \cup {i}]
          /\ yielding' = [yielding EXCEPT ![s] = @ \ {i}]
          /\ consPc' = [consPc EXCEPT ![s] = IF yielding[s] = {i} THEN "drain" ELSE "yield"]
    /\ UNCHANGED <<active, stop, queue, readerVars, inflight, finished, outcome, engineVars>>

(* gRPC closes the generator of a call that is not active at its yield *)
YieldAbandoned(s) ==
    /\ consPc[s] = "yield" /\ ~active[s]
    /\ consPc' = [consPc EXCEPT ![s] = "finally"]
    /\ UNCHANGED <<active, stop, queue, readerVars, inflight, yielding, finished, acks, outcome,
                   engineVars>>

(* the loop is left; after the sentinel, reader_errors decide the outcome.  The
   finally block sets stop_event before its timed join. *)
EndLoop(s) ==
    /\ consPc[s] \in {"finish", "finally"}
    /\ outcome' = [outcome EXCEPT ![s] = IF consPc[s] = "finally" THEN @
                                         ELSE IF errors[s] THEN "error" ELSE "ok"]
    /\ stop' = [stop EXCEPT ![s] = TRUE]
    /\ consPc' = [consPc EXCEPT ![s] = "join"]
    /\ UNCHANGED <<active, queue, readerVars, inflight, yielding, finished, acks, engineVars>>

(* the join returns or times out, and the call ends; the client of a call that
   is not active sees it cancelled, whatever the handler set *)
JoinReader(s) ==
    /\ consPc[s] = "join"
    /\ outcome' = [outcome EXCEPT ![s] = IF ~active[s] THEN "cancelled"
                                         ELSE IF readPc[s] = "done" THEN @ ELSE "error"]
    /\ active' = [active EXCEPT ![s] = FALSE]
    /\ consPc' = [consPc EXCEPT ![s] = "end"]
    /\ UNCHANGED <<stop, queue, readerVars, inflight, yielding, finished, acks, engineVars>>

-----------------------------------------------------------------------------
(* StorageCommitEngine *)

Finish(s, i, status) ==
    /\ fut' = [fut EXCEPT ![s][i] = "done"]
    /\ result' = [result EXCEPT ![s][i] = status]

(* the commits, each named by its stream and position *)
Commits == UNION {{s} \X Requests(s) : s \in Stream}

Writing == {f \in Commits : fut[f[1]][f[2]] = "writing"}

(* process_one up to put_compressed: the chunk is present, invalid, or new *)
ProcessOne(s, i) ==
    /\ fut[s][i] = "queued" /\ Cardinality(Writing) < Workers
    /\ IF Sent[s][i] \in cas THEN Finish(s, i, "present")
       ELSE IF Sent[s][i] \in Bad THEN Finish(s, i, "rejected")
       ELSE fut' = [fut EXCEPT ![s][i] = "writing"] /\ UNCHANGED result
    /\ UNCHANGED <<active, stop, queue, readerVars, consumerVars, slots, closing, cas>>

(* put_compressed finds the chunk written meanwhile, publishes it, or raises.
   Two writers of one chunk may both publish it. *)
PutCompressed(s, i) ==
    /\ fut[s][i] = "writing"
    /\ \/ Sent[s][i] \in cas /\ Finish(s, i, "present") /\ UNCHANGED cas
       \/ Finish(s, i, "stored") /\ cas' = cas \cup {Sent[s][i]}
       \/ Finish(s, i, "error") /\ UNCHANGED cas
    /\ UNCHANGED <<active, stop, queue, readerVars, consumerVars, slots, closing>>

(* release_slot, the done callback *)
ReleaseSlot(s, i) ==
    /\ fut[s][i] = "done"
    /\ fut' = [fut EXCEPT ![s][i] = "released"]
    /\ slots' = slots + 1
    /\ UNCHANGED <<active, stop, queue, readerVars, consumerVars, result, closing, cas>>

BeginClose ==
    /\ MayClose /\ closing = "open"
    /\ closing' = "closing"
    /\ UNCHANGED <<active, stop, queue, readerVars, consumerVars, fut, result, slots, cas>>

Unfinished(s, i) == fut[s][i] \in {"queued", "writing"}

(* executor.shutdown(wait=True): accepted commits are finished first *)
EndClose ==
    /\ closing = "closing"
    /\ \A s \in Stream : \A i \in Requests(s) : ~Unfinished(s, i)
    /\ closing' = "closed"
    /\ UNCHANGED <<active, stop, queue, readerVars, consumerVars, fut, result, slots, cas>>

-----------------------------------------------------------------------------
Reader(s) ==
    \/ ReadRequest(s) \/ ReadEnd(s) \/ ReadRaises(s) \/ AcquireSlot(s) \/ SubmitRaises(s)
    \/ EnterEngine(s) \/ Enqueue(s) \/ EnqueueStopped(s)
    \/ SentinelStopped(s) \/ SentinelWaits(s) \/ SentinelPut(s) \/ SentinelFull(s)

Consumer(s) ==
    \/ DrainQueue(s) \/ GetOne(s) \/ WaitDone(s) \/ YieldAck(s)
    \/ YieldAbandoned(s) \/ EndLoop(s) \/ JoinReader(s)

StreamNext ==
    \/ \E s \in Stream : \/ Cancel(s) \/ StopCallback(s) \/ Reader(s) \/ Consumer(s)
                         \/ \E i \in Requests(s) : ProcessOne(s, i) \/ PutCompressed(s, i)
                                                   \/ ReleaseSlot(s, i)
    \/ BeginClose \/ EndClose

StreamSpec == StreamInit /\ [][StreamNext]_streamVars

(* Threads run: the reader, the consumer, gRPC's callback, and the workers, which
   take queued commits in order.  A client sends its requests and half-closes.
   A slot that comes free again and again is eventually acquired by each reader
   that polls for it, and so is room in a queue. *)
Fairness ==
    /\ \A s \in Stream :
          /\ WF_streamVars(StopCallback(s)) /\ WF_streamVars(Consumer(s))
          /\ WF_streamVars(Reader(s)) /\ SF_streamVars(AcquireSlot(s)) /\ SF_streamVars(Enqueue(s))
          /\ SF_streamVars(SentinelPut(s))
          /\ \A i \in Requests(s) : /\ SF_streamVars(ProcessOne(s, i))
                                    /\ WF_streamVars(PutCompressed(s, i))
                                    /\ WF_streamVars(ReleaseSlot(s, i))
    /\ WF_streamVars(EndClose)

StreamFairSpec == StreamSpec /\ Fairness

-----------------------------------------------------------------------------
(* Properties *)

(* Every variable keeps its type: the semaphore stays between 0 and MaxPending
   and no queue outgrows its bound. *)
StreamTypeOK ==
    /\ active \in [Stream -> BOOLEAN] /\ stop \in [Stream -> BOOLEAN]
    /\ readPc \in [Stream -> {"read", "submit", "enter", "enqueue", "sentinel", "sentinelPut",
                              "done"}]
    /\ errors \in [Stream -> BOOLEAN]
    /\ consPc \in [Stream -> {"drain", "get", "wait", "yield", "finish", "finally", "join", "end"}]
    /\ finished \in [Stream -> BOOLEAN]
    /\ outcome \in [Stream -> {"none", "ok", "error", "cancelled"}]
    /\ \A s \in Stream :
          /\ readIdx[s] \in 0..Len(Sent[s])
          /\ readPc[s] \in {"submit", "enter", "enqueue"} => readIdx[s] > 0
          /\ queue[s] \in Seq(Requests(s) \cup {Sentinel}) /\ Len(queue[s]) <= MaxPending
          /\ inflight[s] \subseteq Requests(s) /\ yielding[s] \subseteq Requests(s)
          /\ acks[s] \subseteq Requests(s)
          /\ fut[s] \in [Requests(s) -> {"none", "queued", "writing", "done", "released"}]
          /\ result[s] \in [Requests(s) -> {"none", "stored", "present", "rejected", "error"}]
    /\ slots \in 0..MaxPending
    /\ closing \in {"open", "closing", "closed"}
    /\ cas \subseteq Hash

(* "no se inventan ACKs": an ACK is sent only for a commit that has finished, and
   one that reports success means that a valid chunk is in the CAS. *)
AcksAreReal ==
    \A s \in Stream : \A i \in acks[s] :
        /\ IsDone(s, i) /\ result[s][i] # "none"
        /\ result[s][i] \in {"stored", "present"} => Sent[s][i] \in cas \ Bad

(* A call its client sees end without error has acknowledged every request of the client:
   no chunk is dropped between the reader, the queue, the in-flight set and the
   ACKs, and a reader that failed never looks like one that reached the end. *)
NoSilentTruncation ==
    \A s \in Stream : consPc[s] = "end" /\ outcome[s] = "ok" =>
        acks[s] = {i \in Requests(s) : Sent[s][i] # NoHash}

(* Every handler returns, whether the client completes its stream or cancels it
   at any point, and whether or not the engine is closed meanwhile. *)
HandlerEnds == \A s \in Stream : <>(consPc[s] = "end")

(* All slots come back: a cancelled stream does not take capacity of the engine
   away from the streams that follow. *)
SlotsReturn == <>[](slots = MaxPending)

=============================================================================
