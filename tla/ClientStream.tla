----------------------------- MODULE ClientStream -----------------------------
(***************************************************************************)
(* The sending side of chunk replication: replicate_missing_hashes of      *)
(* protection/replication/remote_client.py and its QueueIterator           *)
(* (queue_iterator.py).                                                    *)
(*                                                                         *)
(* Three threads share the iterator.  The sender reads chunks from the     *)
(* local CAS and puts them; gRPC's thread takes them with __next__ and     *)
(* sends them; the main thread collects the responses and, whichever way   *)
(* the call ends, cancels the iterator and joins the sender.  finish() and *)
(* cancel() exclude each other with _finalize_lock, put() and __next__ do  *)
(* not take it.                                                            *)
(*                                                                         *)
(* The target answers each chunk it has received at most once, and may end *)
(* or break the call at any moment.  A timed queue operation that times    *)
(* out is tried again, and changes nothing.                                *)
(***************************************************************************)
EXTENDS Integers, Sequences, FiniteSets

CONSTANTS
    N,          \* the number of chunks to send, named by their position
    MaxSize     \* stream_inflight, the size of the queue

ASSUME SizeAssumption == N \in Nat /\ MaxSize \in Nat \ {0}

Missing == 1..N
Sentinel == 0
Thread == {"sender", "main"}

VARIABLES
    queue,      \* _queue
    isFinished, \* _finished
    cancelled,  \* _cancelled
    enqueued,   \* _sentinel_enqueued
    lock,       \* _finalize_lock: "free", "sender" or "main"
    closePc,    \* closePc[w]: where thread w is inside finish() or cancel()
    sendPc,     \* where the sender is
    sendIdx,    \* the position of the chunk it handles
    failures,   \* local_failures
    sendError,  \* sender_error is set
    accepted,   \* the chunks put() returned True for
    nextPc,     \* gRPC's thread: in __next__, sending an item, or stopped
    sending,    \* the item it sends
    received,   \* the chunks the target has received
    answered,   \* the chunks the target has answered
    stored,     \* the chunks in the CAS of the target
    mainPc,     \* where replicate_missing_hashes is
    stop,       \* stop_event
    broken,     \* stream_error is set
    acks        \* acks[c]: the TargetAck of c, "none" if there is none

iterVars == <<queue, isFinished, cancelled, enqueued, lock>>
sendVars == <<sendPc, sendIdx, failures, sendError, accepted>>
grpcVars == <<nextPc, sending>>
targetVars == <<received, answered, stored>>
mainVars == <<mainPc, stop, broken, acks>>
clientVars == <<iterVars, closePc, sendVars, grpcVars, targetVars, mainVars>>

-----------------------------------------------------------------------------
(* some of the chunks may be at the target already, although the probe of a
   moment ago reported them missing *)
ClientInit ==
    /\ queue = <<>>
    /\ isFinished = FALSE /\ cancelled = FALSE /\ enqueued = FALSE
    /\ lock = "free" /\ closePc = [w \in Thread |-> "idle"]
    /\ sendPc = "next" /\ sendIdx = 0 /\ failures = {} /\ sendError = FALSE
    /\ accepted = {}
    /\ nextPc = "next" /\ sending = 0
    /\ received = {} /\ answered = {} /\ stored \in SUBSET Missing
    /\ mainPc = "responses" /\ stop = FALSE /\ broken = FALSE
    /\ acks = [c \in Missing |-> "none"]

-----------------------------------------------------------------------------
(* sender() *)

(* the next chunk, if there is one and the stream is not stopped *)
SendNext ==
    /\ sendPc = "next"
    /\ IF stop \/ sendIdx = N
       THEN sendPc' = "close" /\ UNCHANGED sendIdx
       ELSE sendPc' = "read" /\ sendIdx' = sendIdx + 1
    /\ UNCHANGED <<iterVars, closePc, failures, sendError, accepted, grpcVars, targetVars, mainVars>>

(* repo.get_compressed: a chunk that cannot be read is a local failure; any
   other exception ends the loop *)
ReadLocal ==
    /\ sendPc = "read"
    /\ \/ sendPc' = "put" /\ UNCHANGED <<failures, sendError>>
       \/ sendPc' = "next" /\ failures' = failures \cup {sendIdx} /\ UNCHANGED sendError
       \/ sendPc' = "close" /\ sendError' = TRUE /\ UNCHANGED failures
    /\ UNCHANGED <<iterVars, closePc, sendIdx, accepted, grpcVars, targetVars, mainVars>>

(* put(): the flags are tested, then a timed put waits for room, so that it may
   be overtaken by cancel() *)
PutTest ==
    /\ sendPc = "put"
    /\ sendPc' = IF cancelled \/ isFinished THEN "close" ELSE "putting"
    /\ UNCHANGED <<iterVars, closePc, sendIdx, failures, sendError, accepted, grpcVars, targetVars, mainVars>>

PutItem ==
    /\ sendPc = "putting"
    /\ IF Len(queue) < MaxSize
       THEN /\ queue' = Append(queue, sendIdx)
            /\ accepted' = accepted \cup {sendIdx}
            /\ sendPc' = "next"
       ELSE sendPc' = "put" /\ UNCHANGED <<queue, accepted>>
    /\ UNCHANGED <<isFinished, cancelled, enqueued, lock, closePc, sendIdx, failures, sendError, grpcVars,
                   targetVars, mainVars>>

(* the finally block: cancel() when stopped, finish() otherwise *)
SendClose ==
    /\ sendPc = "close"
    /\ sendPc' = "closing"
    /\ closePc' = [closePc EXCEPT !["sender"] = IF stop THEN "cancel" ELSE "finish"]
    /\ cancelled' = (cancelled \/ stop)
    /\ UNCHANGED <<queue, isFinished, enqueued, lock, sendIdx, failures, sendError, accepted, grpcVars,
                   targetVars, mainVars>>

SendDone ==
    /\ sendPc = "closing" /\ closePc["sender"] = "done"
    /\ sendPc' = "done"
    /\ UNCHANGED <<iterVars, closePc, sendIdx, failures, sendError, accepted, grpcVars, targetVars, mainVars>>

-----------------------------------------------------------------------------
(* finish() and cancel() of the iterator, by thread w *)

(* the lock is taken; nothing is left to do if a sentinel has been enqueued *)
LockFinalize(w) ==
    /\ closePc[w] \in {"finish", "cancel"} /\ lock = "free"
    /\ lock' = IF enqueued THEN "free" ELSE w
    /\ isFinished' = (isFinished \/ (closePc[w] = "finish" /\ ~enqueued))
    /\ closePc' = [closePc EXCEPT ![w] = IF enqueued THEN "done"
                                         ELSE IF @ = "finish" THEN "finishPut" ELSE "force"]
    /\ UNCHANGED <<queue, cancelled, enqueued, sendVars, grpcVars, targetVars, mainVars>>

(* Mutant of FinishPut: finish() waits for room without looking at _cancelled. *)
FinishPutDeaf(w) ==
    /\ closePc[w] = "finishPut" /\ Len(queue) < MaxSize
    /\ queue' = Append(queue, Sentinel)
    /\ enqueued' = TRUE /\ lock' = "free"
    /\ closePc' = [closePc EXCEPT ![w] = "done"]
    /\ UNCHANGED <<isFinished, cancelled, sendVars, grpcVars, targetVars, mainVars>>

(* Mutant of FinishPut: the queue is emptied to make room, as in cancel(). *)
FinishPutDiscarding(w) ==
    /\ closePc[w] = "finishPut"
    /\ closePc' = [closePc EXCEPT ![w] = "force"]
    /\ UNCHANGED <<queue, isFinished, cancelled, enqueued, lock, sendVars, grpcVars, targetVars,
                   mainVars>>

(* finish(): the sentinel behind what is queued, unless cancelled meanwhile *)
FinishPut(w) ==
    /\ closePc[w] = "finishPut"
    /\ \/ /\ ~cancelled /\ Len(queue) < MaxSize
          /\ queue' = Append(queue, Sentinel)
          /\ enqueued' = TRUE /\ lock' = "free"
          /\ closePc' = [closePc EXCEPT ![w] = "done"]
       \/ /\ cancelled
          /\ closePc' = [closePc EXCEPT ![w] = "force"]
          /\ UNCHANGED <<queue, enqueued, lock>>
    /\ UNCHANGED <<isFinished, cancelled, sendVars, grpcVars, targetVars, mainVars>>

(* _force_sentinel_after_cancel: the queue is emptied ... *)
ForceDrain(w) ==
    /\ closePc[w] = "force"
    /\ queue' = <<>>
    /\ closePc' = [closePc EXCEPT ![w] = "forcePut"]
    /\ UNCHANGED <<isFinished, cancelled, enqueued, lock, sendVars, grpcVars, targetVars, mainVars>>

(* ... and the sentinel put without waiting: a late put() may have filled it *)
ForcePut(w) ==
    /\ closePc[w] = "forcePut"
    /\ IF Len(queue) < MaxSize
       THEN queue' = Append(queue, Sentinel) /\ enqueued' = TRUE
       ELSE UNCHANGED <<queue, enqueued>>
    /\ lock' = "free"
    /\ closePc' = [closePc EXCEPT ![w] = "done"]
    /\ UNCHANGED <<isFinished, cancelled, sendVars, grpcVars, targetVars, mainVars>>

-----------------------------------------------------------------------------
(* gRPC's thread and the target *)

(* __next__: an item, the sentinel, or a cancelled iterator that is empty *)
NextItem ==
    /\ nextPc = "next"
    /\ \/ /\ queue # <<>>
          /\ queue' = Tail(queue)
          /\ nextPc' = IF Head(queue) = Sentinel THEN "stopped" ELSE "sending"
          /\ sending' = IF Head(queue) = Sentinel THEN sending ELSE Head(queue)
       \/ queue = <<>> /\ cancelled /\ nextPc' = "stopped" /\ UNCHANGED <<queue, sending>>
    /\ UNCHANGED <<isFinished, cancelled, enqueued, lock, closePc, sendVars, targetVars, mainVars>>

(* the item is sent while the call lasts; afterwards the thread ends *)
SendItem ==
    /\ nextPc = "sending"
    /\ \/ mainPc = "responses" /\ received' = received \cup {sending} /\ nextPc' = "next"
       \/ mainPc # "responses" /\ nextPc' = "stopped" /\ UNCHANGED received
    /\ UNCHANGED <<iterVars, closePc, sendVars, sending, answered, stored, mainVars>>

(* the target answers with the status of its commit, and the main thread reads
   the answer while the call lasts *)
Answer(c) ==
    /\ c \in received \ answered /\ mainPc = "responses"
    /\ answered' = answered \cup {c}
    /\ \/ c \in stored /\ acks' = [acks EXCEPT ![c] = "present"] /\ UNCHANGED stored
       \/ stored' = stored \cup {c} /\ acks' = [acks EXCEPT ![c] = "stored"]
       \/ acks' = [acks EXCEPT ![c] = "error"] /\ UNCHANGED stored
    /\ UNCHANGED <<iterVars, closePc, sendVars, grpcVars, received, mainPc, stop, broken>>

(* a chunk the target stored without its answer arriving *)
StoreUnanswered(c) ==
    /\ c \in received \ answered
    /\ stored' = stored \cup {c} /\ answered' = answered \cup {c}
    /\ UNCHANGED <<iterVars, closePc, sendVars, grpcVars, received, mainVars>>

-----------------------------------------------------------------------------
(* The main thread *)

(* the response stream ends or breaks, at any point *)
ResponsesEnd ==
    /\ mainPc = "responses"
    /\ broken' \in BOOLEAN
    /\ mainPc' = "stop"
    /\ UNCHANGED <<iterVars, closePc, sendVars, grpcVars, targetVars, stop, acks>>

(* the finally block: stop_event.set, then request_iter.cancel *)
SetStop ==
    /\ mainPc = "stop"
    /\ stop' = TRUE
    /\ mainPc' = "cancel"
    /\ UNCHANGED <<iterVars, closePc, sendVars, grpcVars, targetVars, broken, acks>>

CancelIterator ==
    /\ mainPc = "cancel"
    /\ cancelled' = TRUE
    /\ closePc' = [closePc EXCEPT !["main"] = "cancel"]
    /\ mainPc' = "join"
    /\ UNCHANGED <<queue, isFinished, enqueued, lock, sendVars, grpcVars, targetVars, stop, broken,
                   acks>>

(* Mutant of Conclude: a chunk without an ACK counts as sent. *)
ConcludeTrusting(outcome) ==
    /\ mainPc' = outcome
    /\ acks' = [c \in Missing |-> IF c \in failures THEN "error"
                                ELSE IF acks[c] = "none" /\ outcome = "returned" THEN "stored"
                                ELSE acks[c]]
    /\ UNCHANGED <<iterVars, closePc, sendVars, grpcVars, targetVars, stop, broken>>

(* what the caller sees: "raised" with the ACKs so far, or "returned" with an
   ACK for every chunk, an error for those the target did not answer *)
Conclude(outcome) ==
    /\ mainPc' = outcome
    /\ acks' = [c \in Missing |-> IF c \in failures THEN "error"
                                ELSE IF acks[c] = "none" /\ outcome = "returned" THEN "error"
                                ELSE acks[c]]
    /\ UNCHANGED <<iterVars, closePc, sendVars, grpcVars, targetVars, stop, broken>>

(* the sender is joined, or the join times out *)
JoinSender ==
    /\ mainPc = "join" /\ closePc["main"] = "done"
    /\ \/ sendPc = "done" /\ Conclude(IF broken \/ sendError THEN "raised" ELSE "returned")
       \/ sendPc # "done" /\ Conclude("raised")

-----------------------------------------------------------------------------
Sender == SendNext \/ ReadLocal \/ PutTest \/ PutItem \/ SendClose \/ SendDone

Closing(w) == LockFinalize(w) \/ FinishPut(w) \/ ForceDrain(w) \/ ForcePut(w)

Main == SetStop \/ CancelIterator \/ JoinSender

ClientNext ==
    \/ Sender \/ NextItem \/ SendItem \/ ResponsesEnd \/ Main
    \/ \E w \in Thread : Closing(w)
    \/ \E c \in Missing : Answer(c) \/ StoreUnanswered(c)

ClientSpec == ClientInit /\ [][ClientNext]_clientVars

(* The threads run, except that a target may take no more items while the call
   lasts; the call has a timeout, so it ends. *)
Fairness ==
    /\ WF_clientVars(Sender) /\ WF_clientVars(NextItem) /\ WF_clientVars(mainPc # "responses" /\ SendItem) /\ WF_clientVars(ResponsesEnd) /\ WF_clientVars(Main)
    /\ \A w \in Thread : SF_clientVars(LockFinalize(w)) /\ WF_clientVars(Closing(w))

ClientFairSpec == ClientSpec /\ Fairness

-----------------------------------------------------------------------------
(* Properties *)

(* Every variable keeps its type, and the queue its bound. *)
ClientTypeOK ==
    /\ queue \in Seq(Missing \cup {Sentinel}) /\ Len(queue) <= MaxSize
    /\ isFinished \in BOOLEAN /\ cancelled \in BOOLEAN /\ enqueued \in BOOLEAN
    /\ lock \in Thread \cup {"free"}
    /\ closePc \in [Thread -> {"idle", "finish", "cancel", "finishPut", "force", "forcePut", "done"}]
    /\ sendPc \in {"next", "read", "put", "putting", "close", "closing", "done"}
    /\ sendIdx \in 0..N /\ sendError \in BOOLEAN /\ failures \subseteq Missing /\ accepted \subseteq Missing
    /\ nextPc \in {"next", "sending", "stopped"} /\ sending \in 0..N
    /\ received \subseteq Missing /\ answered \subseteq Missing /\ stored \subseteq Missing
    /\ mainPc \in {"responses", "stop", "cancel", "join", "raised", "returned"}
    /\ stop \in BOOLEAN /\ broken \in BOOLEAN
    /\ acks \in [Missing -> {"none", "stored", "present", "error"}]

(* finish(): "conserva todos los mensajes aceptados en cola": while the call
   lasts, the request stream ends only after every chunk that could be read was
   accepted by put() and sent. *)
FinishLosesNothing ==
    nextPc = "stopped" /\ mainPc = "responses" =>
        received = accepted /\ (sendError \/ accepted = Missing \ failures)

(* The evidence the caller gets is sound, also when the stream breaks, the sender
   lags behind or a read fails: a chunk acknowledged as stored or present is at
   the target, and one that could not be read locally is never among them. *)
AcksAreEvidence ==
    \A c \in Missing : acks[c] \in {"stored", "present"} => c \in stored \ failures

(* replicate_missing_hashes returns: cancel() never waits for ever for the lock
   finish() holds, however full the queue is. *)
CallReturns == <>(mainPc \in {"raised", "returned"})

=============================================================================
