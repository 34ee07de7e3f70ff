----------------------------- MODULE SendingProofs -----------------------------
(***************************************************************************)
(* Proofs about the clients that send data to other nodes: of the safety   *)
(* properties of ErasureProtection, the commands that send the shards of   *)
(* data packs, for all nodes, chunks, specs, pushers and faults, and of    *)
(* those of ClientStream, the call that sends the missing chunks to a      *)
(* node, for every number of chunks and every size of the queue.           *)
(***************************************************************************)
EXTENDS ErasureProtection, ClientStream, TLAPS

(***************************************************************************)
(* ErasureProtection.  A row is written long after its shards were sent,   *)
(* so StateIsStored needs to be said of everything a command still has in  *)
(* hand: PushInv of the shards acknowledged to a push and of the updates   *)
(* that wait for a commit, VerifyInv of what a verification has seen.      *)
(* Both are about the nodes in the command's own copy of the row, whatever *)
(* the row is by then.  Shards lost after they were stored still count:    *)
(* the rows cannot know.                                                   *)
(***************************************************************************)
PushFields == {"pc", "loop", "scope", "spec", "view", "retry", "chunks", "open", "pack", "out", "left", "acks",
               "updates", "errors"}
VerifyFields == {"pc", "view", "rows", "left", "seen"}
RowFields == {"spec", "state", "epoch", "at"}
Fields(r, names) == r = [x \in names |-> r[x]]
IsRow(r) == Fields(r, RowFields) /\ r.spec \in Specs /\ DOMAIN r.at = 1..Total(r.spec)

(* The shards of p that are, or were, where the row r says.  S are the       *)
(* triples held or lost.                                                     *)
There(p, r, S) == {i \in DOMAIN r.at : <<r.at[i], p, i>> \in S}
Backed(p, r, S) ==
    /\ Protected(r) => Cardinality(There(p, r, S)) = Total(r.spec)
    /\ r.state = "DEGRADED" => Cardinality(There(p, r, S)) >= r.spec[1]

(* A row of p as W has it, but for state, epoch and nodes.                   *)
SpecOf(W, p, r) == p \in DOMAIN W /\ IsRow(r) /\ r.spec = W[p].spec

(* What a push that has read and sent knows: W are the rows.                 *)
PushInv(c, W, S) ==
    /\ Fields(c, PushFields)
    /\ c.pc # "idle" => c.spec \in Specs
    /\ \A p \in DOMAIN c.updates : SpecOf(W, p, c.updates[p]) /\ Backed(p, c.updates[p], S)
    /\ c.pc = "send" => /\ SpecOf(W, c.pack, c.out) /\ c.out.state = "PENDING"
                        /\ c.left \subseteq DOMAIN c.out.at /\ c.acks \subseteq There(c.pack, c.out, S)

(* What a verification knows.                                                *)
VerifyInv(v, W, S) ==
    /\ Fields(v, VerifyFields) /\ (v.pc = "select" => v.seen = {})
    /\ \A p \in DOMAIN v.rows : SpecOf(W, p, v.rows[p])
    /\ \A t \in v.left : t[1] \in DOMAIN v.rows /\ t[2] \in DOMAIN v.rows[t[1]].at
    /\ \A t \in v.seen : t[1] \in DOMAIN v.rows /\ t[2] \in There(t[1], v.rows[t[1]], S)

RowsInv(W, S, X) ==
    /\ W = [p \in DOMAIN W |-> W[p]]
    /\ \A p \in DOMAIN W : IsRow(W[p]) /\ (p \notin X => Backed(p, W[p], S))
    /\ \A o, p \in DOMAIN W : o # p => Range(o) \cap Range(p) = {}

IInv ==
    /\ RowsInv(row, held \cup lost, crossed)
    /\ push = [q \in Pusher |-> push[q]] /\ \A q \in Pusher : PushInv(push[q], row, held \cup lost)
    /\ VerifyInv(verify, row, held \cup lost)

-----------------------------------------------------------------------------
(* What the proofs use of cardinalities. The lemmas assume it, the last part *)
(* of the module proves it from the library: where nothing else needs the    *)
(* library, it does not burden the provers.                                  *)
Counting ==
    \A n \in Nat : \A T \in SUBSET (1..n) :
        /\ Cardinality(T) \in Nat /\ Cardinality(T) <= n
        /\ \A S \in SUBSET T : Cardinality(S) <= Cardinality(T)

(* The numbers of a spec are naturals.                                       *)
LEMMA SpecNumbers == \A s \in Specs : Total(s) \in Nat /\ s[1] \in Nat
  BY ErasureAssumption DEF Total

(* The shards where a row says they are: no more than the pack has.          *)
LEMMA ThereGrows ==
  ASSUME Counting, NEW p, NEW r, IsRow(r), NEW S, NEW A, A \subseteq There(p, r, S)
  PROVE  /\ Cardinality(A) \in Nat /\ Cardinality(There(p, r, S)) \in Nat
         /\ Cardinality(A) <= Cardinality(There(p, r, S)) /\ Cardinality(There(p, r, S)) <= Total(r.spec)
<1>1. Total(r.spec) \in Nat
  BY Zenon, SpecNumbers DEF IsRow
<1>2. There(p, r, S) \in SUBSET (1..Total(r.spec)) /\ A \in SUBSET (1..Total(r.spec)) /\ A \in SUBSET There(p, r, S)
  BY Zenon DEF There, IsRow
<1> HIDE DEF IsRow
<1> QED BY Zenon, <1>1, <1>2 DEF Counting

(* What a row claims stays true: what is no longer held is lost.             *)
LEMMA BackedGrows ==
  ASSUME Counting, NEW p, NEW r, IsRow(r), NEW S, NEW T, S \subseteq T, Backed(p, r, S)
  PROVE  Backed(p, r, T)
<1>1. There(p, r, S) \subseteq There(p, r, T)
  BY Zenon DEF There
<1>2. /\ Cardinality(There(p, r, S)) \in Nat /\ Cardinality(There(p, r, T)) \in Nat
      /\ Cardinality(There(p, r, S)) <= Cardinality(There(p, r, T)) /\ Cardinality(There(p, r, T)) <= Total(r.spec)
  BY Zenon, <1>1, ThereGrows
<1>3. Total(r.spec) \in Nat /\ r.spec[1] \in Nat
  BY Zenon, SpecNumbers DEF IsRow
<1> QED BY <1>2, <1>3 DEF Backed

(* The state computed from the shards that answered.                         *)
LEMMA StateFromEvidence ==
  ASSUME Counting, NEW p, NEW r, IsRow(r), NEW S, NEW A, A \subseteq There(p, r, S), NEW x,
         \/ x = DataPackState(Cardinality(A), r.spec)
         \/ Cardinality(A) = Total(r.spec)
  PROVE  LET d == [r EXCEPT !.state = x] IN IsRow(d) /\ d.spec = r.spec /\ Backed(p, d, S)
<1> DEFINE d == [r EXCEPT !.state = x]
<1>1. /\ Cardinality(A) \in Nat /\ Cardinality(There(p, r, S)) \in Nat
      /\ Cardinality(A) <= Cardinality(There(p, r, S)) /\ Cardinality(There(p, r, S)) <= Total(r.spec)
  BY Zenon, ThereGrows
<1>2. Total(r.spec) \in Nat /\ r.spec[1] \in Nat /\ r.spec[1] <= Total(r.spec)
  BY ErasureAssumption DEF IsRow, Total
<1>3. d.spec = r.spec /\ d.at = r.at /\ d.state = x /\ Fields(d, RowFields)
  BY Zenon DEF IsRow, Fields, RowFields
<1>4. IsRow(d)
  BY Zenon, <1>3 DEF IsRow
<1>5. There(p, d, S) = There(p, r, S)
  BY Zenon, <1>3 DEF There
<1> HIDE DEF d
<1>6. CASE Cardinality(A) = Total(r.spec)
  <2>1. Cardinality(There(p, r, S)) = Total(r.spec) /\ Cardinality(There(p, r, S)) >= r.spec[1]
    BY <1>1, <1>2, <1>6
  <2> QED BY Zenon, <1>3, <1>4, <1>5, <2>1 DEF Backed, d
<1>7. CASE x = DataPackState(Cardinality(A), r.spec) /\ Cardinality(A) # Total(r.spec)
  <2>1. ~(Cardinality(A) >= Total(r.spec))
    BY <1>1, <1>2, <1>7
  <2>2. /\ x \in {"DEGRADED", "FAILED"}
        /\ x = "DEGRADED" => Cardinality(A) >= r.spec[1]
    BY <1>1, <1>2, <1>7, <2>1 DEF DataPackState
  <2>3. x = "DEGRADED" => Cardinality(There(p, r, S)) >= r.spec[1]
    BY <1>1, <1>2, <2>2
  <2> QED BY Zenon, <1>3, <1>4, <1>5, <2>2, <2>3 DEF Backed, Protected, d
<1> QED BY Zenon, <1>6, <1>7

-----------------------------------------------------------------------------
(* Rows are added, and keep the spec they were registered with.              *)
Keeps(W, V) == \A p \in DOMAIN W : p \in DOMAIN V /\ V[p].spec = W[p].spec

(* What a push knows stays true when others add rows and shards: it rests on *)
(* its own copies of the rows.                                               *)
LEMMA PushKeeps ==
  ASSUME Counting, NEW c, NEW W, NEW V, NEW S, NEW T, PushInv(c, W, S), Keeps(W, V), S \subseteq T
  PROVE  PushInv(c, V, T)
<1>1. \A p \in DOMAIN c.updates : SpecOf(V, p, c.updates[p]) /\ Backed(p, c.updates[p], T)
  BY Zenon, BackedGrows DEF PushInv, SpecOf, Keeps
<1>2. c.pc = "send" => /\ SpecOf(V, c.pack, c.out) /\ c.out.state = "PENDING"
                       /\ c.left \subseteq DOMAIN c.out.at /\ c.acks \subseteq There(c.pack, c.out, T)
  BY Zenon DEF PushInv, SpecOf, Keeps, There
<1> QED BY Zenon, <1>1, <1>2 DEF PushInv

(* So does what a verification knows.                                        *)
LEMMA VerifyKeeps ==
  ASSUME NEW v, NEW W, NEW V, NEW S, NEW T, VerifyInv(v, W, S), Keeps(W, V), S \subseteq T
  PROVE  VerifyInv(v, V, T)
<1>1. \A p \in DOMAIN v.rows : SpecOf(V, p, v.rows[p])
  BY Zenon DEF VerifyInv, SpecOf, Keeps
<1>2. \A t \in v.seen : t[1] \in DOMAIN v.rows /\ t[2] \in There(t[1], v.rows[t[1]], T)
  BY Zenon DEF VerifyInv, There
<1> QED BY Zenon, <1>1, <1>2 DEF VerifyInv

(* A shard more leaves the rows as backed as they were.                      *)
LEMMA RowsKeep ==
  ASSUME Counting, NEW W, NEW S, NEW T, NEW X, RowsInv(W, S, X), S \subseteq T
  PROVE  RowsInv(W, T, X) /\ Keeps(W, W)
<1>1. \A p \in DOMAIN W : p \notin X => Backed(p, W[p], T)
  BY Zenon, BackedGrows DEF RowsInv
<1> QED BY Zenon, <1>1 DEF RowsInv, Keeps

(* What a step has to show.                                                  *)
LEMMA StepKeeps ==
  ASSUME Counting, IInv, held \cup lost \subseteq held' \cup lost', Keeps(row, row'),
         RowsInv(row', held' \cup lost', crossed'),
         push' = [q \in Pusher |-> push'[q]],
         \A q \in Pusher : push'[q] = push[q] \/ PushInv(push'[q], row', held' \cup lost'),
         verify' = verify \/ VerifyInv(verify', row', held' \cup lost')
  PROVE  IInv'
<1>1. ASSUME NEW q \in Pusher PROVE PushInv(push'[q], row', held' \cup lost')
  <2>1. PushInv(push[q], row', held' \cup lost')
    BY Zenon, PushKeeps DEF IInv
  <2> QED BY Zenon, <2>1
<1>2. VerifyInv(verify', row', held' \cup lost')
  <2>1. VerifyInv(verify, row', held' \cup lost')
    BY Zenon, VerifyKeeps DEF IInv
  <2> QED BY Zenon, <2>1
<1> QED BY Zenon, <1>1, <1>2 DEF IInv

(* A step of the push q that writes nothing.                                 *)
LEMMA PushMoves ==
  ASSUME Counting, IInv, NEW q \in Pusher, NEW d, push' = [push EXCEPT ![q] = d], PushInv(d, row, held \cup lost),
         UNCHANGED <<row, held, lost, verify, crossed>>
  PROVE  IInv'
<1>1. RowsInv(row', held' \cup lost', crossed') /\ Keeps(row, row')
  BY Zenon, RowsKeep DEF IInv
<1>2. push' = [r \in Pusher |-> push'[r]] /\ push'[q] = d /\ \A r \in Pusher \ {q} : push'[r] = push[r]
  BY Zenon DEF IInv
<1>3. \A r \in Pusher : push'[r] = push[r] \/ PushInv(push'[r], row', held' \cup lost')
  BY Zenon, <1>2
<1>4. verify' = verify /\ held \cup lost \subseteq held' \cup lost'
  BY Zenon
<1> QED BY Zenon, <1>1, <1>2, <1>3, <1>4, StepKeeps

(* A command that is not running knows nothing that could be wrong.          *)
LEMMA Idles == \A W, S : PushInv(NoPush, W, S) /\ VerifyInv(NoVerify, W, S)
<1>1. \A W, S : PushInv(NoPush, W, S)
  <2>1. NoPush.pc = "idle" /\ NoPush.updates = <<>>
    BY Zenon DEF NoPush
  <2>2. Fields(NoPush, PushFields)
    BY Zenon DEF NoPush, Fields, PushFields
  <2>3. DOMAIN (<<>>) = {}
    OBVIOUS
  <2> HIDE DEF NoPush
  <2> QED BY Zenon, <2>1, <2>2, <2>3 DEF PushInv
<1>2. \A W, S : VerifyInv(NoVerify, W, S)
  BY DEF VerifyInv, NoVerify, Fields, VerifyFields
<1> QED BY Zenon, <1>1, <1>2

(* The rows once the waiting updates of q are written.                       *)
LEMMA FlushedRows ==
  ASSUME IInv, NEW q \in Pusher
  PROVE  RowsInv(Flushed(q), held \cup lost, crossed) /\ Keeps(row, Flushed(q))
<1> DEFINE W == Flushed(q)
           S == held \cup lost
           u == push[q].updates
<1>1. /\ DOMAIN W = DOMAIN row /\ W = [p \in DOMAIN W |-> W[p]]
      /\ \A p \in DOMAIN row : W[p] = IF p \in DOMAIN u THEN u[p] ELSE row[p]
  BY Zenon DEF Flushed
<1>2. \A p \in DOMAIN u : SpecOf(row, p, u[p]) /\ Backed(p, u[p], S)
  BY Zenon DEF IInv, PushInv
<1>3. RowsInv(row, S, crossed)
  BY Zenon DEF IInv
<1> HIDE DEF W, S, u
<1>4. ASSUME NEW p \in DOMAIN W
      PROVE  IsRow(W[p]) /\ W[p].spec = row[p].spec /\ (p \notin crossed => Backed(p, W[p], S))
  BY Zenon, <1>1, <1>2, <1>3 DEF SpecOf, RowsInv
<1>5. \A o, p \in DOMAIN W : o # p => Range(o) \cap Range(p) = {}
  BY Zenon, <1>1, <1>3 DEF RowsInv
<1>6. RowsInv(W, S, crossed)
  BY Zenon, <1>1, <1>4, <1>5 DEF RowsInv
<1>7. Keeps(row, W)
  BY Zenon, <1>1, <1>4 DEF Keeps
<1> QED BY Zenon, <1>6, <1>7 DEF W, S

-----------------------------------------------------------------------------
(* A push takes its view, selects, reads a chunk or ends its retries: it     *)
(* claims nothing new.                                                       *)
LEMMA Reading ==
  ASSUME NEW c, NEW d, NEW W, NEW S, PushInv(c, W, S), Fields(d, PushFields),
         d.pc # "send", d.updates = c.updates, d.spec = c.spec, c.pc # "idle"
  PROVE  PushInv(d, W, S)
  BY Zenon DEF PushInv

(* A push starts with nothing sent and nothing to write.                     *)
LEMMA PushViewStep ==
  ASSUME Counting, IInv, NEW q \in Pusher, NEW s \in Specs, NEW E, PushView(q, s, E)
  PROVE  IInv'
<1> DEFINE d == [NoPush EXCEPT !.pc = "packs", !.spec = s, !.view = eligible, !.scope = E]
<1>1. push' = [push EXCEPT ![q] = d] /\ UNCHANGED <<row, held, lost, verify, crossed>>
  BY Zenon DEF PushView, history
<1>2. /\ Fields(d, PushFields) /\ d.pc = "packs" /\ d.spec = s /\ d.updates = <<>>
  BY Zenon DEF NoPush, Fields, PushFields
<1>3. DOMAIN (<<>>) = {}
  OBVIOUS
<1> HIDE DEF d
<1>4. PushInv(d, row, held \cup lost)
  BY Zenon, <1>2, <1>3 DEF PushInv
<1> QED BY Zenon, <1>1, <1>4, PushMoves

(* Steps of a push that read packs or gather chunks send and write nothing.  *)
LEMMA ReadingStep ==
  ASSUME Counting, IInv, NEW q \in Pusher, SelectPacks(q) \/ EndRetries(q) \/ AddChunk(q)
  PROVE  IInv'
<1> DEFINE c == push[q]
<1>0. PushInv(c, row, held \cup lost)
  BY Zenon DEF IInv
<1>1. PICK d : /\ push' = [push EXCEPT ![q] = d] /\ UNCHANGED <<row, held, lost, verify, crossed>>
               /\ Fields(d, PushFields) /\ d.pc # "send" /\ d.updates = c.updates /\ d.spec = c.spec /\ c.pc # "idle"
  <2>0. Fields(c, PushFields)
    BY Zenon, <1>0 DEF PushInv
  <2>1. CASE SelectPacks(q)
    <3> DEFINE R == {p \in DOMAIN row : Range(p) \cap c.scope # {} /\ PackPending(p, c.view)}
               d == [c EXCEPT !.pc = "chunks", !.retry = R]
    <3>1. push' = [push EXCEPT ![q] = d] /\ UNCHANGED <<row, held, lost, verify, crossed>> /\ c.pc = "packs"
      BY Zenon, <2>1 DEF SelectPacks, At, history
    <3> HIDE DEF R, c
    <3>2. Fields(d, PushFields) /\ d.pc = "chunks" /\ d.updates = c.updates /\ d.spec = c.spec
      BY Zenon, <2>0 DEF Fields, PushFields
    <3> HIDE DEF d
    <3> QED BY Zenon, <3>1, <3>2
  <2>2. CASE EndRetries(q)
    <3> DEFINE d == [c EXCEPT !.loop = "new"]
    <3>1. push' = [push EXCEPT ![q] = d] /\ UNCHANGED <<row, held, lost, verify, crossed>> /\ c.pc = "next"
      BY Zenon, <2>2 DEF EndRetries, In, At, history
    <3> HIDE DEF c
    <3>2. Fields(d, PushFields) /\ d.pc = c.pc /\ d.updates = c.updates /\ d.spec = c.spec
      BY Zenon, <2>0 DEF Fields, PushFields
    <3> HIDE DEF d
    <3> QED BY Zenon, <3>1, <3>2
  <2>3. CASE AddChunk(q)
    <3> DEFINE h == Head(c.chunks)
               o == IF h \in local THEN Append(c.open, h) ELSE c.open
               r == Tail(c.chunks)
               d == [c EXCEPT !.chunks = r, !.open = o]
    <3>0. push' = [push EXCEPT ![q] = d]
      BY Zenon, <2>3 DEF AddChunk
    <3>1. push' = [push EXCEPT ![q] = d] /\ UNCHANGED <<row, held, lost, verify, crossed>> /\ c.pc = "next"
      BY Zenon, <2>3, <3>0 DEF AddChunk, In, At, history
    <3> HIDE DEF c, h, o, r
    <3>2. Fields(d, PushFields) /\ d.pc = c.pc /\ d.updates = c.updates /\ d.spec = c.spec
      BY Zenon, <2>0 DEF Fields, PushFields
    <3> HIDE DEF d
    <3> QED BY Zenon, <3>1, <3>2
  <2> QED BY Zenon, <2>1, <2>2, <2>3
<1>2. PushInv(d, row, held \cup lost)
  BY Zenon, <1>0, <1>1, Reading
<1> QED BY Zenon, <1>1, <1>2, PushMoves

(* The choice of the chunks to pack sends and writes nothing either.         *)
LEMMA SelectChunksStep ==
  ASSUME Counting, IInv, NEW q \in Pusher, SelectChunks(q)
  PROVE  IInv'
<1> DEFINE c == push[q]
           new == SelectSeq(ChunkOrder, LAMBDA x : x \in (c.scope \cap known) \ Packed)
           d == [c EXCEPT !.pc = "next", !.chunks = new]
<1>0. PushInv(c, row, held \cup lost)
  BY Zenon DEF IInv
<1>1. /\ push' = [push EXCEPT ![q] = d] \/ push' = [push EXCEPT ![q] = NoPush]
      /\ UNCHANGED <<row, held, lost, verify, crossed>> /\ c.pc = "chunks"
  BY Zenon DEF SelectChunks, At, history
<1> HIDE DEF c, new
<1>2. Fields(d, PushFields) /\ d.pc = "next" /\ d.updates = c.updates /\ d.spec = c.spec
  BY Zenon, <1>0 DEF Fields, PushFields, PushInv
<1> HIDE DEF d
<1>3. PushInv(d, row, held \cup lost)
  BY Zenon, <1>0, <1>1, <1>2, Reading
<1>4. PushInv(NoPush, row, held \cup lost)
  BY Zenon, Idles
<1> QED BY Zenon, <1>1, <1>3, <1>4, PushMoves

-----------------------------------------------------------------------------
(* A pack is about to be sent: nothing is claimed yet.                       *)
LEMMA SendingClaims ==
  ASSUME NEW c, NEW W, NEW S, PushInv(c, W, S), NEW p, NEW s \in Specs
  PROVE  LET d == Sending(c, p, s) IN
         /\ Fields(d, PushFields) /\ d.pc = "send" /\ d.spec = c.spec /\ d.updates = c.updates /\ d.pack = p
         /\ IsRow(d.out) /\ d.out.spec = s /\ d.out.state = "PENDING" /\ d.left = DOMAIN d.out.at /\ d.acks = {}
<1> DEFINE at == Placement(p, s, c.view)
           out == [spec |-> s, state |-> "PENDING", epoch |-> Epoch(s, c.view), at |-> at]
           d == [c EXCEPT !.pc = "send", !.pack = p, !.left = 1..Total(s), !.acks = {}, !.out = out]
<1>1. DOMAIN at = 1..Total(s)
  BY Zenon DEF Placement
<1>2. Sending(c, p, s) = d
  BY Zenon DEF Sending
<1> HIDE DEF at
<1>3. IsRow(out) /\ out.spec = s /\ out.state = "PENDING" /\ DOMAIN out.at = 1..Total(s)
  BY Zenon, <1>1 DEF IsRow, Fields, RowFields
<1> HIDE DEF out
<1>4. /\ Fields(d, PushFields) /\ d.pc = "send" /\ d.spec = c.spec /\ d.updates = c.updates /\ d.pack = p
      /\ d.out = out /\ d.left = 1..Total(s) /\ d.acks = {}
  BY Zenon DEF PushInv, Fields, PushFields
<1> HIDE DEF d
<1> QED BY Zenon, <1>2, <1>3, <1>4

(* A pack tried again is sent from a copy of its row with new nodes and no   *)
(* acknowledgement: what the old nodes hold does not count.                  *)
LEMMA RetryStep ==
  ASSUME Counting, IInv, NEW q \in Pusher, NEW p \in DOMAIN row, Retry(q, p)
  PROVE  IInv'
<1> DEFINE c == push[q]
           m == [c EXCEPT !.retry = c.retry \ {p}]
           d == Sending(m, p, row[p].spec)
           g == [m EXCEPT !.errors = m.errors \cup {p}]
           S == held \cup lost
<1>0. PushInv(c, row, S) /\ RowsInv(row, S, crossed)
  BY Zenon DEF IInv
<1>1. /\ push' = [push EXCEPT ![q] = d] \/ push' = [push EXCEPT ![q] = g]
      /\ UNCHANGED <<row, held, lost, verify, crossed>> /\ c.pc = "next"
  BY Zenon DEF Retry, In, At, history
<1>2. row[p].spec \in Specs
  BY Zenon, <1>0 DEF RowsInv, IsRow
<1> HIDE DEF c, S
<1>3. Fields(m, PushFields) /\ m.pc = c.pc /\ m.updates = c.updates /\ m.spec = c.spec
  BY Zenon, <1>0 DEF PushInv, Fields, PushFields
<1> HIDE DEF m
<1>4. PushInv(m, row, S)
  BY Zenon, <1>0, <1>1, <1>3, Reading
<1>5. Fields(g, PushFields) /\ g.pc = m.pc /\ g.updates = m.updates /\ g.spec = m.spec
  BY Zenon, <1>3 DEF Fields, PushFields
<1> HIDE DEF g
<1>6. PushInv(g, row, S)
  BY Zenon, <1>1, <1>3, <1>4, <1>5, Reading
<1>7. /\ Fields(d, PushFields) /\ d.pc = "send" /\ d.spec = m.spec /\ d.updates = m.updates /\ d.pack = p
      /\ IsRow(d.out) /\ d.out.spec = row[p].spec /\ d.out.state = "PENDING" /\ d.left = DOMAIN d.out.at /\ d.acks = {}
  BY <1>2, <1>4, SendingClaims
<1> HIDE DEF d
<1>8. PushInv(d, row, S)
  <2>1. SpecOf(row, d.pack, d.out)
    BY Zenon, <1>7 DEF SpecOf
  <2>2. d.spec \in Specs /\ \A o \in DOMAIN d.updates : SpecOf(row, o, d.updates[o]) /\ Backed(o, d.updates[o], S)
    BY Zenon, <1>1, <1>3, <1>4, <1>7 DEF PushInv
  <2> QED BY Zenon, <1>7, <2>1, <2>2 DEF PushInv
<1> QED BY Zenon, <1>1, <1>6, <1>8, PushMoves DEF S

(* The push q writes what waits and goes on with d.                          *)
LEMMA PushWrites ==
  ASSUME Counting, IInv, NEW q \in Pusher, NEW d, push' = [push EXCEPT ![q] = d], row' = Flushed(q),
         \A W, S : Keeps(row, W) /\ S = held \cup lost => PushInv(d, W, S),
         UNCHANGED <<held, lost, verify, crossed>>
  PROVE  IInv'
<1>1. RowsInv(row', held \cup lost, crossed) /\ Keeps(row, row')
  BY Zenon, FlushedRows
<1>2. PushInv(d, row', held \cup lost)
  BY Zenon, <1>1
<1>3. push' = [r \in Pusher |-> push'[r]] /\ push'[q] = d /\ \A r \in Pusher \ {q} : push'[r] = push[r]
  BY Zenon DEF IInv
<1>4. \A r \in Pusher : push'[r] = push[r] \/ PushInv(push'[r], row', held' \cup lost')
  BY Zenon, <1>2, <1>3
<1>5. /\ verify' = verify /\ held \cup lost \subseteq held' \cup lost'
      /\ RowsInv(row', held' \cup lost', crossed')
  BY Zenon, <1>1
<1> QED BY Zenon, <1>1, <1>3, <1>4, <1>5, StepKeeps

(* A batch of updates is written: each was backed by acknowledgements of the *)
(* nodes it names.                                                           *)
LEMMA FlushBatchStep ==
  ASSUME Counting, IInv, NEW q \in Pusher, FlushBatch(q)
  PROVE  IInv'
<1> DEFINE c == push[q]
           d == [c EXCEPT !.updates = <<>>, !.errors = {}]
<1>0. PushInv(c, row, held \cup lost)
  BY Zenon DEF IInv
<1>1. /\ push' = [push EXCEPT ![q] = d] /\ row' = Flushed(q)
      /\ UNCHANGED <<held, lost, verify, crossed>> /\ c.pc = "next"
  BY Zenon DEF FlushBatch, At, history
<1> HIDE DEF c
<1>2. Fields(d, PushFields) /\ d.pc = c.pc /\ d.updates = <<>> /\ d.spec = c.spec
  BY Zenon, <1>0 DEF PushInv, Fields, PushFields
<1>3. DOMAIN (<<>>) = {}
  OBVIOUS
<1> HIDE DEF d
<1>4. \A W, S : PushInv(d, W, S)
  BY Zenon, <1>0, <1>1, <1>2, <1>3 DEF PushInv
<1> QED BY Zenon, <1>1, <1>4, PushWrites

(* A push ends, with its last updates written, or is interrupted, with the   *)
(* updates written or lost.                                                  *)
LEMMA EndPushStep ==
  ASSUME Counting, IInv, NEW q \in Pusher, EndPush(q) \/ Interrupt(q)
  PROVE  IInv'
<1>1. /\ push' = [push EXCEPT ![q] = NoPush] /\ row' \in {row, Flushed(q)}
      /\ UNCHANGED <<held, lost, verify, crossed>>
  BY Zenon DEF EndPush, Interrupt, history
<1>2. \A W, S : PushInv(NoPush, W, S)
  BY Zenon, Idles
<1>3. CASE row' = Flushed(q)
  BY Zenon, <1>1, <1>2, <1>3, PushWrites
<1>4. CASE row' = row
  <2>1. UNCHANGED <<row, held, lost, verify, crossed>>
    BY Zenon, <1>1, <1>4
  <2> QED BY Zenon, <1>1, <1>2, <2>1, PushMoves
<1> QED BY Zenon, <1>1, <1>3, <1>4

(* A pack is registered: the row is added, and its chunks are in no other.   *)
LEMMA RegisterStep ==
  ASSUME Counting, IInv, NEW q \in Pusher, Register(q)
  PROVE  IInv'
<1> DEFINE c == push[q]
           p == c.open
           m == Sending(c, p, c.spec)
           d == [m EXCEPT !.open = <<>>]
           S == held \cup lost
<1>0. PushInv(c, row, S) /\ RowsInv(row, S, crossed)
  BY Zenon DEF IInv
<1>1. c.pc = "next" /\ UNCHANGED <<held, lost, verify, crossed>>
  BY Zenon DEF Register, In, At, history
<1>2. c.spec \in Specs
  BY Zenon, <1>0, <1>1 DEF PushInv
<1>3. /\ Fields(m, PushFields) /\ m.pc = "send" /\ m.spec = c.spec /\ m.updates = c.updates /\ m.pack = p
      /\ IsRow(m.out) /\ m.out.spec = c.spec /\ m.out.state = "PENDING" /\ m.left = DOMAIN m.out.at /\ m.acks = {}
  BY Zenon, <1>0, <1>2, SendingClaims
<1>4. \/ /\ ~Clashes(m.pack, m.out) /\ push' = [push EXCEPT ![q] = d]
         /\ row' = IF m.pack \in DOMAIN row THEN row ELSE With(row, m.pack, m.out)
      \/ row' = Flushed(q) /\ push' = [push EXCEPT ![q] = NoPush]
  BY Zenon DEF Register
<1>5. CASE row' = Flushed(q) /\ push' = [push EXCEPT ![q] = NoPush]
  <2>1. \A W, T : PushInv(NoPush, W, T)
    BY Zenon, Idles
  <2> QED BY Zenon, <1>1, <1>5, <2>1, PushWrites
<1>6. CASE /\ ~Clashes(m.pack, m.out) /\ push' = [push EXCEPT ![q] = d]
           /\ row' = IF m.pack \in DOMAIN row THEN row ELSE With(row, m.pack, m.out)
  <2> HIDE DEF c, m, S, p
  <2>1. /\ Fields(d, PushFields) /\ d.pc = "send" /\ d.spec = c.spec /\ d.updates = c.updates /\ d.pack = p
        /\ d.out = m.out /\ d.left = DOMAIN m.out.at /\ d.acks = {}
    BY Zenon, <1>3 DEF Fields, PushFields
  <2> HIDE DEF d
  <2>2. /\ p \in DOMAIN row => row[p].spec = m.out.spec
        /\ \A o \in DOMAIN row \ {p} : Range(o) \cap Range(p) = {}
    BY Zenon, <1>3, <1>6 DEF Clashes
  <2>3. ~Protected(m.out) /\ m.out.state # "DEGRADED"
    BY Zenon, <1>3 DEF Protected
  <2>4. Backed(p, m.out, S)
    BY Zenon, <2>3 DEF Backed
  <2>5. /\ DOMAIN row' = DOMAIN row \cup {p} /\ row' = [o \in DOMAIN row' |-> row'[o]]
        /\ \A o \in DOMAIN row : row'[o] = row[o]
        /\ p \notin DOMAIN row => row'[p] = m.out
    <3>1. row = [o \in DOMAIN row |-> row[o]]
      BY Zenon, <1>0 DEF RowsInv
    <3>2. CASE p \in DOMAIN row
      <4>1. row' = row
        BY Zenon, <1>3, <1>6, <3>2
      <4> QED BY Zenon, <3>1, <3>2, <4>1
    <3>3. CASE p \notin DOMAIN row
      <4>1. row' = [o \in DOMAIN row \cup {p} |-> IF o = p THEN m.out ELSE row[o]]
        BY Zenon, <1>3, <1>6, <3>3 DEF With
      <4> QED BY Zenon, <3>3, <4>1
    <3> QED BY Zenon, <3>2, <3>3
  <2>6. Keeps(row, row')
    BY Zenon, <2>5 DEF Keeps
  <2>7. p \in DOMAIN row' /\ row'[p].spec = m.out.spec
    BY Zenon, <2>2, <2>5
  <2>8. \A o \in DOMAIN row' : IsRow(row'[o]) /\ (o \notin crossed => Backed(o, row'[o], S))
    BY Zenon, <1>0, <1>3, <2>4, <2>5 DEF RowsInv
  <2>9. \A o, r \in DOMAIN row' : o # r => Range(o) \cap Range(r) = {}
    <3> SUFFICES ASSUME NEW o \in DOMAIN row', NEW r \in DOMAIN row', o # r PROVE Range(o) \cap Range(r) = {}
      BY Zenon
    <3>1. \A a \in DOMAIN row, b \in DOMAIN row : a # b => Range(a) \cap Range(b) = {}
      BY Zenon, <1>0 DEF RowsInv
    <3>2. CASE o = p
      <4>1. r \in DOMAIN row \ {p}
        BY Zenon, <2>5, <3>2
      <4> QED BY Zenon, <2>2, <3>2, <4>1
    <3>3. CASE r = p
      <4>1. o \in DOMAIN row \ {p}
        BY Zenon, <2>5, <3>3
      <4> QED BY Zenon, <2>2, <3>3, <4>1
    <3>4. CASE o # p /\ r # p
      BY Zenon, <2>5, <3>1, <3>4
    <3> QED BY Zenon, <3>2, <3>3, <3>4
  <2>10. RowsInv(row', S, crossed)
    BY Zenon, <2>5, <2>8, <2>9 DEF RowsInv
  <2>11. PushInv(d, row', S)
    <3>1. SpecOf(row', d.pack, d.out)
      BY Zenon, <1>3, <2>1, <2>7 DEF SpecOf
    <3>2. PushInv(c, row', S)
      BY Zenon, <1>0, <2>6, PushKeeps
    <3> QED BY Zenon, <1>2, <1>3, <2>1, <3>1, <3>2 DEF PushInv
  <2>12. push' = [r \in Pusher |-> push'[r]] /\ push'[q] = d /\ \A r \in Pusher \ {q} : push'[r] = push[r]
    BY Zenon, <1>6 DEF IInv
  <2>13. held' \cup lost' = S /\ verify' = verify /\ crossed' = crossed /\ held \cup lost = S
    BY Zenon, <1>1 DEF S
  <2>14. \A r \in Pusher : push'[r] = push[r] \/ PushInv(push'[r], row', held' \cup lost')
    BY Zenon, <2>11, <2>12, <2>13
  <2>15. RowsInv(row', held' \cup lost', crossed') /\ held \cup lost \subseteq held' \cup lost'
    BY Zenon, <2>10, <2>13
  <2> QED BY Zenon, <2>6, <2>12, <2>13, <2>14, <2>15, StepKeeps
<1> QED BY Zenon, <1>4, <1>5, <1>6

(* A node is asked for its shard and sent it: an acknowledgement is about a  *)
(* shard it has.                                                             *)
LEMMA SendShardStep ==
  ASSUME Counting, IInv, NEW q \in Pusher, NEW i, SendShard(q, i)
  PROVE  IInv'
<1> DEFINE c == push[q]
           t == <<c.out.at[i], c.pack, i>>
           S == held \cup lost
           T == held' \cup lost'
<1>0. PushInv(c, row, S) /\ RowsInv(row, S, crossed)
  BY Zenon DEF IInv
<1>1. PICK kept \in BOOLEAN, acked \in BOOLEAN :
        /\ c.pc = "send" /\ i \in c.left
        /\ acked => kept \/ t \in held
        /\ held' = IF kept THEN held \cup {t} ELSE held
        /\ lost' = IF kept THEN lost \ {t} ELSE lost
        /\ push' = [push EXCEPT ![q] = [c EXCEPT !.left = c.left \ {i},
                                                 !.acks = IF acked THEN c.acks \cup {i} ELSE c.acks]]
        /\ UNCHANGED <<row, verify, crossed>>
  BY Zenon DEF SendShard, At
<1> DEFINE A == IF acked THEN c.acks \cup {i} ELSE c.acks
           L == c.left \ {i}
           d == [c EXCEPT !.left = L, !.acks = A]
<1>2. S \subseteq T /\ (acked => t \in T)
  BY Zenon, <1>1
<1>3. i \in DOMAIN c.out.at
  BY Zenon, <1>0, <1>1 DEF PushInv
<1>4. PushInv(c, row, T) /\ RowsInv(row, T, crossed) /\ Keeps(row, row)
  BY ZenonT(30), <1>0, <1>2, PushKeeps, RowsKeep
<1>5. A \subseteq There(c.pack, c.out, T)
  BY Zenon, <1>1, <1>2, <1>3, <1>4 DEF PushInv, There
<1>6. push' = [push EXCEPT ![q] = d]
  BY Zenon, <1>1
<1> HIDE DEF c, A, S, T, L
<1>7. /\ Fields(d, PushFields) /\ d.pc = c.pc /\ d.spec = c.spec /\ d.updates = c.updates /\ d.pack = c.pack
      /\ d.out = c.out /\ d.left = L /\ d.acks = A
  BY Zenon, <1>0 DEF PushInv, Fields, PushFields
<1>8. L \subseteq DOMAIN c.out.at
  BY Zenon, <1>0, <1>1 DEF PushInv, L
<1> HIDE DEF d
<1>9. PushInv(d, row, T)
  BY Zenon, <1>4, <1>5, <1>7, <1>8 DEF PushInv
<1>12. push' = [r \in Pusher |-> push'[r]] /\ push'[q] = d /\ \A r \in Pusher \ {q} : push'[r] = push[r]
  BY Zenon, <1>6 DEF IInv
<1>13. row' = row /\ verify' = verify /\ crossed' = crossed
  BY Zenon, <1>1
<1>14. \A r \in Pusher : push'[r] = push[r] \/ PushInv(push'[r], row', held' \cup lost')
  BY Zenon, <1>9, <1>12, <1>13 DEF T
<1>15. RowsInv(row', held' \cup lost', crossed') /\ held \cup lost \subseteq held' \cup lost' /\ Keeps(row, row')
  BY Zenon, <1>2, <1>4, <1>13 DEF S, T
<1> QED BY Zenon, <1>12, <1>13, <1>14, <1>15, StepKeeps

(* The outcome of a pack waits to be written: its state counts the nodes     *)
(* that have acknowledged their shards.                                      *)
LEMMA EndPackStep ==
  ASSUME Counting, IInv, NEW q \in Pusher, EndPack(q)
  PROVE  IInv'
<1> DEFINE c == push[q]
           S == held \cup lost
           x == DataPackState(Cardinality(c.acks), c.out.spec)
           r == [c.out EXCEPT !.state = x]
           u == With(c.updates, c.pack, r)
           d == [c EXCEPT !.pc = "next", !.pack = <<>>, !.out = NoRow, !.acks = {}, !.updates = u]
<1>0. PushInv(c, row, S)
  BY Zenon DEF IInv
<1>1. push' = [push EXCEPT ![q] = d] /\ c.pc = "send" /\ UNCHANGED <<row, held, lost, verify, crossed>>
  BY Zenon DEF EndPack, At, history
<1> HIDE DEF c, S
<1>2. IsRow(c.out) /\ c.acks \subseteq There(c.pack, c.out, S) /\ SpecOf(row, c.pack, c.out) /\ c.spec \in Specs
  BY Zenon, <1>0, <1>1 DEF PushInv, SpecOf
<1>3. IsRow(r) /\ r.spec = c.out.spec /\ Backed(c.pack, r, S)
  BY Zenon, <1>2, StateFromEvidence
<1> HIDE DEF r, x
<1>4. SpecOf(row, c.pack, r)
  BY Zenon, <1>2, <1>3 DEF SpecOf
<1>5. /\ DOMAIN u = DOMAIN c.updates \cup {c.pack} /\ u[c.pack] = r
      /\ \A o \in DOMAIN c.updates \ {c.pack} : u[o] = c.updates[o]
  BY Zenon DEF With
<1> HIDE DEF u
<1>6. Fields(d, PushFields) /\ d.pc = "next" /\ d.spec = c.spec /\ d.updates = u
  BY Zenon, <1>0 DEF PushInv, Fields, PushFields
<1> HIDE DEF d
<1>7. ASSUME NEW o \in DOMAIN u PROVE SpecOf(row, o, u[o]) /\ Backed(o, u[o], S)
  <2>1. CASE o = c.pack
    BY Zenon, <1>3, <1>4, <1>5, <2>1
  <2>2. CASE o # c.pack
    <3>1. o \in DOMAIN c.updates /\ u[o] = c.updates[o]
      BY Zenon, <1>5, <2>2
    <3> QED BY Zenon, <1>0, <3>1 DEF PushInv
  <2> QED BY Zenon, <2>1, <2>2
<1>8. PushInv(d, row, S)
  BY Zenon, <1>2, <1>6, <1>7 DEF PushInv
<1> QED BY Zenon, <1>1, <1>8, PushMoves DEF S

-----------------------------------------------------------------------------
(* A step of the verification that writes nothing.                           *)
LEMMA VerifyMoves ==
  ASSUME Counting, IInv, VerifyInv(verify', row, held \cup lost), UNCHANGED <<row, held, lost, push, crossed>>
  PROVE  IInv'
<1>1. RowsInv(row', held' \cup lost', crossed') /\ Keeps(row, row')
  BY Zenon, RowsKeep DEF IInv
<1>2. push' = [r \in Pusher |-> push'[r]] /\ \A r \in Pusher : push'[r] = push[r]
  BY Zenon DEF IInv
<1>3. VerifyInv(verify', row', held' \cup lost') /\ held \cup lost \subseteq held' \cup lost'
  BY Zenon
<1> QED BY Zenon, <1>1, <1>2, <1>3, StepKeeps

(* A verification starts, reads its rows or crashes: it has seen no shard    *)
(* yet.                                                                      *)
LEMMA VerifyBegins ==
  ASSUME Counting, IInv, VerifyView \/ VerifyCrash \/ \E V \in SUBSET DOMAIN row : VerifySelect(V)
  PROVE  IInv'
<1> DEFINE S == held \cup lost
<1>0. VerifyInv(verify, row, S) /\ RowsInv(row, S, crossed) /\ VerifyInv(NoVerify, row, S)
  BY Zenon, Idles DEF IInv
<1>1. CASE VerifyView
  <2> DEFINE v == [NoVerify EXCEPT !.pc = "select", !.view = eligible]
  <2>1. verify' = v /\ UNCHANGED <<row, held, lost, push, crossed>>
    BY Zenon, <1>1 DEF VerifyView, history
  <2>2. Fields(v, VerifyFields) /\ v.seen = {} /\ v.rows = NoVerify.rows /\ v.left = NoVerify.left /\ v.seen = NoVerify.seen
    BY Zenon DEF NoVerify, Fields, VerifyFields
  <2> HIDE DEF v
  <2>3. VerifyInv(v, row, S)
    BY Zenon, <1>0, <2>2 DEF VerifyInv
  <2> QED BY Zenon, <2>1, <2>3, VerifyMoves
<1>2. CASE VerifyCrash
  <2>1. verify' = NoVerify /\ UNCHANGED <<row, held, lost, push, crossed>>
    BY Zenon, <1>2 DEF VerifyCrash, history
  <2> QED BY Zenon, <1>0, <2>1, VerifyMoves
<1>3. ASSUME NEW V \in SUBSET DOMAIN row, VerifySelect(V) PROVE IInv'
  <2> DEFINE W == Restrict(row, V)
             a == Asked(V)
             v == [verify EXCEPT !.pc = "probe", !.rows = W, !.left = a]
  <2>1. (verify' = NoVerify \/ verify' = v) /\ UNCHANGED <<row, held, lost, push, crossed>>
    BY Zenon, <1>3 DEF VerifySelect, history
  <2>2. DOMAIN W = V /\ \A p \in V : W[p] = row[p]
    BY Zenon DEF Restrict
  <2>3. \A t \in a : t[1] \in V /\ t[2] \in DOMAIN row[t[1]].at
    BY DEF Asked
  <2>4. verify.seen = {} /\ Fields(verify, VerifyFields)
    BY Zenon, <1>0, <1>3 DEF VerifyInv, VerifySelect
  <2> HIDE DEF W, a, S
  <2>5. Fields(v, VerifyFields) /\ v.pc = "probe" /\ v.rows = W /\ v.left = a /\ v.seen = {}
    BY Zenon, <2>4 DEF Fields, VerifyFields
  <2> HIDE DEF v
  <2>6. \A p \in V : SpecOf(row, p, W[p])
    BY Zenon, <1>0, <2>2 DEF SpecOf, RowsInv
  <2>7. VerifyInv(v, row, S)
    BY Zenon, <2>2, <2>3, <2>5, <2>6 DEF VerifyInv
  <2> QED BY Zenon, <1>0, <2>1, <2>7, VerifyMoves DEF S
<1> QED BY Zenon, <1>1, <1>2, <1>3

(* An answered probe shows a shard that is there.                            *)
LEMMA ProbeStep ==
  ASSUME Counting, IInv, NEW t \in verify.left, Probe(t)
  PROVE  IInv'
<1> DEFINE S == held \cup lost
           there == <<verify.rows[t[1]].at[t[2]], t[1], t[2]>> \in held
<1>0. VerifyInv(verify, row, S)
  BY Zenon DEF IInv
<1>1. PICK replied \in BOOLEAN :
        /\ verify.pc = "probe"
        /\ verify' = [verify EXCEPT !.left = @ \ {t}, !.seen = IF there /\ replied THEN @ \cup {t} ELSE @]
        /\ UNCHANGED <<row, held, lost, push, crossed>>
  BY Zenon DEF Probe, history
<1> DEFINE L == verify.left \ {t}
           A == IF there /\ replied THEN verify.seen \cup {t} ELSE verify.seen
           v == [verify EXCEPT !.left = L, !.seen = A]
<1>2. verify' = v
  BY Zenon, <1>1
<1>3. t[1] \in DOMAIN verify.rows /\ t[2] \in DOMAIN verify.rows[t[1]].at
  BY Zenon, <1>0 DEF VerifyInv
<1>4. L \subseteq verify.left /\ \A y \in A : y \in verify.seen \/ (y = t /\ there)
  BY Zenon
<1>5. there => t[2] \in There(t[1], verify.rows[t[1]], S)
  BY Zenon, <1>3 DEF There
<1> HIDE DEF L, A, S, there
<1>6. Fields(v, VerifyFields) /\ v.pc = verify.pc /\ v.rows = verify.rows /\ v.left = L /\ v.seen = A
  BY Zenon, <1>0 DEF VerifyInv, Fields, VerifyFields
<1> HIDE DEF v
<1>7. \A y \in A : y[1] \in DOMAIN verify.rows /\ y[2] \in There(y[1], verify.rows[y[1]], S)
  BY Zenon, <1>0, <1>3, <1>4, <1>5 DEF VerifyInv
<1>8. VerifyInv(v, row, S)
  BY Zenon, <1>0, <1>1, <1>4, <1>6, <1>7 DEF VerifyInv
<1> QED BY Zenon, <1>1, <1>2, <1>8, VerifyMoves DEF S

(* The verdict is about the shards seen at the nodes that were read; where   *)
(* the row names others by now, the pack has crossed.                        *)
LEMMA VerifyRecordStep ==
  ASSUME Counting, IInv, VerifyRecord
  PROVE  IInv'
<1> DEFINE S == held \cup lost
           V == verify.rows
<1>0. VerifyInv(verify, row, S) /\ RowsInv(row, S, crossed) /\ \A W, T : VerifyInv(NoVerify, W, T)
  BY Zenon, Idles DEF IInv
<1>1. /\ row' = [p \in DOMAIN row |-> IF p \in DOMAIN V THEN [row[p] EXCEPT !.state = Verdict(p)] ELSE row[p]]
      /\ crossed' = crossed \cup {p \in DOMAIN V : V[p].at # row[p].at}
      /\ verify' = NoVerify /\ UNCHANGED <<held, lost, push>>
  BY Zenon DEF VerifyRecord
<1>2. /\ DOMAIN row' = DOMAIN row /\ row' = [p \in DOMAIN row' |-> row'[p]]
      /\ \A p \in DOMAIN row : row'[p] = IF p \in DOMAIN V THEN [row[p] EXCEPT !.state = Verdict(p)] ELSE row[p]
  BY Zenon, <1>1
<1>3. ASSUME NEW p \in DOMAIN row
      PROVE  /\ IsRow(row'[p]) /\ row'[p].spec = row[p].spec
             /\ p \notin crossed' => Backed(p, row'[p], S)
  <2>0. IsRow(row[p]) /\ (p \notin crossed => Backed(p, row[p], S))
    BY Zenon, <1>0 DEF RowsInv
  <2>1. CASE p \notin DOMAIN V
    <3>1. row'[p] = row[p] /\ (p \notin crossed' => p \notin crossed)
      BY Zenon, <1>1, <1>2, <2>1
    <3> QED BY Zenon, <2>0, <3>1
  <2>2. CASE p \in DOMAIN V
    <3> DEFINE x == Verdict(p)
               d == [row[p] EXCEPT !.state = x]
               A == {i \in Shard : <<p, i>> \in verify.seen}
    <3>1. row'[p] = d
      BY Zenon, <1>2, <2>2
    <3>2. SpecOf(row, p, V[p])
      BY Zenon, <1>0, <2>2 DEF VerifyInv
    <3>3. A \subseteq There(p, V[p], S)
      <4> SUFFICES ASSUME NEW i \in A PROVE i \in There(p, V[p], S)
        BY Zenon
      <4>1. <<p, i>> \in verify.seen /\ (<<p, i>>)[1] = p /\ (<<p, i>>)[2] = i
        BY Zenon
      <4>2. \A y \in verify.seen : y[2] \in There(y[1], V[y[1]], S)
        BY Zenon, <1>0 DEF VerifyInv
      <4> HIDE DEF A, S, V
      <4> QED BY Zenon, <4>1, <4>2
    <3>4. \/ x = DataPackState(Cardinality(A), V[p].spec)
          \/ Cardinality(A) = Total(V[p].spec)
      BY Zenon DEF Verdict
    <3>5. V[p].spec = row[p].spec
      BY Zenon, <3>2 DEF SpecOf
    <3> HIDE DEF x, A, S, V
    <3>6. IsRow(d) /\ d.spec = row[p].spec
      <4>1. d.spec = row[p].spec /\ d.at = row[p].at /\ Fields(d, RowFields)
        BY Zenon, <2>0 DEF IsRow, Fields, RowFields
      <4> HIDE DEF d
      <4> QED BY Zenon, <2>0, <4>1 DEF IsRow
    <3>7. ASSUME p \notin crossed' PROVE Backed(p, d, S)
      <4>1. V[p].at = row[p].at
        BY Zenon, <1>1, <2>2, <3>7
      <4>2. There(p, V[p], S) = There(p, row[p], S)
        BY Zenon, <4>1 DEF There
      <4>3. A \subseteq There(p, row[p], S)
        BY Zenon, <3>3, <4>2
      <4>4. \/ x = DataPackState(Cardinality(A), row[p].spec)
            \/ Cardinality(A) = Total(row[p].spec)
        BY Zenon, <3>4, <3>5
      <4> QED BY Zenon, <2>0, <4>3, <4>4, StateFromEvidence
    <3> QED BY Zenon, <3>1, <3>6, <3>7
  <2> QED BY Zenon, <2>1, <2>2
<1>4. Keeps(row, row')
  BY Zenon, <1>2, <1>3 DEF Keeps
<1>5. RowsInv(row', S, crossed')
  <2>1. \A o, p \in DOMAIN row' : o # p => Range(o) \cap Range(p) = {}
    BY Zenon, <1>0, <1>2 DEF RowsInv
  <2> QED BY Zenon, <1>2, <1>3, <2>1 DEF RowsInv
<1>6. push' = [r \in Pusher |-> push'[r]] /\ \A r \in Pusher : push'[r] = push[r]
  BY Zenon, <1>1 DEF IInv
<1>7. /\ VerifyInv(verify', row', held' \cup lost') /\ held \cup lost \subseteq held' \cup lost'
      /\ RowsInv(row', held' \cup lost', crossed')
  BY Zenon, <1>0, <1>1, <1>5
<1> QED BY Zenon, <1>4, <1>6, <1>7, StepKeeps

-----------------------------------------------------------------------------
(* The surroundings and restore: what is lost was held.                      *)
LEMMA OutsideStep ==
  ASSUME Counting, IInv, \/ \E c \in Chunk : Capture(c) \/ LoseLocal(c)
               \/ ViewChange \/ (\E t \in held : Lose(t))
               \/ \E p \in DOMAIN row : Recover(p)
  PROVE  IInv'
<1>1. UNCHANGED <<row, push, verify, crossed>> /\ held \cup lost \subseteq held' \cup lost'
  BY Zenon DEF Capture, LoseLocal, ViewChange, Lose, Recover, history
<1>2. RowsInv(row', held' \cup lost', crossed') /\ Keeps(row, row')
  BY Zenon, <1>1, RowsKeep DEF IInv
<1>3. push' = [r \in Pusher |-> push'[r]] /\ (\A r \in Pusher : push'[r] = push[r]) /\ verify' = verify
  BY Zenon, <1>1 DEF IInv
<1> QED BY Zenon, <1>1, <1>2, <1>3, StepKeeps

(* No pack and no command: the invariant holds at the start.                 *)
LEMMA InitIInv == Init => IInv
<1> SUFFICES ASSUME Init PROVE IInv
  BY Zenon
<1>1. DOMAIN row = {} /\ row = [p \in DOMAIN row |-> row[p]]
  BY DEF Init
<1>2. RowsInv(row, held \cup lost, crossed)
  BY Zenon, <1>1 DEF RowsInv
<1>3. push = [q \in Pusher |-> push[q]] /\ (\A q \in Pusher : push[q] = NoPush) /\ verify = NoVerify
  BY Zenon DEF Init
<1> QED BY Zenon, <1>2, <1>3, Idles DEF IInv

(* Every step, of whichever command or node, keeps the invariant.            *)
LEMMA NextIInv ==
  ASSUME Counting
  PROVE  IInv /\ [Next]_vars => IInv'
<1> SUFFICES ASSUME IInv, [Next]_vars PROVE IInv'
  BY Zenon
<1>1. CASE \/ \E c \in Chunk : Capture(c) \/ LoseLocal(c)
           \/ ViewChange \/ (\E t \in held : Lose(t))
           \/ \E p \in DOMAIN row : Recover(p)
  BY Zenon, <1>1, OutsideStep
<1>2. ASSUME NEW q \in Pusher, PushStep(q) \/ Interrupt(q) PROVE IInv'
  BY Zenon, <1>2, ReadingStep, SelectChunksStep, FlushBatchStep, RetryStep, RegisterStep, SendShardStep,
     EndPackStep, EndPushStep DEF PushStep
<1>3. CASE ScheduledPush
  <2>1. Scheduler \in Pusher
    BY Zenon, ErasureAssumption
  <2> QED BY Zenon, <1>3, <2>1, PushViewStep DEF ScheduledPush
<1>4. CASE \E q \in Pusher, s \in Specs, S \in Scopes : ManualPush(q, s, S)
  BY Zenon, <1>4, PushViewStep DEF ManualPush
<1>5. CASE VerifyStep
  BY Zenon, <1>5, VerifyBegins, ProbeStep, VerifyRecordStep DEF VerifyStep
<1>6. CASE UNCHANGED vars
  <2>1. UNCHANGED <<row, held, lost, push, verify, crossed>>
    BY Zenon, <1>6 DEF vars
  <2> QED BY Zenon, <2>1 DEF IInv
<1> QED BY Zenon, <1>1, <1>2, <1>3, <1>4, <1>5, <1>6 DEF Next

-----------------------------------------------------------------------------
(***************************************************************************)
(* ClientStream.  Both properties rest on where a chunk can be.            *)
(* SenderInv: the chunks the sender has passed are split into accepted and *)
(* failed ones.  PathInv: what is queued, being sent or received was       *)
(* accepted, and an ACK that is evidence belongs to a chunk received and   *)
(* stored.  QuietInv: as long as the call lasts nobody has cancelled, so   *)
(* nothing has left the queue but through __next__, and the sentinel is    *)
(* the last item of all.                                                   *)
(***************************************************************************)
AtChunk == {"read", "put", "putting"}
Ended == {"closing", "done"}

(* the chunks the sender is done with *)
Passed == IF sendPc \in AtChunk THEN 1..(sendIdx - 1) ELSE 1..sendIdx

SenderInv ==
    /\ accepted \cap failures = {}
    /\ sendPc \in AtChunk => sendIdx # 0
    /\ sendPc \in AtChunk \cup {"next"} => accepted \cup failures = Passed
    /\ sendPc \notin AtChunk => accepted \cup failures \subseteq Passed

PathInv ==
    /\ \A i \in DOMAIN queue : queue[i] # Sentinel => queue[i] \in accepted
    /\ nextPc = "sending" => sending \in accepted
    /\ received \subseteq accepted
    /\ \A c \in Missing : acks[c] \in {"stored", "present"} => c \in stored /\ c \in received

(* how far the two closers have come *)
CloseInv ==
    /\ sendPc \in Ended <=> closePc["sender"] # "idle"
    /\ isFinished => sendPc \in Ended
    /\ \A w \in Thread : closePc[w] \in {"cancel", "force", "forcePut"} => cancelled
    /\ closePc["main"] # "finish"
    /\ mainPc = "responses" =>
          /\ ~stop /\ ~cancelled /\ closePc["main"] = "idle"
          /\ closePc["sender"] \in {"idle", "finish", "finishPut", "done"}
          /\ sendPc \in {"close"} \cup Ended => sendError \/ accepted \cup failures = Missing
          /\ enqueued <=> closePc["sender"] = "done"

(* while the call lasts: nothing accepted is lost, and the sentinel is the last *)
QuietInv ==
    mainPc = "responses" =>
        /\ \A c \in accepted : \/ c \in received
                               \/ nextPc = "sending" /\ sending = c
                               \/ \E i \in DOMAIN queue : queue[i] = c
        /\ \A i \in DOMAIN queue : queue[i] = Sentinel => i = Len(queue) /\ enqueued
        /\ nextPc = "stopped" => queue = <<>> /\ enqueued

ClientIInv == ClientTypeOK /\ SenderInv /\ PathInv /\ CloseInv /\ QuietInv

-----------------------------------------------------------------------------
(* The sender has passed no chunk, the queue is empty and nobody has closed. *)
LEMMA ClientInitIInv == ClientInit => ClientIInv
<1> SUFFICES ASSUME ClientInit PROVE ClientIInv
  BY Zenon
<1> USE SizeAssumption DEF ClientInit, Missing, Sentinel, Thread
<1>1. ClientTypeOK
  <2>1. queue \in Seq(Missing \cup {Sentinel}) /\ Len(queue) <= MaxSize
    OBVIOUS
  <2>2. closePc \in [Thread -> {"idle", "finish", "cancel", "finishPut", "force", "forcePut", "done"}]
    BY Zenon
  <2>3. isFinished \in BOOLEAN /\ cancelled \in BOOLEAN /\ enqueued \in BOOLEAN /\ sendError \in BOOLEAN
        /\ stop \in BOOLEAN /\ broken \in BOOLEAN
    BY Zenon
  <2> QED BY <2>1, <2>2, <2>3 DEF ClientTypeOK
<1>2. SenderInv
  BY DEF SenderInv, Passed, AtChunk
<1>3. PathInv /\ QuietInv
  BY DEF PathInv, QuietInv
<1>4. CloseInv
  BY Zenon DEF CloseInv, Ended
<1> QED BY Zenon, <1>1, <1>2, <1>3, <1>4 DEF ClientIInv

(* The steps of the sender that leave the queue alone.                       *)
LEMMA SenderPreserves ==
  ASSUME ClientIInv, SendNext \/ ReadLocal \/ PutTest \/ SendClose \/ SendDone
  PROVE  ClientIInv'
<1> USE SizeAssumption DEF ClientIInv, Missing, Sentinel, Thread
<1>1. CASE SendNext
  <2>1. ClientTypeOK' /\ SenderInv'
    BY <1>1 DEF SendNext, ClientTypeOK, SenderInv, Passed, AtChunk, iterVars, grpcVars, targetVars, mainVars
  <2>2. PathInv' /\ QuietInv'
    BY Zenon, <1>1 DEF SendNext, PathInv, QuietInv, iterVars, grpcVars, targetVars, mainVars
  <2>3. CloseInv'
    BY Zenon, <1>1 DEF SendNext, ClientTypeOK, SenderInv, CloseInv, Passed, AtChunk, Ended, iterVars, grpcVars, targetVars, mainVars
  <2> QED BY Zenon, <2>1, <2>2, <2>3
<1>2. CASE ReadLocal
  <2>0. sendIdx \in 1..N
    BY <1>2 DEF ReadLocal, ClientTypeOK, SenderInv, AtChunk
  <2>1. ClientTypeOK'
    <3>1. sendError' \in BOOLEAN
      BY Zenon, <1>2 DEF ReadLocal, ClientTypeOK
    <3>2. failures' \subseteq Missing
      BY Zenon, <1>2, <2>0 DEF ReadLocal, ClientTypeOK
    <3>3. sendPc' \in {"next", "put", "close"}
      BY Zenon, <1>2 DEF ReadLocal
    <3> QED BY <1>2, <3>1, <3>2, <3>3 DEF ReadLocal, ClientTypeOK, iterVars, grpcVars, targetVars, mainVars
  <2>4. SenderInv'
    BY <1>2, <2>0 DEF ReadLocal, SenderInv, Passed, AtChunk
  <2>2. PathInv' /\ QuietInv'
    BY Zenon, <1>2 DEF ReadLocal, PathInv, QuietInv, iterVars, grpcVars, targetVars, mainVars
  <2>3. CloseInv'
    BY Zenon, <1>2 DEF ReadLocal, ClientTypeOK, CloseInv, Ended, iterVars, grpcVars, targetVars, mainVars
  <2> QED BY Zenon, <2>1, <2>2, <2>3, <2>4
<1>3. CASE PutTest
  <2>1. ClientTypeOK' /\ SenderInv'
    BY <1>3 DEF PutTest, ClientTypeOK, SenderInv, Passed, AtChunk, iterVars, grpcVars, targetVars, mainVars
  <2>2. PathInv' /\ QuietInv'
    BY Zenon, <1>3 DEF PutTest, PathInv, QuietInv, iterVars, grpcVars, targetVars, mainVars
  <2>3. CloseInv'
    BY Zenon, <1>3 DEF PutTest, ClientTypeOK, CloseInv, Ended, iterVars, grpcVars, targetVars, mainVars
  <2> QED BY Zenon, <2>1, <2>2, <2>3
<1>4. CASE SendClose
  <2>1. ClientTypeOK' /\ SenderInv'
    BY <1>4 DEF SendClose, ClientTypeOK, SenderInv, Passed, AtChunk, grpcVars, targetVars, mainVars
  <2>2. PathInv' /\ QuietInv'
    BY Zenon, <1>4 DEF SendClose, PathInv, QuietInv, grpcVars, targetVars, mainVars
  <2>3. CloseInv'
    BY Zenon, <1>4 DEF SendClose, ClientTypeOK, CloseInv, Ended, grpcVars, targetVars, mainVars
  <2> QED BY Zenon, <2>1, <2>2, <2>3
<1>5. CASE SendDone
  <2>1. ClientTypeOK' /\ SenderInv'
    BY <1>5 DEF SendDone, ClientTypeOK, SenderInv, Passed, AtChunk, iterVars, grpcVars, targetVars, mainVars
  <2>2. PathInv' /\ QuietInv'
    BY Zenon, <1>5 DEF SendDone, PathInv, QuietInv, iterVars, grpcVars, targetVars, mainVars
  <2>3. CloseInv'
    BY Zenon, <1>5 DEF SendDone, ClientTypeOK, CloseInv, Ended, iterVars, grpcVars, targetVars, mainVars
  <2> QED BY Zenon, <2>1, <2>2, <2>3
<1> QED BY Zenon, <1>1, <1>2, <1>3, <1>4, <1>5

(* What an Append leaves in a sequence.                                      *)
LEMMA AppendFacts ==
  ASSUME NEW S, NEW q \in Seq(S), NEW x \in S
  PROVE  /\ Append(q, x) \in Seq(S) /\ Len(Append(q, x)) = Len(q) + 1
         /\ \A i \in DOMAIN q : i \in DOMAIN Append(q, x) /\ Append(q, x)[i] = q[i]
         /\ Len(q) + 1 \in DOMAIN Append(q, x) /\ Append(q, x)[Len(q) + 1] = x
         /\ \A i \in DOMAIN Append(q, x) : i \in DOMAIN q \/ i = Len(q) + 1
  OBVIOUS

(* What a Tail leaves in a sequence.                                         *)
LEMMA TailFacts ==
  ASSUME NEW S, NEW q \in Seq(S), q # <<>>
  PROVE  /\ Tail(q) \in Seq(S) /\ Len(Tail(q)) = Len(q) - 1 /\ Head(q) = q[1] /\ Head(q) \in S
         /\ 1 \in DOMAIN q
         /\ \A i \in DOMAIN Tail(q) : i + 1 \in DOMAIN q /\ Tail(q)[i] = q[i + 1]
         /\ \A i \in DOMAIN q : i = 1 \/ (i - 1 \in DOMAIN Tail(q) /\ Tail(q)[i - 1] = q[i])
         /\ Len(q) = 1 => Tail(q) = <<>>
  OBVIOUS

(* put(): the sentinel is not in the queue yet when the call lasts.          *)
LEMMA PutItemPreserves ==
  ASSUME ClientIInv, PutItem
  PROVE  ClientIInv'
<1> USE SizeAssumption DEF ClientIInv, Missing, Sentinel, Thread
<1>1. CASE Len(queue) < MaxSize
  <2> DEFINE q == Append(queue, sendIdx)
  <2>1. /\ queue' = q /\ accepted' = accepted \cup {sendIdx} /\ sendPc = "putting" /\ sendPc' = "next"
        /\ UNCHANGED <<isFinished, cancelled, enqueued, lock, closePc, sendIdx, failures, sendError>>
        /\ UNCHANGED <<grpcVars, targetVars, mainVars>>
    BY Zenon, <1>1 DEF PutItem
  <2>2. sendIdx \in 1..N /\ sendIdx # 0 /\ queue \in Seq(Missing \cup {Sentinel})
    BY SMTT(20), <2>1 DEF ClientTypeOK, SenderInv, AtChunk
  <2>3. /\ q \in Seq(Missing \cup {Sentinel}) /\ Len(q) = Len(queue) + 1
        /\ \A i \in DOMAIN queue : i \in DOMAIN q /\ q[i] = queue[i]
        /\ Len(queue) + 1 \in DOMAIN q /\ q[Len(queue) + 1] = sendIdx
        /\ \A i \in DOMAIN q : i \in DOMAIN queue \/ i = Len(queue) + 1
    BY <2>2, AppendFacts
  <2> HIDE DEF q
  <2>4. ClientTypeOK'
    BY SMTT(20), <1>1, <2>1, <2>2, <2>3 DEF ClientTypeOK, grpcVars, targetVars, mainVars
  <2>5. SenderInv'
    BY <2>1, <2>2 DEF ClientTypeOK, SenderInv, Passed, AtChunk
  <2>6. PathInv'
    BY Zenon, <2>1, <2>2, <2>3 DEF PathInv, grpcVars, targetVars, mainVars
  <2>7. CloseInv'
    BY Zenon, <2>1 DEF CloseInv, Ended, grpcVars, targetVars, mainVars
  <2>8. QuietInv'
    <3>1. mainPc = "responses" => ~enqueued
      BY Zenon, <2>1 DEF CloseInv, Ended
    <3> QED BY Zenon, <2>1, <2>2, <2>3, <3>1 DEF QuietInv, grpcVars, targetVars, mainVars
  <2> QED BY Zenon, <2>4, <2>5, <2>6, <2>7, <2>8
<1>2. CASE ~(Len(queue) < MaxSize)
  <2>1. ClientTypeOK' /\ SenderInv'
    BY <1>2 DEF PutItem, ClientTypeOK, SenderInv, Passed, AtChunk, grpcVars, targetVars, mainVars
  <2>2. PathInv' /\ QuietInv'
    BY <1>2 DEF PutItem, PathInv, QuietInv, grpcVars, targetVars, mainVars
  <2>3. CloseInv'
    BY Zenon, <1>2 DEF PutItem, ClientTypeOK, CloseInv, Ended, grpcVars, targetVars, mainVars
  <2> QED BY Zenon, <2>1, <2>2, <2>3
<1> QED BY Zenon, <1>1, <1>2

(* A sentinel behind the queue, or a queue emptied by a cancellation.        *)
LEMMA ClosingPreserves ==
  ASSUME ClientIInv, NEW w \in Thread, Closing(w)
  PROVE  ClientIInv'
<1> USE SizeAssumption DEF ClientIInv, Missing, Sentinel, Thread
<1>1. CASE LockFinalize(w)
  <2>1. ClientTypeOK' /\ SenderInv'
    BY <1>1 DEF LockFinalize, ClientTypeOK, SenderInv, Passed, AtChunk, sendVars, grpcVars, targetVars, mainVars
  <2>2. PathInv' /\ QuietInv'
    BY Zenon, <1>1 DEF LockFinalize, PathInv, QuietInv, sendVars, grpcVars, targetVars, mainVars
  <2>3. CloseInv'
    <3>1. CASE w = "sender"
      BY Zenon, <1>1, <3>1 DEF LockFinalize, ClientTypeOK, CloseInv, Ended, sendVars, mainVars
    <3>2. CASE w = "main"
      <4>1. closePc'["sender"] = closePc["sender"] /\ closePc["main"] \in {"finish", "cancel"}
        BY Zenon, <1>1, <3>2 DEF LockFinalize, ClientTypeOK
      <4>2. mainPc # "responses"
        BY Zenon, <4>1 DEF CloseInv
      <4>3. cancelled' = cancelled /\ sendPc' = sendPc /\ mainPc' = mainPc
        BY Zenon, <1>1 DEF LockFinalize, sendVars, mainVars
      <4>4. ASSUME closePc'["main"] \in {"cancel", "force", "forcePut"} PROVE cancelled
        BY Zenon, <1>1, <3>2, <4>4 DEF LockFinalize, ClientTypeOK, CloseInv
      <4>5. closePc["main"] = "cancel"
        BY Zenon, <4>1 DEF CloseInv
      <4>6. isFinished' = isFinished
        BY Zenon, <1>1, <3>2, <4>5 DEF LockFinalize, ClientTypeOK
      <4>7. closePc'["main"] # "finish"
        BY Zenon, <1>1, <3>2, <4>5 DEF LockFinalize, ClientTypeOK
      <4>8. ASSUME closePc'["sender"] \in {"cancel", "force", "forcePut"} PROVE cancelled
        BY Zenon, <4>1, <4>8 DEF CloseInv
      <4>9. /\ sendPc \in Ended <=> closePc["sender"] # "idle"
            /\ isFinished => sendPc \in Ended
        BY Zenon DEF CloseInv
      <4> QED BY Zenon, <4>1, <4>2, <4>3, <4>4, <4>6, <4>7, <4>8, <4>9 DEF CloseInv
    <3> QED BY Zenon, <3>1, <3>2
  <2> QED BY Zenon, <2>1, <2>2, <2>3
<1>2. ASSUME Len(queue) < MaxSize, queue' = Append(queue, Sentinel), enqueued' = TRUE, lock' = "free",
             closePc' = [closePc EXCEPT ![w] = "done"], closePc[w] \in {"finishPut", "forcePut"},
             UNCHANGED <<isFinished, cancelled, sendVars, grpcVars, targetVars, mainVars>>
      PROVE  ClientIInv'
  <2> DEFINE q == Append(queue, Sentinel)
  <2>1. queue' = q
    BY Zenon, <1>2
  <2>2. queue \in Seq(Missing \cup {Sentinel})
    BY Zenon DEF ClientTypeOK
  <2>3. /\ q \in Seq(Missing \cup {Sentinel}) /\ Len(q) = Len(queue) + 1
        /\ \A i \in DOMAIN queue : i \in DOMAIN q /\ q[i] = queue[i]
        /\ Len(queue) + 1 \in DOMAIN q /\ q[Len(queue) + 1] = Sentinel
        /\ \A i \in DOMAIN q : i \in DOMAIN queue \/ i = Len(queue) + 1
    BY SMTT(20), <2>2, AppendFacts
  <2> HIDE DEF q
  <2>4. ClientTypeOK'
    BY SMTT(20), <1>2, <2>1, <2>2, <2>3 DEF ClientTypeOK, sendVars, grpcVars, targetVars, mainVars
  <2>5. SenderInv'
    BY Zenon, <1>2 DEF SenderInv, Passed, AtChunk, sendVars
  <2>6. PathInv'
    BY Zenon, <1>2, <2>1, <2>3 DEF PathInv, sendVars, grpcVars, targetVars, mainVars
  <2>7. CloseInv'
    BY Zenon, <1>2 DEF ClientTypeOK, CloseInv, Ended, sendVars, mainVars
  <2>8. QuietInv'
    <3>1. mainPc = "responses" => ~enqueued
      BY Zenon, <1>2 DEF CloseInv
    <3> QED BY SMTT(20), <1>2, <2>1, <2>3, <3>1 DEF QuietInv, sendVars, grpcVars, targetVars, mainVars
  <2> QED BY Zenon, <2>4, <2>5, <2>6, <2>7, <2>8
<1>3. ASSUME cancelled, closePc[w] \in {"finishPut", "force", "forcePut"},
             queue' \in {queue, <<>>}, lock' \in {lock, "free"},
             NEW pc \in {"force", "forcePut", "done"}, closePc' = [closePc EXCEPT ![w] = pc],
             UNCHANGED <<enqueued, isFinished, cancelled, sendVars, grpcVars, targetVars, mainVars>>
      PROVE  ClientIInv'
  <2>0. mainPc # "responses"
    BY Zenon, <1>3 DEF CloseInv
  <2>1. ClientTypeOK' /\ SenderInv'
    <3>1. queue' \in Seq(Missing \cup {Sentinel}) /\ Len(queue') <= MaxSize
      <4>1. CASE queue' = queue
        BY Zenon, <4>1 DEF ClientTypeOK
      <4>2. CASE queue' = <<>>
        BY <4>2
      <4> QED BY Zenon, <1>3, <4>1, <4>2
    <3>2. closePc' \in [Thread -> {"idle", "finish", "cancel", "finishPut", "force", "forcePut", "done"}]
      BY Zenon, <1>3 DEF ClientTypeOK
    <3>3. ClientTypeOK'
      BY SMTT(20), <1>3, <3>1, <3>2 DEF ClientTypeOK, sendVars, grpcVars, targetVars, mainVars
    <3> QED BY Zenon, <1>3, <3>3 DEF SenderInv, Passed, AtChunk, sendVars
  <2>2. PathInv' /\ QuietInv'
    BY SMTT(20), <1>3, <2>0 DEF PathInv, QuietInv, sendVars, grpcVars, targetVars, mainVars
  <2>3. CloseInv'
    BY Zenon, <1>3, <2>0 DEF ClientTypeOK, CloseInv, Ended, sendVars, mainVars
  <2> QED BY Zenon, <2>1, <2>2, <2>3
<1>4. closePc[w] \in {"force", "forcePut"} => cancelled
  BY Zenon DEF CloseInv
<1>5. CASE FinishPut(w)
  BY Zenon, <1>5, <1>2, <1>3 DEF FinishPut
<1>6. CASE ForceDrain(w)
  BY Zenon, <1>6, <1>3, <1>4 DEF ForceDrain
<1>7. CASE ForcePut(w)
  BY Zenon, <1>7, <1>2, <1>3, <1>4 DEF ForcePut
<1> QED BY Zenon, <1>1, <1>5, <1>6, <1>7 DEF Closing

(* gRPC's thread takes the first item: while the call lasts the sentinel is  *)
(* the first only when nothing is behind it.                                 *)
LEMMA NextItemPreserves ==
  ASSUME ClientIInv, NextItem
  PROVE  ClientIInv'
<1> USE SizeAssumption DEF ClientIInv, Missing, Sentinel, Thread
<1>1. CASE queue # <<>>
  <2> DEFINE q == Tail(queue)  h == Head(queue)
  <2>1. /\ queue' = q /\ nextPc = "next" /\ nextPc' = IF h = Sentinel THEN "stopped" ELSE "sending"
        /\ sending' = IF h = Sentinel THEN sending ELSE h
        /\ UNCHANGED <<isFinished, cancelled, enqueued, lock, closePc, sendVars, targetVars, mainVars>>
    BY Zenon, <1>1 DEF NextItem
  <2>2. queue \in Seq(Missing \cup {Sentinel})
    BY Zenon DEF ClientTypeOK
  <2>3. /\ q \in Seq(Missing \cup {Sentinel}) /\ Len(q) = Len(queue) - 1 /\ h = queue[1] /\ h \in Missing \cup {Sentinel}
        /\ 1 \in DOMAIN queue
        /\ \A i \in DOMAIN q : i + 1 \in DOMAIN queue /\ q[i] = queue[i + 1]
        /\ \A i \in DOMAIN queue : i = 1 \/ (i - 1 \in DOMAIN q /\ q[i - 1] = queue[i])
        /\ Len(queue) = 1 => q = <<>>
    BY Zenon, <1>1, <2>2, TailFacts
  <2> HIDE DEF q, h
  <2>4. ClientTypeOK'
    BY SMTT(20), <2>1, <2>2, <2>3 DEF ClientTypeOK, sendVars, targetVars, mainVars
  <2>5. SenderInv'
    BY Zenon, <2>1 DEF SenderInv, Passed, AtChunk, sendVars
  <2>6. PathInv'
    BY Zenon, <2>1, <2>3 DEF PathInv, sendVars, targetVars, mainVars
  <2>7. CloseInv'
    BY Zenon, <2>1 DEF CloseInv, Ended, sendVars, mainVars
  <2>8. QuietInv'
    <3>1. ASSUME mainPc = "responses", NEW c \in accepted
          PROVE  \/ c \in received \/ (nextPc' = "sending" /\ sending' = c)
                 \/ \E i \in DOMAIN q : q[i] = c
      <4>1. CASE c \in received
        BY Zenon, <4>1
      <4>2. CASE c \notin received
        <5>1. PICK i \in DOMAIN queue : queue[i] = c
          BY Zenon, <2>1, <3>1, <4>2 DEF QuietInv
        <5>2. CASE i = 1
          <6>1. h = c /\ c # Sentinel
            BY <2>3, <3>1, <5>1, <5>2 DEF ClientTypeOK
          <6> QED BY Zenon, <2>1, <6>1
        <5>3. CASE i # 1
          BY Zenon, <2>3, <5>1, <5>3
        <5> QED BY Zenon, <5>2, <5>3
      <4> QED BY Zenon, <4>1, <4>2
    <3>2. ASSUME mainPc = "responses", NEW i \in DOMAIN q, q[i] = Sentinel
          PROVE  i = Len(q) /\ enqueued
      <4>1. i + 1 \in DOMAIN queue /\ queue[i + 1] = Sentinel
        BY Zenon, <2>3, <3>2
      <4>2. i + 1 = Len(queue) /\ enqueued
        BY Zenon, <3>2, <4>1 DEF QuietInv
      <4>3. i \in Nat /\ Len(queue) \in Nat
        BY <2>2, <2>3, <3>2
      <4> QED BY <2>3, <4>2, <4>3
    <3>3. ASSUME mainPc = "responses", nextPc' = "stopped"
          PROVE  q = <<>> /\ enqueued
      <4>1. h = Sentinel
        BY Zenon, <2>1, <3>3
      <4> QED BY Zenon, <2>3, <3>3, <4>1 DEF QuietInv
    <3> QED BY Zenon, <2>1, <3>1, <3>2, <3>3 DEF QuietInv, sendVars, targetVars, mainVars
  <2> QED BY Zenon, <2>4, <2>5, <2>6, <2>7, <2>8
<1>2. CASE queue = <<>>
  <2>1. /\ cancelled /\ nextPc' = "stopped"
        /\ UNCHANGED <<queue, sending, isFinished, cancelled, enqueued, lock, closePc, sendVars, targetVars, mainVars>>
    BY Zenon, <1>2 DEF NextItem
  <2>2. mainPc # "responses"
    BY Zenon, <2>1 DEF CloseInv
  <2>3. ClientTypeOK' /\ SenderInv'
    BY SMTT(20), <2>1 DEF ClientTypeOK, SenderInv, Passed, AtChunk, sendVars, targetVars, mainVars
  <2>4. PathInv' /\ CloseInv' /\ QuietInv'
    BY Zenon, <2>1, <2>2 DEF PathInv, CloseInv, QuietInv, Ended, sendVars, targetVars, mainVars
  <2> QED BY Zenon, <2>3, <2>4
<1> QED BY Zenon, <1>1, <1>2

(* The target receives, stores and answers what was accepted.                *)
LEMMA TargetPreserves ==
  ASSUME ClientIInv, SendItem \/ \E c \in Missing : Answer(c) \/ StoreUnanswered(c)
  PROVE  ClientIInv'
<1> USE SizeAssumption DEF ClientIInv, Missing, Sentinel, Thread
<1>1. CASE SendItem
  <2>1. ClientTypeOK'
    <3>1. received' \subseteq Missing
      <4>1. nextPc = "sending" /\ received' \in {received, received \cup {sending}}
        BY Zenon, <1>1 DEF SendItem
      <4>2. sending \in Missing /\ received \subseteq Missing
        BY Zenon, <4>1 DEF ClientTypeOK, PathInv
      <4> QED BY Zenon, <4>1, <4>2
    <3>2. nextPc' \in {"next", "stopped"}
      BY Zenon, <1>1 DEF SendItem
    <3> QED BY <1>1, <3>1, <3>2 DEF SendItem, ClientTypeOK, iterVars, sendVars, mainVars
  <2>2. SenderInv' /\ CloseInv'
    BY Zenon, <1>1 DEF SendItem, SenderInv, CloseInv, Passed, AtChunk, Ended, iterVars, sendVars, mainVars
  <2>3. PathInv' /\ QuietInv'
    BY Zenon, <1>1 DEF SendItem, PathInv, QuietInv, iterVars, sendVars, mainVars
  <2> QED BY Zenon, <2>1, <2>2, <2>3
<1>2. ASSUME NEW c \in Missing, Answer(c) PROVE ClientIInv'
  <2>1. ClientTypeOK'
    <3>1. answered' \subseteq Missing /\ stored' \subseteq Missing
      BY Zenon, <1>2 DEF Answer, ClientTypeOK
    <3>2. acks' \in [Missing -> {"none", "stored", "present", "error"}]
      BY Zenon, <1>2 DEF Answer, ClientTypeOK
    <3> QED BY <1>2, <3>1, <3>2 DEF Answer, ClientTypeOK, iterVars, sendVars, grpcVars
  <2>2. SenderInv' /\ CloseInv' /\ QuietInv'
    BY ZenonT(30), <1>2 DEF Answer, SenderInv, CloseInv, QuietInv, Passed, AtChunk, Ended, iterVars, sendVars, grpcVars
  <2>3. PathInv'
    BY Zenon, <1>2 DEF Answer, ClientTypeOK, PathInv, iterVars, sendVars, grpcVars
  <2> QED BY ZenonT(30), <2>1, <2>2, <2>3
<1>3. ASSUME NEW c \in Missing, StoreUnanswered(c) PROVE ClientIInv'
  <2>1. ClientTypeOK'
    BY SMTT(20), <1>3 DEF StoreUnanswered, ClientTypeOK, iterVars, sendVars, grpcVars, mainVars
  <2>2. SenderInv' /\ CloseInv' /\ QuietInv'
    BY Zenon, <1>3 DEF StoreUnanswered, SenderInv, CloseInv, QuietInv, Passed, AtChunk, Ended, iterVars, sendVars,
                grpcVars, mainVars
  <2>3. PathInv'
    BY Zenon, <1>3 DEF StoreUnanswered, ClientTypeOK, PathInv, iterVars, sendVars, grpcVars, mainVars
  <2> QED BY Zenon, <2>1, <2>2, <2>3
<1> QED BY Zenon, <1>1, <1>2, <1>3

(* Once the main thread leaves "responses" it never comes back, and the last *)
(* assignment of the ACKs only takes evidence away.                          *)
LEMMA MainPreserves ==
  ASSUME ClientIInv, ResponsesEnd \/ Main
  PROVE  ClientIInv'
<1> USE SizeAssumption DEF ClientIInv, Missing, Sentinel, Thread
<1>1. CASE ResponsesEnd \/ SetStop
  <2>1. ClientTypeOK' /\ SenderInv'
    <3>1. stop' \in BOOLEAN /\ broken' \in BOOLEAN
      BY Zenon, <1>1 DEF ResponsesEnd, SetStop, ClientTypeOK
    <3>2. mainPc' \in {"stop", "cancel"} /\ acks' = acks
      BY Zenon, <1>1 DEF ResponsesEnd, SetStop
    <3>3. UNCHANGED <<iterVars, closePc, sendVars, grpcVars, targetVars>>
      BY Zenon, <1>1 DEF ResponsesEnd, SetStop
    <3>4. ClientTypeOK'
      BY <3>1, <3>2, <3>3 DEF ClientTypeOK, iterVars, sendVars, grpcVars, targetVars
    <3> QED BY Zenon, <3>3, <3>4 DEF SenderInv, Passed, AtChunk, sendVars
  <2>2. PathInv' /\ CloseInv' /\ QuietInv'
    <3>1. mainPc' # "responses" /\ acks' = acks /\ closePc' = closePc
      BY Zenon, <1>1 DEF ResponsesEnd, SetStop
    <3>2. UNCHANGED <<iterVars, sendVars, grpcVars, targetVars>>
      BY Zenon, <1>1 DEF ResponsesEnd, SetStop
    <3>3. PathInv'
      BY Zenon, <3>1, <3>2 DEF PathInv, iterVars, sendVars, grpcVars, targetVars
    <3>4. CloseInv' /\ QuietInv'
      BY Zenon, <3>1, <3>2 DEF CloseInv, QuietInv, Ended, iterVars, sendVars
    <3> QED BY Zenon, <3>3, <3>4
  <2> QED BY Zenon, <2>1, <2>2
<1>2. CASE CancelIterator
  <2>1. ClientTypeOK' /\ SenderInv'
    BY SMTT(20), <1>2 DEF CancelIterator, ClientTypeOK, SenderInv, Passed, AtChunk, sendVars, grpcVars, targetVars
  <2>2. PathInv' /\ QuietInv'
    BY Zenon, <1>2 DEF CancelIterator, PathInv, QuietInv, sendVars, grpcVars, targetVars
  <2>3. CloseInv'
    BY Zenon, <1>2 DEF CancelIterator, ClientTypeOK, CloseInv, Ended, sendVars
  <2> QED BY ZenonT(30), <2>1, <2>2, <2>3
<1>3. ASSUME NEW o \in {"raised", "returned"}, Conclude(o) PROVE ClientIInv'
  <2>0. /\ mainPc' = o /\ UNCHANGED <<iterVars, closePc, sendVars, grpcVars, targetVars, stop, broken>>
        /\ acks' \in [Missing -> {"none", "stored", "present", "error"}]
        /\ \A c \in Missing : acks'[c] \in {acks[c], "error"}
    BY Zenon, <1>3 DEF Conclude, ClientTypeOK
  <2>1. ClientTypeOK' /\ SenderInv'
    BY SMTT(20), <2>0 DEF ClientTypeOK, SenderInv, Passed, AtChunk, iterVars, sendVars, grpcVars, targetVars
  <2>2. PathInv' /\ CloseInv' /\ QuietInv'
    BY Zenon, <2>0 DEF PathInv, CloseInv, QuietInv, Ended, iterVars, sendVars, grpcVars, targetVars
  <2> QED BY Zenon, <2>1, <2>2
<1>4. CASE JoinSender
  BY Zenon, <1>3, <1>4 DEF JoinSender
<1> QED BY Zenon, <1>1, <1>2, <1>4 DEF Main

(* The invariant is inductive.                                               *)
LEMMA ClientNextIInv == ClientIInv /\ [ClientNext]_clientVars => ClientIInv'
<1> SUFFICES ASSUME ClientIInv, [ClientNext]_clientVars PROVE ClientIInv'
  BY Zenon
<1>1. CASE Sender
  BY Zenon, <1>1, SenderPreserves, PutItemPreserves DEF Sender
<1>2. CASE NextItem
  BY Zenon, <1>2, NextItemPreserves
<1>3. CASE SendItem \/ \E c \in Missing : Answer(c) \/ StoreUnanswered(c)
  BY Zenon, <1>3, TargetPreserves
<1>4. CASE ResponsesEnd \/ Main
  BY Zenon, <1>4, MainPreserves
<1>5. CASE \E w \in Thread : Closing(w)
  BY Zenon, <1>5, ClosingPreserves
<1>6. CASE UNCHANGED clientVars
  <2> USE <1>6 DEF clientVars, iterVars, sendVars, grpcVars, targetVars, mainVars
  <2>1. ClientTypeOK' /\ SenderInv'
    BY SMTT(20) DEF ClientIInv, ClientTypeOK, SenderInv, Passed, AtChunk
  <2>2. PathInv' /\ CloseInv'
    BY Zenon DEF ClientIInv, PathInv, CloseInv, AtChunk, Ended, Passed
  <2>3. QuietInv'
    BY Zenon DEF ClientIInv, QuietInv, AtChunk, Ended, Passed
  <2> QED BY Zenon, <2>1, <2>2, <2>3 DEF ClientIInv
<1> QED BY Zenon, <1>1, <1>2, <1>3, <1>4, <1>5, <1>6 DEF ClientNext

(* Every reachable state satisfies the invariant.                            *)
THEOREM ClientInvariance == ClientSpec => []ClientIInv
  BY ClientInitIInv, ClientNextIInv, PTL DEF ClientSpec

(* finish() conserves what put() accepted, for any number of chunks and any  *)
(* size of the queue: the request stream of a call that lasts ends only when *)
(* every chunk that could be read has been sent.                             *)
THEOREM FinishLosesNothingHolds == ClientSpec => []FinishLosesNothing
<1>1. ClientIInv => FinishLosesNothing
  <2> SUFFICES ASSUME ClientIInv, nextPc = "stopped", mainPc = "responses"
               PROVE  received = accepted /\ (sendError \/ accepted = Missing \ failures)
    BY Zenon DEF FinishLosesNothing
  <2>1. queue = <<>> /\ enqueued
    BY Zenon DEF ClientIInv, QuietInv
  <2>2. accepted \subseteq received
    BY <2>1 DEF ClientIInv, QuietInv
  <2>3. sendError \/ accepted \cup failures = Missing
    BY Zenon, <2>1 DEF ClientIInv, CloseInv
  <2> QED BY Zenon, <2>2, <2>3 DEF ClientIInv, PathInv, SenderInv
<1> QED BY ClientInvariance, <1>1, PTL

(* A chunk that replicate_missing_hashes acknowledges to its caller as       *)
(* stored or present is in the store of the target and was read without      *)
(* error, however the three threads interleave and the call ends.            *)
THEOREM AcksAreEvidenceHolds == ClientSpec => []AcksAreEvidence
<1>1. ClientIInv => AcksAreEvidence
  BY Zenon DEF ClientIInv, PathInv, SenderInv, AcksAreEvidence
<1> QED BY ClientInvariance, <1>1, PTL

-----------------------------------------------------------------------------
(***************************************************************************)
(* The library, what the lemmas on ErasureProtection assume, and its       *)
(* theorems.                                                               *)
(***************************************************************************)
F == INSTANCE FiniteSetTheorems

(* The library's cardinality is the one of the modules.                      *)
LEMMA SameCardinality ==
  /\ \A S : F!IsFiniteSet(S) = IsFiniteSet(S)
  /\ \A S : F!Cardinality(S) = Cardinality(S)
<1>1. \A S : F!IsFiniteSet(S) = IsFiniteSet(S)
  BY Zenon DEF F!IsFiniteSet, IsFiniteSet
<1>2. \A S : F!Cardinality(S) = Cardinality(S)
  BY Zenon DEF F!Cardinality, Cardinality
<1> QED BY Zenon, <1>1, <1>2

(* The intervals are finite.                                                 *)
LEMMA CountingHolds == Counting
<1> SUFFICES ASSUME NEW n \in Nat, NEW T \in SUBSET (1..n)
             PROVE  /\ Cardinality(T) \in Nat /\ Cardinality(T) <= n
                    /\ \A S \in SUBSET T : Cardinality(S) <= Cardinality(T)
  BY Zenon DEF Counting
<1>2. F!IsFiniteSet(1..n) /\ F!Cardinality(1..n) = n
  BY F!FS_Interval
<1>3. F!IsFiniteSet(T) /\ F!Cardinality(T) <= F!Cardinality(1..n)
  BY Zenon, <1>2, F!FS_Subset
<1>4. F!Cardinality(T) \in Nat
  BY Zenon, <1>3, F!FS_CardinalityType
<1>5. ASSUME NEW S \in SUBSET T PROVE F!Cardinality(S) <= F!Cardinality(T)
  BY Zenon, <1>3, F!FS_Subset
<1> QED BY Zenon, <1>2, <1>3, <1>4, <1>5, SameCardinality

-----------------------------------------------------------------------------
(* The inductive invariant holds for all nodes, chunks, specs and pushes.    *)
THEOREM Invariance == Spec => []IInv
<1>1. IInv /\ [Next]_vars => IInv'
  BY Zenon, NextIInv, CountingHolds
<1> QED BY <1>1, InitIInv, PTL DEF Spec

(* A PLACED or VERIFIED pack had all its shards, and a DEGRADED one enough,  *)
(* on the nodes its row names, unless a push replaced the nodes while verify *)
(* probed them: a push writes state and nodes together, from the             *)
(* acknowledgements of those nodes.                                          *)
THEOREM StatesAreStored == Spec => []StateIsStored
<1>1. IInv => StateIsStored
  BY Zenon DEF IInv, RowsInv, Backed, There, StateIsStored
<1> QED BY <1>1, Invariance, PTL

(* A chunk is in one data pack only: register_erasure_data_pack refuses a    *)
(* pack that has a chunk of another one, and nothing else adds a pack.       *)
THEOREM ChunksPackedOnce == Spec => []PackedOnce
<1>1. IInv => PackedOnce
  BY Zenon DEF IInv, RowsInv, PackedOnce
<1> QED BY <1>1, Invariance, PTL

=============================================================================
