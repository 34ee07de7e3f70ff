---------------------- MODULE MetadataPackStoreProofs ----------------------
(***************************************************************************)
(* Proofs of the safety properties of MetadataPackStore, for every number  *)
(* of packs, all sizes, owners, quotas and faults. The daemon and gc work  *)
(* from what they have listed, one file at a time, so the invariant says   *)
(* of each pc what the process still knows of the files: ServedInv while   *)
(* the two have not met, QuotaInv an upper bound, NeedInv a lower bound,   *)
(* of what is stored in terms of what the running pass still has to free.  *)
(* ServingWithinQuota is the first bound when nothing is left to free,     *)
(* NoNeedlessLoss the second when something is. Sizes are sums, and what a *)
(* sum does when a pack goes is proved by induction on the number of       *)
(* packs.                                                                  *)
(***************************************************************************)
EXTENDS MetadataPackStore, TLAPS

Pruning == {"scan", "owners", "prune", "prune_sidecar"}
Deleting == {"prune", "prune_sidecar"}

(* Where a process can be, whatever the files are.                           *)
Shape(c) ==
    /\ c.pc = "idle" => c.put = 0
    /\ c.put # 0 => c.put \notin c.todo /\ c.snap[c.put] = 0
    /\ c.pc \in {"present", "reaccept", "write", "sign", "unsign_new", "remove_new"} => c.put # 0
    /\ c.pc \in Pruning => c.pass \in {"expired", "owner", "global"}
    /\ c.pc = "owners" => c.pass = "owner"
    /\ c.pc \notin Deleting => c.bytes = 0 /\ c.count = 0
    /\ c.pc \in Pruning /\ c.pass = "global" => c.count = 0
    /\ c.pc = "prune_sidecar" => c.todo # {}

(* What a process that works alone knows of the files: T are the mtimes, X   *)
(* the sidecars and A the packs answered as kept.                            *)
Alone(c, T, X, A) ==
    /\ c.put # 0 /\ c.pc \notin {"present", "reaccept"} => c.put \notin A
    /\ c.put # 0 /\ c.pc \in Pruning => T[c.put] > 0 /\ c.put \in X
    /\ c.pc = "sign" => T[c.put] > 0
    /\ c.pc = "prune_sidecar" => T[Oldest(c)] = 0
ServedInv ==
    ~met => /\ proc["node"].pc = "idle" \/ proc["gc"].pc = "idle"
            /\ accepted \subseteq Listed
            /\ \A q \in Proc : Alone(proc[q], stamp, sidecars, accepted)

(* What the daemon knows of the quotas.  R are the records and K the records *)
(* without the residue of rollbacks; both only shrink under its hands.       *)
Aside(c) == IF c.pc \in {"present", "reaccept"} THEN {} ELSE {c.put}
AtMost(c, n, limit, need, freed) ==
    /\ c.pc = "prune" => n <= limit + need
    /\ c.pc = "prune_sidecar" => n + freed <= limit + need
OwnerPass(c, R, K, o) ==
    /\ \A x \in Owner \ (c.owners \cup {o}) : OwnerWithin(K, x)
    /\ c.todo \subseteq Mine(Pack, o)
    /\ AtMost(c, Cardinality(Mine(R, o)), MaxPacks, c.count, 1)
    /\ AtMost(c, TotalSize(Mine(R, o)), OwnerBytes, c.bytes, Size[Oldest(c)])
Quota(c, R, K, u) ==
    /\ u => Within(K \ Aside(c))
    /\ c.pc \in Pruning /\ c.put = 0 => ~u
    /\ c.put # 0 => u
    /\ c.pc \in Deleting \cup {"owners"} /\ c.pass = "owner" =>
          R \subseteq {p \in Pack : c.snap[p] > 0} \cup {c.put}
    /\ c.pc = "owners" => \A o \in Owner \ c.owners : OwnerWithin(K, o)
    /\ c.pc \in Deleting /\ c.pass = "owner" => \E o \in Owner : OwnerPass(c, R, K, o)
    /\ c.pc \in Pruning /\ c.pass = "global" => \A o \in Owner : OwnerWithin(K, o)
    /\ c.pc \in Deleting /\ c.pass = "global" =>
          AtMost(c, TotalSize(R), StoreBytes, c.bytes, Size[Oldest(c)])
QuotaInv == Quota(proc["node"], Records, Records \ residue, up)

(* What a process that works alone knows of what it still has to free: T are *)
(* the mtimes, R the records and t the time.                                 *)
AtLeast(c, n, limit, need, freed) ==
    /\ c.pc = "prune" => need = 0 \/ n >= limit + need
    /\ c.pc = "prune_sidecar" => need <= freed \/ n + freed >= limit + need
OwnerNeed(c, R, o) ==
    /\ c.todo \subseteq Mine(Pack, o) /\ o \notin c.owners
    /\ AtLeast(c, Cardinality(Mine(R, o)), MaxPacks, c.count, 1)
    /\ AtLeast(c, TotalSize(Mine(R, o)), OwnerBytes, c.bytes, Size[Oldest(c)])
Need(c, T, R, t) ==
    /\ c.pc \in Deleting /\ c.pass = "expired" => \A p \in c.todo : T[p] < t - MaxAge
    /\ c.pc \in Deleting \cup {"owners"} /\ c.pass = "owner" =>
          \A p \in Pack : c.snap[p] > 0 /\ OwnerOf[p] \in c.owners => T[p] > 0
    /\ c.pc \in Deleting /\ c.pass = "owner" => \E o \in Owner : OwnerNeed(c, R, o)
    /\ c.pc \in Deleting /\ c.pass = "global" =>
          AtLeast(c, TotalSize(R), StoreBytes, c.bytes, Size[Oldest(c)])
NeedInv == ~met => \A q \in Proc : Need(proc[q], stamp, Records, now)

ShapeInv == \A q \in Proc : Shape(proc[q])
IInv == TypeOK /\ ShapeInv /\ ServedInv /\ QuotaInv /\ NeedInv
-----------------------------------------------------------------------------
(* What the proofs use of numbers and of finite sets and the provers do not  *)
(* know: induction, with the property given as a set; the least number of a  *)
(* set; and how many packs there are in a set of packs. The lemmas assume    *)
(* it, the last part of the module proves it from the library: where nothing *)
(* else needs the library, it does not burden the provers.                   *)
Induction == \A S : 0 \in S /\ (\A n \in Nat : n \in S => n + 1 \in S) => \A n \in Nat : n \in S
Least == \A S \in SUBSET Nat : S # {} => \E m \in S : \A y \in S : m <= y
Counting ==
    /\ Cardinality({}) = 0
    /\ \A T \in SUBSET Pack : Cardinality(T) \in Nat
    /\ \A T \in SUBSET Pack : \A S \in SUBSET T : Cardinality(S) <= Cardinality(T)
    /\ \A T \in SUBSET Pack : \A p \in T : Cardinality(T) = Cardinality(T \ {p}) + 1
DataFacts == Induction /\ Least /\ Counting

(* The same facts, in the form the proofs cite.                              *)
LEMMA SetInduction ==
  ASSUME DataFacts, NEW S, 0 \in S, \A n \in Nat : n \in S => n + 1 \in S
  PROVE  \A n \in Nat : n \in S
  BY Zenon DEF DataFacts, Induction

(* The least number of a set.                                                *)
LEMMA LeastOf ==
  ASSUME DataFacts, NEW S \in SUBSET Nat, S # {}
  PROVE  \E m \in S : \A y \in S : m <= y
  BY Zenon DEF DataFacts, Least

-----------------------------------------------------------------------------
(* The sizes of the packs of S up to n add up to f[n].                       *)
Weight(S, n) == IF n \in S THEN Size[n] ELSE 0
Sums(S, k, f) == /\ f \in [0..k -> Nat] /\ f[0] = 0
                 /\ \A n \in 1..k : f[n] = f[n - 1] + Weight(S, n)

(* Such a function exists, up to every pack.                                 *)
LEMMA SumsExist ==
  ASSUME DataFacts, NEW S
  PROVE  \E f : Sums(S, N, f)
<1> DEFINE G == {k \in Nat : k <= N => \E f : Sums(S, k, f)}
<1>0. N \in Nat
  BY Zenon, PackStoreAssumption
<1>1. 0 \in G
  <2>1. Sums(S, 0, [n \in 0..0 |-> 0])
    BY DEF Sums
  <2> QED BY Zenon, <2>1
<1>2. ASSUME NEW k \in Nat, k \in G PROVE k + 1 \in G
  <2> SUFFICES ASSUME k + 1 <= N PROVE \E f : Sums(S, k + 1, f)
    BY <1>0
  <2>1. PICK f : Sums(S, k, f)
    BY <1>0, <1>2
  <2> DEFINE w == Weight(S, k + 1)
             g == [n \in 0..(k + 1) |-> IF n = k + 1 THEN f[k] + w ELSE f[n]]
  <2>2. w \in Nat
    BY PackStoreAssumption DEF Weight, Pack
  <2>3. f \in [0..k -> Nat] /\ f[0] = 0 /\ \A n \in 1..k : f[n] = f[n - 1] + Weight(S, n)
    BY Zenon, <2>1 DEF Sums
  <2>4. g \in [0..(k + 1) -> Nat] /\ g[0] = 0
    <3> HIDE DEF w
    <3> QED BY <2>2, <2>3
  <2>5. ASSUME NEW n \in 1..(k + 1) PROVE g[n] = g[n - 1] + Weight(S, n)
    <3>1. CASE n = k + 1
      <4> HIDE DEF w
      <4>1. g[n] = f[k] + w /\ g[n - 1] = f[k]
        BY <3>1
      <4> QED BY Zenon, <4>1, <3>1 DEF w
    <3>2. CASE n # k + 1
      <4>1. n \in 1..k /\ n - 1 \in 0..k /\ n - 1 # k + 1
        BY <3>2
      <4>2. g[n] = f[n] /\ g[n - 1] = f[n - 1]
        BY <4>1
      <4> QED BY Zenon, <2>3, <4>1, <4>2
    <3> QED BY Zenon, <3>1, <3>2
  <2> QED BY Zenon, <2>4, <2>5 DEF Sums
<1> HIDE DEF G
<1>3. N \in G
  BY Zenon, <1>0, <1>1, <1>2, SetInduction
<1> QED BY <1>0, <1>3 DEF G

(* TotalSize is the last of these sums.                                      *)
LEMMA TotalIs ==
  ASSUME DataFacts, NEW S
  PROVE  \E f : Sums(S, N, f) /\ TotalSize(S) = f[N]
<1>1. PICK f : Sums(S, N, f)
  BY Zenon, SumsExist
<1> DEFINE Eq(g) == g = [n \in 0..N |-> IF n = 0 THEN 0
                                       ELSE g[n - 1] + (IF n \in S THEN Size[n] ELSE 0)]
           h == CHOOSE g : Eq(g)
<1>2. Eq(f)
  BY <1>1, PackStoreAssumption DEF Sums, Weight
<1>3. Eq(h)
  <2> HIDE DEF Eq
  <2> QED BY Zenon, <1>2
<1>4. TotalSize(S) = h[N]
  BY Zenon DEF TotalSize
<1> HIDE DEF h
<1>5. \A n \in 0..N : h[n] = IF n = 0 THEN 0 ELSE h[n - 1] + Weight(S, n)
  BY Zenon, <1>3 DEF Weight
<1>6. \A n \in 0..N : h[n] \in Nat
  <2> DEFINE G == {k \in Nat : k <= N => h[k] \in Nat}
  <2>1. 0 \in G
    BY <1>5, PackStoreAssumption
  <2>2. ASSUME NEW k \in Nat, k \in G PROVE k + 1 \in G
    <3> SUFFICES ASSUME k + 1 <= N PROVE h[k + 1] \in Nat
      OBVIOUS
    <3>1. k + 1 \in 0..N /\ h[k] \in Nat /\ (k + 1) - 1 = k /\ k + 1 # 0
      BY <2>2, PackStoreAssumption
    <3>2. Weight(S, k + 1) \in Nat
      BY <3>1, PackStoreAssumption DEF Weight, Pack
    <3> QED BY <1>5, <3>1, <3>2
  <2> HIDE DEF G
  <2>3. \A k \in Nat : k \in G
    BY Zenon, <2>1, <2>2, SetInduction
  <2> QED BY <2>3, PackStoreAssumption DEF G
<1>7. h \in [0..N -> Nat]
  BY Zenon, <1>3, <1>6
<1>8. Sums(S, N, h)
  BY <1>5, <1>7, PackStoreAssumption DEF Sums
<1> QED BY Zenon, <1>4, <1>8

(* More packs are not smaller.                                               *)
LEMMA TotalGrows ==
  ASSUME DataFacts, NEW S, NEW T, \A p \in Pack : p \in S => p \in T
  PROVE  TotalSize(S) \in Nat /\ TotalSize(T) \in Nat /\ TotalSize(S) <= TotalSize(T)
<1>1. PICK f : Sums(S, N, f) /\ TotalSize(S) = f[N]
  BY Zenon, TotalIs
<1>2. PICK g : Sums(T, N, g) /\ TotalSize(T) = g[N]
  BY Zenon, TotalIs
<1> DEFINE G == {k \in Nat : k <= N => f[k] <= g[k]}
<1>3. 0 \in G
  BY <1>1, <1>2 DEF Sums
<1>4. ASSUME NEW k \in Nat, k \in G PROVE k + 1 \in G
  <2> SUFFICES ASSUME k + 1 <= N PROVE f[k + 1] <= g[k + 1]
    OBVIOUS
  <2>1. k + 1 \in 1..N /\ k \in 0..N /\ (k + 1) - 1 = k /\ k + 1 \in Pack
    BY PackStoreAssumption DEF Pack
  <2>2. Weight(S, k + 1) \in Nat /\ Weight(T, k + 1) \in Nat /\ Weight(S, k + 1) <= Weight(T, k + 1)
    BY <2>1, PackStoreAssumption DEF Weight
  <2>3. f[k + 1] = f[k] + Weight(S, k + 1) /\ g[k + 1] = g[k] + Weight(T, k + 1)
    BY Zenon, <1>1, <1>2, <2>1 DEF Sums
  <2>4. f[k] \in Nat /\ g[k] \in Nat /\ f[k] <= g[k]
    BY <1>1, <1>2, <1>4, <2>1 DEF Sums
  <2> QED BY <2>2, <2>3, <2>4
<1> HIDE DEF G
<1>5. N \in G
  BY Zenon, <1>3, <1>4, SetInduction, PackStoreAssumption, N \in Nat
<1> QED BY <1>1, <1>2, <1>5, PackStoreAssumption DEF G, Sums

(* A pack more adds its size.                                                *)
LEMMA TotalAdds ==
  ASSUME DataFacts, NEW S, NEW p \in Pack, p \in S
  PROVE  TotalSize(S) = TotalSize(S \ {p}) + Size[p]
<1>1. PICK f : Sums(S, N, f) /\ TotalSize(S) = f[N]
  BY Zenon, TotalIs
<1>2. PICK g : Sums(S \ {p}, N, g) /\ TotalSize(S \ {p}) = g[N]
  BY Zenon, TotalIs
<1>0. p \in 1..N /\ N \in Nat /\ Size[p] \in Nat
  BY Zenon, PackStoreAssumption DEF Pack
<1> DEFINE G == {k \in Nat : k <= N => f[k] = g[k] + (IF p <= k THEN Size[p] ELSE 0)}
<1>3. 0 \in G
  BY <1>0, <1>1, <1>2 DEF Sums
<1>4. ASSUME NEW k \in Nat, k \in G PROVE k + 1 \in G
  <2> SUFFICES ASSUME k + 1 <= N PROVE f[k + 1] = g[k + 1] + (IF p <= k + 1 THEN Size[p] ELSE 0)
    OBVIOUS
  <2>1. k + 1 \in 1..N /\ k \in 0..N /\ (k + 1) - 1 = k /\ k + 1 \in Pack
    BY <1>0 DEF Pack
  <2>3. f[k + 1] = f[k] + Weight(S, k + 1) /\ g[k + 1] = g[k] + Weight(S \ {p}, k + 1)
    BY Zenon, <1>1, <1>2, <2>1 DEF Sums
  <2>4. f[k] \in Nat /\ g[k] \in Nat /\ f[k] = g[k] + (IF p <= k THEN Size[p] ELSE 0)
    BY <1>1, <1>2, <1>4, <2>1 DEF Sums
  <2>5. CASE p = k + 1
    <3>1. Weight(S, k + 1) = Size[p] /\ Weight(S \ {p}, k + 1) = 0
      BY Zenon, <2>5 DEF Weight
    <3> QED BY <1>0, <2>3, <2>4, <2>5, <3>1
  <2>6. CASE p # k + 1
    <3>1. Weight(S, k + 1) = Weight(S \ {p}, k + 1) /\ Weight(S, k + 1) \in Nat
      BY Zenon, <2>1, <2>6, PackStoreAssumption DEF Weight
    <3> QED BY <1>0, <2>3, <2>4, <2>6, <3>1
  <2> QED BY Zenon, <2>5, <2>6
<1> HIDE DEF G
<1>5. N \in G
  BY Zenon, <1>0, <1>3, <1>4, SetInduction
<1> QED BY <1>0, <1>1, <1>2, <1>5 DEF G, Sums

(* No pack has no size.                                                      *)
LEMMA TotalNothing ==
  ASSUME DataFacts
  PROVE  TotalSize({}) = 0
<1>1. PICK f : Sums({}, N, f) /\ TotalSize({}) = f[N]
  BY Zenon, TotalIs
<1> DEFINE G == {k \in Nat : k <= N => f[k] = 0}
<1>2. 0 \in G
  BY Zenon, <1>1 DEF Sums
<1>3. ASSUME NEW k \in Nat, k \in G PROVE k + 1 \in G
  <2> SUFFICES ASSUME k + 1 <= N PROVE f[k + 1] = 0
    OBVIOUS
  <2>1. k + 1 \in 1..N /\ (k + 1) - 1 = k
    BY PackStoreAssumption
  <2>2. f[k + 1] = f[k] + Weight({}, k + 1)
    BY Zenon, <1>1, <2>1 DEF Sums
  <2> QED BY <1>3, <2>2, PackStoreAssumption DEF Weight
<1> HIDE DEF G
<1>4. N \in G
  BY Zenon, <1>2, <1>3, SetInduction, PackStoreAssumption, N \in Nat
<1> QED BY <1>1, <1>4, PackStoreAssumption DEF G

-----------------------------------------------------------------------------
Rec(T) == {p \in Pack : T[p] > 0}
Other(q) == IF q = "node" THEN "gc" ELSE "node"

(* Fewer packs are within the quotas when more are.                          *)
LEMMA OwnerShrinks ==
  ASSUME DataFacts, NEW T \in SUBSET Pack, NEW S \in SUBSET T, NEW o
  PROVE  /\ Cardinality(Mine(S, o)) \in Nat /\ Cardinality(Mine(T, o)) \in Nat
         /\ Cardinality(Mine(S, o)) <= Cardinality(Mine(T, o))
         /\ TotalSize(Mine(S, o)) \in Nat /\ TotalSize(Mine(T, o)) \in Nat
         /\ TotalSize(Mine(S, o)) <= TotalSize(Mine(T, o))
         /\ OwnerWithin(T, o) => OwnerWithin(S, o)
<1>2. Mine(S, o) \subseteq Mine(T, o) /\ Mine(T, o) \subseteq Pack
  BY Zenon DEF Mine
<1>4. /\ Cardinality(Mine(S, o)) \in Nat /\ Cardinality(Mine(T, o)) \in Nat
      /\ Cardinality(Mine(S, o)) <= Cardinality(Mine(T, o))
  BY Zenon, <1>2 DEF DataFacts, Counting
<1>5. /\ TotalSize(Mine(S, o)) \in Nat /\ TotalSize(Mine(T, o)) \in Nat
      /\ TotalSize(Mine(S, o)) <= TotalSize(Mine(T, o))
  BY Zenon, <1>2, TotalGrows
<1>6. MaxPacks \in Nat /\ OwnerBytes \in Nat
  BY Zenon, PackStoreAssumption
<1> QED BY <1>4, <1>5, <1>6 DEF OwnerWithin

(* The whole store is within its quotas when it was with more packs.         *)
LEMMA WithinShrinks ==
  ASSUME DataFacts, NEW T \in SUBSET Pack, NEW S \in SUBSET T, Within(T)
  PROVE  Within(S)
<1>1. TotalSize(S) \in Nat /\ TotalSize(T) \in Nat /\ TotalSize(S) <= TotalSize(T)
  BY Zenon, TotalGrows
<1>2. TotalSize(S) <= StoreBytes
  BY <1>1, PackStoreAssumption DEF Within
<1>3. ASSUME NEW o \in Owner PROVE OwnerWithin(S, o)
  BY Zenon, OwnerShrinks DEF Within
<1> QED BY Zenon, <1>2, <1>3 DEF Within

(* What one pack takes away from what its owner has.                         *)
LEMMA MineLoses ==
  ASSUME DataFacts, NEW R \in SUBSET Pack, NEW p \in R
  PROVE  LET o == OwnerOf[p] IN
         /\ Cardinality(Mine(R, o)) = Cardinality(Mine(R \ {p}, o)) + 1
         /\ TotalSize(Mine(R, o)) = TotalSize(Mine(R \ {p}, o)) + Size[p]
<1> DEFINE o == OwnerOf[p]
           M == Mine(R, o)
<1>1. Mine(R \ {p}, o) = M \ {p} /\ p \in M /\ M \subseteq Pack
  BY Zenon DEF Mine
<1>3. TotalSize(M) = TotalSize(M \ {p}) + Size[p]
  BY Zenon, <1>1, TotalAdds
<1>5. TotalSize(Mine(R, o)) = TotalSize(Mine(R \ {p}, o)) + Size[p]
  BY Zenon, <1>1, <1>3
<1>6. Cardinality(Mine(R, o)) = Cardinality(Mine(R \ {p}, o)) + 1
  <2>1. Cardinality(M) = Cardinality(M \ {p}) + 1
    <3> HIDE DEF M
    <3> QED BY Zenon, <1>1 DEF DataFacts, Counting
  <2> QED BY Zenon, <1>1, <2>1
<1> QED BY Zenon, <1>5, <1>6

(* The oldest candidate is one of them.                                      *)
LEMMA OldestIn ==
  ASSUME DataFacts, NEW c \in ProcState, c.todo # {}
  PROVE  Oldest(c) \in c.todo
<1>1. c.todo \subseteq Pack /\ c.snap \in [Pack -> Nat] /\ Pack \subseteq Nat
  BY SMTT(20), PackStoreAssumption DEF ProcState, Pack
<1> DEFINE ages == {c.snap[p] : p \in c.todo}
<1>2. ages \in SUBSET Nat /\ ages # {}
  BY Zenon, <1>1
<1>3. PICK a \in ages : \A y \in ages : a <= y
  <2> HIDE DEF ages
  <2> QED BY Zenon, <1>2, LeastOf
<1> DEFINE first == {p \in c.todo : c.snap[p] = a}
<1>4. first \in SUBSET Nat /\ first # {}
  BY Zenon, <1>1, <1>3
<1>5. PICK m \in first : \A y \in first : m <= y
  <2> HIDE DEF first
  <2> QED BY Zenon, <1>4, LeastOf
<1>6. ASSUME NEW o \in c.todo
      PROVE  c.snap[m] < c.snap[o] \/ (c.snap[m] = c.snap[o] /\ m <= o)
  <2>1. c.snap[o] \in Nat /\ a \in Nat /\ a <= c.snap[o] /\ c.snap[m] = a
    BY Zenon, <1>1, <1>2, <1>3, <1>5
  <2>2. c.snap[o] = a => m <= o
    BY Zenon, <1>5
  <2> QED BY <2>1, <2>2
<1>7. m \in c.todo
  BY Zenon, <1>5
<1> HIDE DEF first, ages
<1> QED BY Zenon, <1>6, <1>7 DEF Oldest, OldestOf

(* The pack being deleted has a size.                                        *)
LEMMA SizeOfOldest ==
  ASSUME DataFacts, NEW c \in ProcState, c.todo # {}
  PROVE  Oldest(c) \in Pack /\ Size[Oldest(c)] \in Nat
<1>1. Oldest(c) \in Pack
  BY Zenon, OldestIn DEF ProcState
<1>2. \A p \in Pack : Size[p] \in Nat
  BY Zenon, PackStoreAssumption
<1> QED BY Zenon, <1>1, <1>2

(* Only 0, which is no pack, says that nothing is being published.           *)
LEMMA PutIsPack ==
  /\ 0 \notin Pack
  /\ \A c \in ProcState : c.put # 0 => c.put \in Pack
<1>1. N \in Nat
  BY Zenon, PackStoreAssumption
<1>2. 0 \notin Pack /\ \A n \in 0..N : n # 0 => n \in Pack
  BY <1>1 DEF Pack
<1>3. \A c \in ProcState : c.put \in 0..N
  BY Zenon DEF ProcState
<1> QED BY Zenon, <1>2, <1>3

(* An upper bound of what is left stays one when less is left.               *)
LEMMA AtMostShrinks ==
  ASSUME NEW c, NEW n \in Nat, NEW m \in Nat, m <= n, NEW limit \in Nat, NEW need \in Nat,
         NEW freed, c.pc = "prune_sidecar" => freed \in Nat, AtMost(c, n, limit, need, freed)
  PROVE  AtMost(c, m, limit, need, freed)
  BY DEF AtMost

(* Deletions by another process leave the daemon right about the quotas.     *)
LEMMA QuotaShrinks ==
  ASSUME DataFacts, NEW c \in ProcState, Shape(c), NEW R \in SUBSET Pack, NEW S \in SUBSET R,
         NEW K \in SUBSET Pack, NEW L \in SUBSET K, NEW u, Quota(c, R, K, u)
  PROVE  Quota(c, S, L, u)
<1>1. u => Within(L \ Aside(c))
  <2>1. K \ Aside(c) \in SUBSET Pack /\ L \ Aside(c) \in SUBSET (K \ Aside(c))
    BY Zenon
  <2> QED BY Zenon, <2>1, WithinShrinks DEF Quota
<1>2. \A o \in Owner : OwnerWithin(K, o) => OwnerWithin(L, o)
  BY Zenon, OwnerShrinks
<1>3. c.bytes \in Nat /\ c.count \in Nat /\ c.todo \subseteq Pack
  BY Zenon DEF ProcState
<1>4. StoreBytes \in Nat /\ OwnerBytes \in Nat /\ MaxPacks \in Nat
  BY Zenon, PackStoreAssumption
<1>5. c.pc = "prune_sidecar" => Size[Oldest(c)] \in Nat
  BY Zenon, SizeOfOldest DEF Shape
<1>6. ASSUME NEW o \in Owner, OwnerPass(c, R, K, o) PROVE OwnerPass(c, S, L, o)
  <2>1. \A x \in Owner \ (c.owners \cup {o}) : OwnerWithin(L, x)
    BY Zenon, <1>2, <1>6 DEF OwnerPass
  <2>2. /\ Cardinality(Mine(S, o)) \in Nat /\ Cardinality(Mine(R, o)) \in Nat
        /\ Cardinality(Mine(S, o)) <= Cardinality(Mine(R, o))
        /\ TotalSize(Mine(S, o)) \in Nat /\ TotalSize(Mine(R, o)) \in Nat
        /\ TotalSize(Mine(S, o)) <= TotalSize(Mine(R, o))
    BY Zenon, OwnerShrinks
  <2>3. AtMost(c, Cardinality(Mine(S, o)), MaxPacks, c.count, 1)
    BY Zenon, <1>3, <1>4, <1>6, <2>2, AtMostShrinks DEF OwnerPass
  <2>4. AtMost(c, TotalSize(Mine(S, o)), OwnerBytes, c.bytes, Size[Oldest(c)])
    BY Zenon, <1>3, <1>4, <1>5, <1>6, <2>2, AtMostShrinks DEF OwnerPass
  <2> QED BY Zenon, <1>6, <2>1, <2>3, <2>4 DEF OwnerPass
<1>7. AtMost(c, TotalSize(R), StoreBytes, c.bytes, Size[Oldest(c)])
      => AtMost(c, TotalSize(S), StoreBytes, c.bytes, Size[Oldest(c)])
  <2>1. TotalSize(S) \in Nat /\ TotalSize(R) \in Nat /\ TotalSize(S) <= TotalSize(R)
    BY Zenon, TotalGrows
  <2> QED BY Zenon, <1>3, <1>4, <1>5, <2>1, AtMostShrinks
<1>8. R \subseteq {p \in Pack : c.snap[p] > 0} \cup {c.put} => S \subseteq {p \in Pack : c.snap[p] > 0} \cup {c.put}
  BY Zenon
<1> HIDE DEF Pruning
<1> QED BY Zenon, <1>1, <1>2, <1>6, <1>7, <1>8 DEF Quota

(* A step of process q that leaves it at d: what is to be known of d, and    *)
(* of the files, for the invariant.                                          *)
LEMMA StepKeeps ==
  ASSUME DataFacts, IInv, NEW q \in Proc, NEW d \in ProcState, proc' = [proc EXCEPT ![q] = d],
         stamp' \in [Pack -> Nat], sidecars' \subseteq Pack, now' \in Nat \ {0}, up' \in BOOLEAN,
         accepted' \subseteq Pack, residue' \subseteq Pack, met' \in BOOLEAN,
         faults' \in 0..MaxFaults, gcs' \in 0..MaxGc,
         Shape(d),
         q = "node" => Quota(d, Rec(stamp'), Rec(stamp') \ residue', up'),
         q = "gc" => /\ d.put = 0 /\ up' = up
                     /\ Rec(stamp') \subseteq Rec(stamp)
                     /\ Rec(stamp') \ residue' \subseteq Rec(stamp) \ residue,
         ~met' => /\ proc[Other(q)].pc = "idle"
                  /\ accepted' \subseteq Rec(stamp') \cap sidecars'
                  /\ Alone(d, stamp', sidecars', accepted')
                  /\ Need(d, stamp', Rec(stamp'), now')
  PROVE  IInv'
<1>0. q \in {"node", "gc"} /\ Other(q) \in Proc /\ Other(q) # q /\ Proc = {q, Other(q)}
  BY Zenon DEF Proc, Other
<1> DEFINE b == proc[Other(q)]
<1>1. proc \in [Proc -> ProcState] /\ proc["gc"].put = 0 /\ b \in ProcState /\ Shape(b)
  BY Zenon, <1>0 DEF IInv, TypeOK, ShapeInv
<1>2. proc' \in [Proc -> ProcState] /\ proc'[q] = d /\ proc'[Other(q)] = b
  BY Zenon, <1>0, <1>1
<1>3. TypeOK'
  <2>1. proc'["gc"].put = 0
    BY Zenon, <1>0, <1>1, <1>2 DEF Other
  <2> QED BY Zenon, <1>2, <2>1 DEF TypeOK
<1>4. ShapeInv'
  BY Zenon, <1>0, <1>1, <1>2 DEF ShapeInv
<1>5. Records' = Rec(stamp') /\ Records = Rec(stamp)
  BY Zenon DEF Records, Rec
<1>6. QuotaInv'
  <2>1. CASE q = "node"
    BY Zenon, <1>2, <1>5, <2>1 DEF QuotaInv
  <2>2. CASE q = "gc"
    <3>1. Other(q) = "node" /\ Quota(b, Rec(stamp), Rec(stamp) \ residue, up)
      BY Zenon, <1>5, <2>2 DEF Other, IInv, QuotaInv
    <3>2. Rec(stamp) \in SUBSET Pack
      BY Zenon DEF Rec
    <3>3. Quota(b, Rec(stamp'), Rec(stamp') \ residue', up)
      <4> HIDE DEF b
      <4> QED BY Zenon, <1>1, <2>2, <3>1, <3>2, QuotaShrinks
    <3> QED BY Zenon, <1>2, <1>5, <2>2, <3>1, <3>3 DEF QuotaInv
  <2> QED BY Zenon, <1>0, <2>1, <2>2
<1>7. ASSUME ~met' PROVE Alone(b, stamp', sidecars', accepted') /\ Need(b, stamp', Rec(stamp'), now')
  <2>1. b.pc = "idle" /\ b.put = 0
    BY Zenon, <1>1, <1>7 DEF Shape
  <2> HIDE DEF b
  <2> QED BY Zenon, <2>1 DEF Alone, Need, Pruning, Deleting
<1>8. ServedInv'
  <2>1. ASSUME ~met' PROVE proc'["node"].pc = "idle" \/ proc'["gc"].pc = "idle"
    BY Zenon, <1>0, <1>2, <2>1 DEF Other
  <2>2. ASSUME ~met' PROVE \A r \in Proc : Alone(proc'[r], stamp', sidecars', accepted')
    BY Zenon, <1>0, <1>2, <1>7, <2>2
  <2>3. ASSUME ~met' PROVE accepted' \subseteq Listed'
    BY Zenon, <1>5, <2>3 DEF Listed
  <2> QED BY Zenon, <2>1, <2>2, <2>3 DEF ServedInv
<1>9. NeedInv'
  <2>2. ASSUME ~met' PROVE \A r \in Proc : Need(proc'[r], stamp', Records', now')
    BY Zenon, <1>0, <1>2, <1>5, <1>7, <2>2
  <2> QED BY Zenon, <2>2 DEF NeedInv
<1> QED BY Zenon, <1>3, <1>4, <1>6, <1>8, <1>9 DEF IInv

-----------------------------------------------------------------------------
(* What the invariant says of one process.                                   *)
LEMMA Facts ==
  ASSUME IInv, NEW q \in Proc
  PROVE  /\ proc[q] \in ProcState /\ Shape(proc[q])
         /\ q = "node" => Quota(proc[q], Rec(stamp), Rec(stamp) \ residue, up)
         /\ q = "gc" => proc[q].put = 0
         /\ ~met /\ proc[q].pc # "idle" => proc[Other(q)].pc = "idle"
         /\ ~met => /\ accepted \subseteq Rec(stamp) \cap sidecars
                    /\ Alone(proc[q], stamp, sidecars, accepted)
                    /\ Need(proc[q], stamp, Rec(stamp), now)
<1>1. Records = Rec(stamp)
  BY Zenon DEF Records, Rec
<1>2. proc[q] \in ProcState /\ Shape(proc[q])
  BY Zenon DEF IInv, TypeOK, ShapeInv
<1>3. q = "node" => Quota(proc[q], Rec(stamp), Rec(stamp) \ residue, up)
  BY Zenon, <1>1 DEF IInv, QuotaInv
<1>4. q = "gc" => proc[q].put = 0
  BY Zenon DEF IInv, TypeOK
<1>5. ~met => /\ accepted \subseteq Rec(stamp) \cap sidecars
              /\ Alone(proc[q], stamp, sidecars, accepted)
              /\ Need(proc[q], stamp, Rec(stamp), now)
  BY Zenon, <1>1 DEF IInv, ServedInv, NeedInv, Listed
<1>6. ~met /\ proc[q].pc # "idle" => proc[Other(q)].pc = "idle"
  BY DEF IInv, ServedInv, Other, Proc
<1> QED BY Zenon, <1>2, <1>3, <1>4, <1>5, <1>6

(* A step of a process at work that touches no file.                         *)
LEMMA QuietStep ==
  ASSUME DataFacts, IInv, NEW q \in Proc, proc[q].pc # "idle",
         NEW d \in ProcState, proc' = [proc EXCEPT ![q] = d],
         UNCHANGED <<stamp, sidecars, now, up, accepted, residue, met, gcs>>,
         faults' \in 0..MaxFaults,
         Shape(d),
         q = "node" => Quota(d, Rec(stamp), Rec(stamp) \ residue, up),
         d.put \in {0, proc[q].put},
         ~met => Alone(d, stamp, sidecars, accepted) /\ Need(d, stamp, Rec(stamp), now)
  PROVE  IInv'
<1>1. /\ stamp' = stamp /\ sidecars' = sidecars /\ now' = now /\ up' = up /\ accepted' = accepted
      /\ residue' = residue /\ met' = met /\ gcs' = gcs
  BY Zenon
<1>2. /\ stamp' \in [Pack -> Nat] /\ sidecars' \subseteq Pack /\ now' \in Nat \ {0} /\ up' \in BOOLEAN
      /\ accepted' \subseteq Pack /\ residue' \subseteq Pack /\ met' \in BOOLEAN /\ gcs' \in 0..MaxGc
  BY Zenon, <1>1 DEF IInv, TypeOK
<1>3. q = "node" => Quota(d, Rec(stamp'), Rec(stamp') \ residue', up')
  BY Zenon, <1>1
<1>4. q = "gc" => /\ d.put = 0 /\ up' = up
                  /\ Rec(stamp') \subseteq Rec(stamp)
                  /\ Rec(stamp') \ residue' \subseteq Rec(stamp) \ residue
  <2>1. q = "gc" => d.put = 0
    BY Zenon, Facts
  <2> QED BY Zenon, <1>1, <2>1
<1>5. ~met' => /\ proc[Other(q)].pc = "idle"
               /\ accepted' \subseteq Rec(stamp') \cap sidecars'
               /\ Alone(d, stamp', sidecars', accepted')
               /\ Need(d, stamp', Rec(stamp'), now')
  <2>1. ~met => proc[Other(q)].pc = "idle" /\ accepted \subseteq Rec(stamp) \cap sidecars
    BY ONLY Zenon, Facts, IInv, q \in Proc, proc[q].pc # "idle"
  <2> QED BY <1>1, <2>1
<1> QED BY Zenon, <1>2, <1>3, <1>4, <1>5, StepKeeps

(* The pass over what has expired.                                           *)
LEMMA ScanExpiredStep ==
  ASSUME DataFacts, IInv, NEW q \in Proc, ScanExpired(q)
  PROVE  IInv'
<1> DEFINE c == proc[q]
           old == {p \in Candidates(c.put) : stamp[p] < now - MaxAge}
           d == [c EXCEPT !.pc = "prune", !.snap = Seen(old), !.todo = old]
<1>1. proc' = [proc EXCEPT ![q] = d] /\ c.pc = "scan" /\ c.pass = "expired"
  BY Zenon DEF ScanExpired, Become
<1>2. UNCHANGED <<stamp, sidecars, now, up, accepted, residue, met, gcs>> /\ faults' \in 0..MaxFaults
  BY Zenon DEF ScanExpired, files, ghosts, IInv, TypeOK
<1>3. /\ c \in ProcState /\ Shape(c)
      /\ q = "node" => Quota(c, Rec(stamp), Rec(stamp) \ residue, up)
      /\ ~met => Alone(c, stamp, sidecars, accepted)
  BY Zenon, Facts
<1>4. old \subseteq Pack /\ Seen(old) \in [Pack -> Nat] /\ c.put \notin old
  BY Zenon DEF IInv, TypeOK, Seen, Candidates, Records
<1>5. c.put # 0 => Seen(old)[c.put] = 0
  BY <1>3, <1>4 DEF Seen, ProcState, Pack
<1>6. \A p \in old : stamp[p] < now - MaxAge
  BY Zenon
<1> HIDE DEF c, old
<1>7. d \in ProcState
  BY Zenon, <1>3, <1>4 DEF ProcState, Label
<1>8. /\ d.pc = "prune" /\ d.pass = "expired" /\ d.todo = old /\ d.snap = Seen(old) /\ d.put = c.put
      /\ d.bytes = c.bytes /\ d.count = c.count
  BY Zenon, <1>1, <1>3 DEF ProcState
<1> HIDE DEF d
<1>9. Shape(d)
  BY Zenon, <1>1, <1>3, <1>4, <1>5, <1>8 DEF Shape, Deleting, Pruning
<1>10. q = "node" => Quota(d, Rec(stamp), Rec(stamp) \ residue, up)
  <2>1. Aside(d) = Aside(c)
    BY Zenon, <1>1, <1>8 DEF Aside
  <2> QED BY Zenon, <1>1, <1>3, <1>8, <2>1 DEF Quota, Pruning, Deleting
<1>11. ~met => Alone(d, stamp, sidecars, accepted) /\ Need(d, stamp, Rec(stamp), now)
  BY Zenon, <1>1, <1>3, <1>6, <1>8 DEF Alone, Need, Pruning, Deleting
<1>12. c.pc # "idle" /\ d.put \in {0, c.put}
  BY Zenon, <1>1, <1>8
<1> QED BY Zenon, <1>1, <1>2, <1>7, <1>9, <1>10, <1>11, <1>12, QuietStep DEF c

(* The owners of the records, before their quotas are applied.               *)
LEMMA ScanOwnersStep ==
  ASSUME DataFacts, IInv, NEW q \in Proc, ScanOwners(q)
  PROVE  IInv'
<1> DEFINE c == proc[q]
           S == Candidates(c.put)
           O == {OwnerOf[p] : p \in IF c.put = 0 THEN S ELSE {c.put}}
           d == [c EXCEPT !.pc = "owners", !.snap = Seen(S), !.owners = O]
<1>1. proc' = [proc EXCEPT ![q] = d] /\ c.pc = "scan" /\ c.pass = "owner"
  BY Zenon DEF ScanOwners, Become
<1>2. UNCHANGED <<stamp, sidecars, now, up, accepted, residue, met, gcs>> /\ faults' \in 0..MaxFaults
  BY Zenon DEF ScanOwners, files, ghosts, IInv, TypeOK
<1>3. /\ c \in ProcState /\ Shape(c)
      /\ q = "node" => Quota(c, Rec(stamp), Rec(stamp) \ residue, up)
      /\ ~met => Alone(c, stamp, sidecars, accepted)
  BY Zenon, Facts
<1>0. c.put # 0 => c.put \in Pack
  BY Zenon, <1>3, PutIsPack
<1>4. S \subseteq Pack /\ Seen(S) \in [Pack -> Nat] /\ S = Rec(stamp) \ {c.put}
  BY Zenon DEF IInv, TypeOK, Seen, Candidates, Records, Rec
<1>5. c.put # 0 => Seen(S)[c.put] = 0
  BY Zenon, <1>0, <1>4 DEF Seen
<1>6. \A p \in Pack : Seen(S)[p] > 0 <=> p \in S
  BY DEF Seen, Candidates, Records, IInv, TypeOK
<1>61. \A p \in Pack : Seen(S)[p] > 0 => stamp[p] > 0
  BY Zenon, <1>4, <1>6 DEF Rec
<1>62. O \subseteq Owner
  BY Zenon, <1>0, <1>4 DEF Owner
<1> HIDE DEF c, S, O
<1>7. d \in ProcState
  BY Zenon, <1>3, <1>4, <1>62 DEF ProcState, Label
<1>8. /\ d.pc = "owners" /\ d.pass = "owner" /\ d.todo = c.todo /\ d.snap = Seen(S) /\ d.put = c.put
      /\ d.bytes = c.bytes /\ d.count = c.count /\ d.owners = O
  BY Zenon, <1>1, <1>3 DEF ProcState
<1> HIDE DEF d
<1>9. Shape(d)
  BY Zenon, <1>1, <1>3, <1>5, <1>8 DEF Shape, Deleting, Pruning
<1>10. q = "node" => Quota(d, Rec(stamp), Rec(stamp) \ residue, up)
  <2> SUFFICES ASSUME q = "node" PROVE Quota(d, Rec(stamp), Rec(stamp) \ residue, up)
    BY Zenon
  <2> DEFINE K == Rec(stamp) \ residue
  <2>1. Aside(d) = Aside(c) /\ Aside(c) = {c.put}
    BY Zenon, <1>1, <1>8 DEF Aside
  <2>2. Rec(stamp) \subseteq {p \in Pack : d.snap[p] > 0} \cup {d.put}
    BY Zenon, <1>4, <1>6, <1>8 DEF Rec
  <2>3. ASSUME NEW o \in Owner \ O PROVE OwnerWithin(K, o)
    <3>1. CASE c.put = 0
      <4>1. Mine(K, o) = {}
        <5> SUFFICES ASSUME NEW p \in K, OwnerOf[p] = o PROVE FALSE
          BY Zenon DEF Mine
        <5>1. p \in Pack /\ p \in Rec(stamp) /\ p # c.put
          BY <3>1, PackStoreAssumption DEF Rec, Pack
        <5>2. p \in S
          BY Zenon, <1>4, <5>1
        <5>3. OwnerOf[p] \in O
          BY Zenon, <3>1, <5>2 DEF O
        <5> QED BY Zenon, <2>3, <5>3
      <4>2. TotalSize({}) = 0 /\ Cardinality({}) = 0
        BY Zenon, TotalNothing DEF DataFacts, Counting
      <4> QED BY <4>1, <4>2, PackStoreAssumption DEF OwnerWithin
    <3>2. CASE c.put # 0
      <4>1. OwnerWithin(K \ {c.put}, o)
        BY Zenon, <1>3, <2>1, <2>3, <3>2 DEF Quota, Within
      <4>2. Mine(K, o) = Mine(K \ {c.put}, o)
        BY Zenon, <2>3, <3>2 DEF Mine, O
      <4> QED BY Zenon, <4>1, <4>2 DEF OwnerWithin
    <3> QED BY Zenon, <3>1, <3>2
  <2> HIDE DEF K
  <2> QED BY Zenon, <1>1, <1>3, <1>8, <2>1, <2>2, <2>3 DEF Quota, Pruning, Deleting, K
<1>11. ~met => Alone(d, stamp, sidecars, accepted) /\ Need(d, stamp, Rec(stamp), now)
  BY Zenon, <1>1, <1>3, <1>61, <1>8 DEF Alone, Need, Pruning, Deleting
<1>12. c.pc # "idle" /\ d.put \in {0, c.put}
  BY Zenon, <1>1, <1>8
<1> QED BY Zenon, <1>1, <1>2, <1>7, <1>9, <1>10, <1>11, <1>12, QuietStep DEF c

(* The records of the store, before its quota is applied.                    *)
LEMMA ScanStoreStep ==
  ASSUME DataFacts, IInv, NEW q \in Proc, ScanStore(q)
  PROVE  IInv'
<1> DEFINE c == proc[q]
           S == Candidates(c.put)
           n == TotalSize(S \union {c.put})
           d == [c EXCEPT !.pc = "prune", !.snap = Seen(S), !.todo = S, !.bytes = Excess(n, StoreBytes)]
<1>1. proc' = [proc EXCEPT ![q] = d] /\ c.pc = "scan" /\ c.pass = "global"
  BY Zenon DEF ScanStore, Become
<1>2. UNCHANGED <<stamp, sidecars, now, up, accepted, residue, met, gcs>> /\ faults' \in 0..MaxFaults
  BY Zenon DEF ScanStore, files, ghosts, IInv, TypeOK
<1>3. /\ c \in ProcState /\ Shape(c)
      /\ q = "node" => Quota(c, Rec(stamp), Rec(stamp) \ residue, up)
      /\ ~met => Alone(c, stamp, sidecars, accepted)
  BY Zenon, Facts
<1>0. c.put # 0 => c.put \in Pack
  BY Zenon, <1>3, PutIsPack
<1>4. S \subseteq Pack /\ Seen(S) \in [Pack -> Nat] /\ S = Rec(stamp) \ {c.put}
  BY Zenon DEF IInv, TypeOK, Seen, Candidates, Records, Rec
<1>5. c.put # 0 => Seen(S)[c.put] = 0
  BY Zenon, <1>0, <1>4 DEF Seen
<1>6. n \in Nat /\ TotalSize(Rec(stamp)) \in Nat /\ TotalSize(Rec(stamp)) <= n
  BY Zenon, <1>4, TotalGrows
<1>61. ~met => n <= TotalSize(Rec(stamp))
  <2> SUFFICES ASSUME ~met PROVE n <= TotalSize(Rec(stamp))
    BY Zenon
  <2>1. c.put # 0 => stamp[c.put] > 0
    BY Zenon, <1>1, <1>3 DEF Alone, Pruning
  <2>2. \A p \in Pack : p \in S \union {c.put} => p \in Rec(stamp)
    BY <1>4, <2>1, PackStoreAssumption DEF Rec, Pack
  <2> QED BY Zenon, <2>2, TotalGrows
<1>62. Excess(n, StoreBytes) \in Nat /\ n <= StoreBytes + Excess(n, StoreBytes)
       /\ (Excess(n, StoreBytes) = 0 \/ n = StoreBytes + Excess(n, StoreBytes))
  <2> HIDE DEF n
  <2> QED BY <1>6, PackStoreAssumption DEF Excess, Monus
<1> HIDE DEF c, S, n
<1>7. d \in ProcState
  BY Zenon, <1>3, <1>4, <1>62 DEF ProcState, Label
<1>8. /\ d.pc = "prune" /\ d.pass = "global" /\ d.todo = S /\ d.snap = Seen(S) /\ d.put = c.put
      /\ d.bytes = Excess(n, StoreBytes) /\ d.count = c.count
  BY Zenon, <1>1, <1>3 DEF ProcState
<1> HIDE DEF d
<1>9. Shape(d)
  BY Zenon, <1>1, <1>3, <1>4, <1>5, <1>8 DEF Shape, Deleting, Pruning
<1>10. q = "node" => Quota(d, Rec(stamp), Rec(stamp) \ residue, up)
  <2>1. Aside(d) = Aside(c)
    BY Zenon, <1>1, <1>8 DEF Aside
  <2>2. AtMost(d, TotalSize(Rec(stamp)), StoreBytes, d.bytes, Size[Oldest(d)])
    BY SMTT(20), <1>6, <1>62, <1>8, PackStoreAssumption DEF AtMost
  <2> QED BY Zenon, <1>1, <1>3, <1>8, <2>1, <2>2 DEF Quota, Pruning, Deleting
<1>11. ~met => Alone(d, stamp, sidecars, accepted) /\ Need(d, stamp, Rec(stamp), now)
  <2>1. ~met => AtLeast(d, TotalSize(Rec(stamp)), StoreBytes, d.bytes, Size[Oldest(d)])
    BY Zenon, <1>6, <1>61, <1>62, <1>8, PackStoreAssumption DEF AtLeast
  <2> QED BY Zenon, <1>1, <1>3, <1>8, <2>1 DEF Alone, Need, Pruning, Deleting
<1>12. c.pc # "idle" /\ d.put \in {0, c.put}
  BY Zenon, <1>1, <1>8
<1> QED BY Zenon, <1>1, <1>2, <1>7, <1>9, <1>10, <1>11, <1>12, QuietStep DEF c

(* The quotas of the owners are done: the quota of the store is next.        *)
LEMMA OwnersDoneStep ==
  ASSUME DataFacts, IInv, NEW q \in Proc, OwnersDone(q)
  PROVE  IInv'
<1> DEFINE c == proc[q]
           d == [c EXCEPT !.pc = "scan", !.pass = "global"]
<1>1. proc' = [proc EXCEPT ![q] = d] /\ c.pc = "owners" /\ c.owners = {}
  BY Zenon DEF OwnersDone, Become
<1>2. UNCHANGED <<stamp, sidecars, now, up, accepted, residue, met, gcs>> /\ faults' \in 0..MaxFaults
  BY Zenon DEF OwnersDone, files, ghosts, IInv, TypeOK
<1>3. /\ c \in ProcState /\ Shape(c)
      /\ q = "node" => Quota(c, Rec(stamp), Rec(stamp) \ residue, up)
      /\ ~met => Alone(c, stamp, sidecars, accepted)
  BY Zenon, Facts
<1> HIDE DEF c
<1>7. d \in ProcState
  BY Zenon, <1>3 DEF ProcState, Label
<1>8. /\ d.pc = "scan" /\ d.pass = "global" /\ d.todo = c.todo /\ d.snap = c.snap /\ d.put = c.put
      /\ d.bytes = c.bytes /\ d.count = c.count
  BY Zenon, <1>1, <1>3 DEF ProcState
<1> HIDE DEF d
<1>9. Shape(d)
  BY Zenon, <1>1, <1>3, <1>8 DEF Shape, Deleting, Pruning
<1>10. q = "node" => Quota(d, Rec(stamp), Rec(stamp) \ residue, up)
  <2>1. Aside(d) = Aside(c)
    BY Zenon, <1>1, <1>8 DEF Aside
  <2> QED BY Zenon, <1>1, <1>3, <1>8, <2>1 DEF Quota, Pruning, Deleting
<1>11. ~met => Alone(d, stamp, sidecars, accepted) /\ Need(d, stamp, Rec(stamp), now)
  BY Zenon, <1>1, <1>3, <1>8 DEF Alone, Need, Pruning, Deleting
<1>12. c.pc # "idle" /\ d.put \in {0, c.put}
  BY Zenon, <1>1, <1>8
<1> QED BY Zenon, <1>1, <1>2, <1>7, <1>9, <1>10, <1>11, <1>12, QuietStep DEF c

(* The quotas of the next owner, on the records of the scan.                 *)
LEMMA NextOwnerStep ==
  ASSUME DataFacts, IInv, NEW q \in Proc, NextOwner(q)
  PROVE  IInv'
<1> DEFINE c == proc[q]
           o == Min(c.owners)
           mine == {p \in Pack : c.snap[p] > 0 /\ OwnerOf[p] = o}
           S == mine \union Incoming(c.put, o)
           bs == Excess(TotalSize(S), OwnerBytes)
           ns == Excess(Cardinality(S), MaxPacks)
           d == [c EXCEPT !.pc = "prune", !.owners = c.owners \ {o}, !.todo = mine, !.bytes = bs, !.count = ns]
<1>1. proc' = [proc EXCEPT ![q] = d] /\ c.pc = "owners" /\ c.owners # {}
  BY Zenon DEF NextOwner, Become
<1>2. UNCHANGED <<stamp, sidecars, now, up, accepted, residue, met, gcs>> /\ faults' \in 0..MaxFaults
  BY Zenon DEF NextOwner, files, ghosts, IInv, TypeOK
<1>3. /\ c \in ProcState /\ Shape(c)
      /\ q = "node" => Quota(c, Rec(stamp), Rec(stamp) \ residue, up)
      /\ ~met => Alone(c, stamp, sidecars, accepted) /\ Need(c, stamp, Rec(stamp), now)
  BY Zenon, Facts
<1>4. o \in c.owners /\ o \in Owner
  <2>1. c.owners \in SUBSET Nat /\ c.owners \subseteq Owner
    BY <1>3, PackStoreAssumption DEF ProcState, Owner
  <2>2. PICK m \in c.owners : \A y \in c.owners : m <= y
    BY Zenon, <1>1, <2>1, LeastOf
  <2>3. o \in c.owners
    BY Zenon, <2>2 DEF Min
  <2> QED BY Zenon, <2>1, <2>3
<1> DEFINE R == Rec(stamp)
           K == Rec(stamp) \ residue
<1>5. S \subseteq Pack /\ S = Mine(S, o) /\ R \subseteq Pack
  BY Zenon DEF Incoming, Mine, Rec
<1>6. c.put # 0 => c.put \notin mine
  BY <1>3 DEF Shape
<1>61. /\ bs \in Nat /\ TotalSize(S) \in Nat /\ TotalSize(S) <= OwnerBytes + bs
       /\ (bs = 0 \/ TotalSize(S) = OwnerBytes + bs)
       /\ ns \in Nat /\ Cardinality(S) \in Nat /\ Cardinality(S) <= MaxPacks + ns
       /\ (ns = 0 \/ Cardinality(S) = MaxPacks + ns)
  <2>1. TotalSize(S) \in Nat /\ Cardinality(S) \in Nat
    <3> HIDE DEF S
    <3>1. Cardinality(Mine(S, o)) \in Nat /\ TotalSize(Mine(S, o)) \in Nat
      <4>1. S \in SUBSET Pack /\ S \in SUBSET S
        BY <1>5
      <4> QED BY ZenonT(30), <4>1, OwnerShrinks
    <3> QED BY Zenon, <1>5, <3>1
  <2> HIDE DEF S
  <2> QED BY <2>1, PackStoreAssumption DEF Excess, Monus
<1>62. q = "node" => Mine(R, o) \subseteq S
  BY Zenon, <1>1, <1>3 DEF Quota, Mine, Incoming, Rec, Shape, Pruning
<1>63. ~met => S \subseteq Mine(R, o)
  <2> SUFFICES ASSUME ~met, NEW p \in S PROVE p \in Mine(R, o)
    BY Zenon
  <2>1. CASE p \in mine
    BY Zenon, <1>1, <1>3, <1>4, <2>1 DEF Need, Mine, Rec, Shape
  <2>2. CASE p \in Incoming(c.put, o)
    BY <1>1, <1>3, <2>2, PackStoreAssumption DEF Alone, Pruning, Incoming, Mine, Rec, Pack
  <2> QED BY Zenon, <2>1, <2>2
<1>64. mine \subseteq Mine(Pack, o)
  BY Zenon DEF Mine
<1>65. \A T : T = Mine(T, o) => Mine(T, o) = Mine(Mine(T, o), o)
  BY Zenon DEF Mine
<1> HIDE DEF c, o, mine, S, bs, ns, R, K
<1>7. d \in ProcState
  BY Zenon, <1>3, <1>61, <1>64 DEF ProcState, Label, Mine
<1>8. /\ d.pc = "prune" /\ d.pass = "owner" /\ d.todo = mine /\ d.snap = c.snap /\ d.put = c.put
      /\ d.bytes = bs /\ d.count = ns /\ d.owners = c.owners \ {o}
  BY Zenon, <1>1, <1>3 DEF ProcState, Shape
<1> HIDE DEF d
<1>9. Shape(d)
  BY Zenon, <1>1, <1>3, <1>6, <1>8 DEF Shape, Deleting, Pruning
<1>10. q = "node" => Quota(d, R, K, up)
  <2> SUFFICES ASSUME q = "node" PROVE Quota(d, R, K, up)
    BY Zenon
  <2>0. Quota(c, R, K, up) /\ c.pass = "owner"
    BY Zenon, <1>1, <1>3 DEF R, K, Shape
  <2>1. Aside(d) = Aside(c)
    BY Zenon, <1>1, <1>8 DEF Aside
  <2>2. /\ Cardinality(Mine(R, o)) \in Nat /\ Cardinality(Mine(R, o)) <= Cardinality(S)
        /\ TotalSize(Mine(R, o)) \in Nat /\ TotalSize(Mine(R, o)) <= TotalSize(S)
    <3>1. Mine(Mine(R, o), o) = Mine(R, o)
      BY Zenon DEF Mine
    <3> QED BY Zenon, <1>5, <1>62, <3>1, OwnerShrinks
  <2>3. /\ AtMost(d, Cardinality(Mine(R, o)), MaxPacks, d.count, 1)
        /\ AtMost(d, TotalSize(Mine(R, o)), OwnerBytes, d.bytes, Size[Oldest(d)])
    BY <1>61, <1>8, <2>2, PackStoreAssumption DEF AtMost
  <2>4. \A x \in Owner \ (d.owners \cup {o}) : OwnerWithin(K, x)
    BY Zenon, <1>1, <1>8, <2>0 DEF Quota
  <2>5. OwnerPass(d, R, K, o)
    BY Zenon, <1>8, <1>64, <2>3, <2>4 DEF OwnerPass
  <2>6. R \subseteq {p \in Pack : d.snap[p] > 0} \cup {d.put}
    BY Zenon, <1>1, <1>8, <2>0 DEF Quota
  <2> QED BY Zenon, <1>1, <1>4, <1>8, <2>0, <2>1, <2>5, <2>6 DEF Quota, Pruning, Deleting
<1>11. ~met => Alone(d, stamp, sidecars, accepted) /\ Need(d, stamp, R, now)
  <2> SUFFICES ASSUME ~met PROVE Alone(d, stamp, sidecars, accepted) /\ Need(d, stamp, R, now)
    BY Zenon
  <2>0. Need(c, stamp, R, now) /\ c.pass = "owner"
    BY Zenon, <1>1, <1>3 DEF R, Shape
  <2>2. /\ Cardinality(Mine(R, o)) \in Nat /\ Cardinality(S) <= Cardinality(Mine(R, o))
        /\ TotalSize(Mine(R, o)) \in Nat /\ TotalSize(S) <= TotalSize(Mine(R, o))
    <3>1. Mine(Mine(R, o), o) = Mine(R, o) /\ Mine(R, o) \subseteq Pack
      BY Zenon, <1>5 DEF Mine
    <3> QED BY Zenon, <1>5, <1>63, <3>1, OwnerShrinks
  <2>3. /\ AtLeast(d, Cardinality(Mine(R, o)), MaxPacks, d.count, 1)
        /\ AtLeast(d, TotalSize(Mine(R, o)), OwnerBytes, d.bytes, Size[Oldest(d)])
    BY Zenon, <1>61, <1>8, <2>2, PackStoreAssumption DEF AtLeast
  <2>4. OwnerNeed(d, R, o)
    BY Zenon, <1>8, <1>64, <2>3 DEF OwnerNeed
  <2>5. \A p \in Pack : d.snap[p] > 0 /\ OwnerOf[p] \in d.owners => stamp[p] > 0
    BY Zenon, <1>1, <1>8, <2>0 DEF Need
  <2>6. Alone(d, stamp, sidecars, accepted)
    BY Zenon, <1>1, <1>3, <1>8 DEF Alone, Pruning
  <2> QED BY Zenon, <1>4, <1>8, <2>4, <2>5, <2>6 DEF Need, Deleting
<1>12. c.pc # "idle" /\ d.put \in {0, c.put}
  BY Zenon, <1>1, <1>8
<1> QED BY Zenon, <1>1, <1>2, <1>7, <1>9, <1>10, <1>11, <1>12, QuietStep DEF c, R, K

(* A candidate that is gone, or cannot be deleted, is passed over.           *)
LEMMA SkipStep ==
  ASSUME DataFacts, IInv, NEW q \in Proc, PruneGone(q) \/ PruneFails(q)
  PROVE  IInv'
<1> DEFINE c == proc[q]
           d == [c EXCEPT !.todo = c.todo \ {Oldest(c)}]
<1>1. proc' = [proc EXCEPT ![q] = d] /\ c.pc = "prune"
  BY Zenon DEF PruneGone, PruneFails, Become, Skipped
<1>2. UNCHANGED <<stamp, sidecars, now, up, accepted, residue, met, gcs>> /\ faults' \in 0..MaxFaults
  BY PackStoreAssumption DEF PruneGone, PruneFails, Fault, files, ghosts, IInv, TypeOK
<1>3. /\ c \in ProcState /\ Shape(c)
      /\ q = "node" => Quota(c, Rec(stamp), Rec(stamp) \ residue, up)
      /\ ~met => Alone(c, stamp, sidecars, accepted) /\ Need(c, stamp, Rec(stamp), now)
  BY Zenon, Facts
<1> DEFINE R == Rec(stamp)
           K == Rec(stamp) \ residue
<1> HIDE DEF c, R, K
<1>7. d \in ProcState
  BY Zenon, <1>3 DEF ProcState
<1>8. /\ d.pc = "prune" /\ d.pass = c.pass /\ d.todo \subseteq c.todo /\ d.snap = c.snap /\ d.put = c.put
      /\ d.bytes = c.bytes /\ d.count = c.count /\ d.owners = c.owners
  BY Zenon, <1>1, <1>3 DEF ProcState
<1> HIDE DEF d
<1>9. Shape(d)
  BY Zenon, <1>1, <1>3, <1>8 DEF Shape, Deleting, Pruning
<1>13. \A n, limit, need, x, y :
          /\ AtMost(c, n, limit, need, x) => AtMost(d, n, limit, need, y)
          /\ AtLeast(c, n, limit, need, x) => AtLeast(d, n, limit, need, y)
  BY SMTT(20), <1>1, <1>8 DEF AtMost, AtLeast
<1>10. q = "node" => Quota(d, R, K, up)
  <2> SUFFICES ASSUME q = "node" PROVE Quota(d, R, K, up)
    BY Zenon
  <2>0. Quota(c, R, K, up)
    BY Zenon, <1>3 DEF R, K
  <2>1. Aside(d) = Aside(c)
    BY Zenon, <1>1, <1>8 DEF Aside
  <2>2. ASSUME NEW o \in Owner, OwnerPass(c, R, K, o) PROVE OwnerPass(d, R, K, o)
    BY Zenon, <1>8, <1>13, <2>2 DEF OwnerPass
  <2>3. AtMost(c, TotalSize(R), StoreBytes, c.bytes, Size[Oldest(c)])
        => AtMost(d, TotalSize(R), StoreBytes, d.bytes, Size[Oldest(d)])
    BY Zenon, <1>8, <1>13
  <2> QED BY Zenon, <1>1, <1>8, <2>0, <2>1, <2>2, <2>3 DEF Quota, Pruning, Deleting
<1>11. ~met => Alone(d, stamp, sidecars, accepted) /\ Need(d, stamp, R, now)
  <2> SUFFICES ASSUME ~met PROVE Alone(d, stamp, sidecars, accepted) /\ Need(d, stamp, R, now)
    BY Zenon
  <2>0. Need(c, stamp, R, now)
    BY Zenon, <1>3 DEF R
  <2>2. ASSUME NEW o \in Owner, OwnerNeed(c, R, o) PROVE OwnerNeed(d, R, o)
    BY Zenon, <1>8, <1>13, <2>2 DEF OwnerNeed
  <2>3. AtLeast(c, TotalSize(R), StoreBytes, c.bytes, Size[Oldest(c)])
        => AtLeast(d, TotalSize(R), StoreBytes, d.bytes, Size[Oldest(d)])
    BY Zenon, <1>8, <1>13
  <2>4. Alone(d, stamp, sidecars, accepted)
    BY Zenon, <1>1, <1>3, <1>8 DEF Alone, Pruning
  <2> QED BY Zenon, <1>1, <1>8, <2>0, <2>2, <2>3, <2>4 DEF Need, Deleting
<1>12. c.pc # "idle" /\ d.put \in {0, c.put}
  BY Zenon, <1>1, <1>8
<1> QED BY Zenon, <1>1, <1>2, <1>7, <1>9, <1>10, <1>11, <1>12, QuietStep DEF c, R, K

(* A process that starts over, with the pack it publishes.                   *)
LEMMA DoingFacts ==
  ASSUME NEW p \in 0..N, NEW x \in Label, NEW y \in {"none", "expired", "owner", "global"}
  PROVE  LET d == Doing(p, x, y) IN
         /\ d \in ProcState /\ d.put = p /\ d.pc = x /\ d.pass = y
         /\ d.todo = {} /\ d.bytes = 0 /\ d.count = 0 /\ d.owners = {}
         /\ \A r \in Pack : d.snap[r] = 0
<1> DEFINE d == Doing(p, x, y)
<1>1. d \in ProcState
  BY Zenon DEF Doing, Idle, ProcState, Pack
<1>2. /\ d.put = p /\ d.pc = x /\ d.pass = y
      /\ d.todo = {} /\ d.bytes = 0 /\ d.count = 0 /\ d.owners = {}
      /\ \A r \in Pack : d.snap[r] = 0
  BY Zenon DEF Doing, Idle
<1> QED BY Zenon, <1>1, <1>2

(* A process that rests knows nothing of the files but what the others need. *)
LEMMA IdleFacts ==
  /\ Idle \in ProcState /\ Idle.put = 0 /\ Idle.pc = "idle" /\ Shape(Idle)
  /\ \A T, X, A, R, t : Alone(Idle, T, X, A) /\ Need(Idle, T, R, t)
  /\ \A R, K, u : (u => Within(K \ {0})) => Quota(Idle, R, K, u)
<1>0. Idle.put = 0 /\ Idle.pc = "idle" /\ Idle.bytes = 0 /\ Idle.count = 0
  BY Zenon DEF Idle
<1>1. Idle \in ProcState
  BY PackStoreAssumption DEF Idle, ProcState, Pack, Label
<1> HIDE DEF Idle
<1>2. Shape(Idle) /\ Aside(Idle) = {0}
  BY Zenon, <1>0 DEF Shape, Deleting, Pruning, Aside
<1>3. \A T, X, A, R, t : Alone(Idle, T, X, A) /\ Need(Idle, T, R, t)
  BY Zenon, <1>0 DEF Alone, Need, Pruning, Deleting
<1>4. \A R, K, u : (u => Within(K \ {0})) => Quota(Idle, R, K, u)
  BY Zenon, <1>0, <1>2 DEF Quota, Pruning, Deleting
<1> QED BY Zenon, <1>0, <1>1, <1>2, <1>3, <1>4

(* Everything that has expired was tried.                                    *)
LEMMA ExpiredDoneStep ==
  ASSUME DataFacts, IInv, NEW q \in Proc, ExpiredDone(q)
  PROVE  IInv'
<1> DEFINE c == proc[q]
           d == Doing(c.put, "scan", "owner")
<1>1. proc' = [proc EXCEPT ![q] = d] /\ c.pc = "prune" /\ c.pass = "expired"
  BY Zenon DEF ExpiredDone, Become
<1>2. UNCHANGED <<stamp, sidecars, now, up, accepted, residue, met, gcs>> /\ faults' \in 0..MaxFaults
  BY Zenon DEF ExpiredDone, files, ghosts, IInv, TypeOK
<1>3. /\ c \in ProcState /\ Shape(c)
      /\ q = "node" => Quota(c, Rec(stamp), Rec(stamp) \ residue, up)
      /\ ~met => Alone(c, stamp, sidecars, accepted)
  BY Zenon, Facts
<1> HIDE DEF c
<1>4. c.put \in 0..N /\ "scan" \in Label
  BY Zenon, <1>3 DEF ProcState, Label
<1>5. /\ d \in ProcState /\ d.put = c.put /\ d.pc = "scan" /\ d.pass = "owner"
      /\ d.todo = {} /\ d.bytes = 0 /\ d.count = 0 /\ \A r \in Pack : d.snap[r] = 0
  BY <1>4, DoingFacts
<1> HIDE DEF d
<1>9. Shape(d)
  BY Zenon, <1>4, <1>5, PutIsPack DEF Shape, Deleting, Pruning
<1>10. q = "node" => Quota(d, Rec(stamp), Rec(stamp) \ residue, up)
  <2>1. Aside(d) = Aside(c)
    BY Zenon, <1>1, <1>5 DEF Aside
  <2> QED BY Zenon, <1>1, <1>3, <1>5, <2>1 DEF Quota, Pruning, Deleting
<1>11. ~met => Alone(d, stamp, sidecars, accepted) /\ Need(d, stamp, Rec(stamp), now)
  BY Zenon, <1>1, <1>3, <1>5 DEF Alone, Need, Pruning, Deleting
<1>12. c.pc # "idle" /\ d.put \in {0, c.put}
  BY Zenon, <1>1, <1>5
<1> QED BY Zenon, <1>1, <1>2, <1>5, <1>9, <1>10, <1>11, <1>12, QuietStep DEF c

(* The quotas of one owner are met.                                          *)
LEMMA OwnerDoneStep ==
  ASSUME DataFacts, IInv, NEW q \in Proc, OwnerDone(q)
  PROVE  IInv'
<1> DEFINE c == proc[q]
           d == [c EXCEPT !.pc = "owners", !.todo = {}]
<1>1. proc' = [proc EXCEPT ![q] = d] /\ c.pc = "prune" /\ c.pass = "owner" /\ ~Short(c)
  BY Zenon DEF OwnerDone, Become
<1>2. UNCHANGED <<stamp, sidecars, now, up, accepted, residue, met, gcs>> /\ faults' \in 0..MaxFaults
  BY Zenon DEF OwnerDone, files, ghosts, IInv, TypeOK
<1>3. /\ c \in ProcState /\ Shape(c)
      /\ q = "node" => Quota(c, Rec(stamp), Rec(stamp) \ residue, up)
      /\ ~met => Alone(c, stamp, sidecars, accepted) /\ Need(c, stamp, Rec(stamp), now)
  BY Zenon, Facts
<1> DEFINE R == Rec(stamp)
           K == Rec(stamp) \ residue
<1>4. R \subseteq Pack /\ K \subseteq R
  BY Zenon DEF Rec
<1> HIDE DEF c, R, K
<1>5. c.bytes = 0 /\ c.count = 0
  BY <1>1, <1>3 DEF Short, ProcState
<1>7. d \in ProcState
  BY ZenonT(30), <1>3 DEF ProcState, Label
<1>8. /\ d.pc = "owners" /\ d.pass = c.pass /\ d.todo = {} /\ d.snap = c.snap /\ d.put = c.put
      /\ d.bytes = c.bytes /\ d.count = c.count /\ d.owners = c.owners
  BY Zenon, <1>1, <1>3 DEF ProcState
<1> HIDE DEF d
<1>9. Shape(d)
  BY Zenon, <1>1, <1>3, <1>5, <1>8 DEF Shape, Deleting, Pruning
<1>10. q = "node" => Quota(d, R, K, up)
  <2> SUFFICES ASSUME q = "node" PROVE Quota(d, R, K, up)
    BY Zenon
  <2>0. Quota(c, R, K, up)
    BY Zenon, <1>3 DEF R, K
  <2>1. Aside(d) = Aside(c)
    BY Zenon, <1>1, <1>8 DEF Aside
  <2>2. PICK o \in Owner : OwnerPass(c, R, K, o)
    BY Zenon, <1>1, <2>0 DEF Quota, Deleting
  <2>3. OwnerWithin(R, o)
    <3>1. Cardinality(Mine(R, o)) \in Nat /\ TotalSize(Mine(R, o)) \in Nat
      BY Zenon, <1>4, OwnerShrinks
    <3> QED BY <1>1, <1>5, <2>2, <3>1, PackStoreAssumption DEF OwnerPass, AtMost, OwnerWithin
  <2>4. OwnerWithin(K, o)
    BY ZenonT(30), <1>4, <2>3, OwnerShrinks
  <2>5. \A x \in Owner \ d.owners : OwnerWithin(K, x)
    BY Zenon, <1>8, <2>2, <2>4 DEF OwnerPass
  <2> QED BY Zenon, <1>1, <1>8, <2>0, <2>1, <2>5 DEF Quota, Pruning, Deleting
<1>11. ~met => Alone(d, stamp, sidecars, accepted) /\ Need(d, stamp, R, now)
  <2> SUFFICES ASSUME ~met PROVE Alone(d, stamp, sidecars, accepted) /\ Need(d, stamp, R, now)
    BY Zenon
  <2>0. Need(c, stamp, R, now)
    BY Zenon, <1>3 DEF R
  <2>4. Alone(d, stamp, sidecars, accepted)
    BY Zenon, <1>1, <1>3, <1>8 DEF Alone, Pruning
  <2> QED BY <1>1, <1>8, <2>0, <2>4 DEF Need, Deleting
<1>12. c.pc # "idle" /\ d.put \in {0, c.put}
  BY Zenon, <1>1, <1>8
<1> QED BY Zenon, <1>1, <1>2, <1>7, <1>9, <1>10, <1>11, <1>12, QuietStep DEF c, R, K

(* The candidates do not suffice.                                            *)
LEMMA QuotaErrorStep ==
  ASSUME DataFacts, IInv, NEW q \in Proc, QuotaError(q)
  PROVE  IInv'
<1> DEFINE c == proc[q]
           d == IF c.put = 0 THEN Idle ELSE Doing(c.put, "unsign_new", "none")
<1>1. proc' = [proc EXCEPT ![q] = d] /\ c.pc = "prune"
  BY Zenon DEF QuotaError, Become
<1>2. UNCHANGED <<stamp, sidecars, now, up, accepted, residue, met, gcs>> /\ faults' \in 0..MaxFaults
  BY Zenon DEF QuotaError, files, ghosts, IInv, TypeOK
<1>3. /\ c \in ProcState /\ Shape(c)
      /\ q = "node" => Quota(c, Rec(stamp), Rec(stamp) \ residue, up)
      /\ ~met => Alone(c, stamp, sidecars, accepted)
  BY Zenon, Facts
<1> HIDE DEF c
<1>4. CASE c.put = 0
  <2>1. d = Idle
    BY Zenon, <1>4
  <2>2. /\ d \in ProcState /\ d.put = 0 /\ Shape(d)
        /\ Alone(d, stamp, sidecars, accepted) /\ Need(d, stamp, Rec(stamp), now)
    BY Zenon, <2>1, IdleFacts
  <2>3. q = "node" => Quota(d, Rec(stamp), Rec(stamp) \ residue, up)
    <3>1. q = "node" => ~up
      BY Zenon, <1>1, <1>3, <1>4 DEF Quota, Pruning
    <3> QED BY ZenonT(30), <2>1, <3>1, IdleFacts
  <2>4. c.pc # "idle" /\ d.put \in {0, c.put}
    BY Zenon, <1>1, <2>2
  <2> HIDE DEF d
  <2> QED BY Zenon, <1>1, <1>2, <2>2, <2>3, <2>4, QuietStep DEF c
<1>5. CASE c.put # 0
  <2>1. d = Doing(c.put, "unsign_new", "none") /\ c.put \in 0..N /\ "unsign_new" \in Label
    BY Zenon, <1>3, <1>5 DEF ProcState, Label
  <2>2. /\ d \in ProcState /\ d.put = c.put /\ d.pc = "unsign_new" /\ d.pass = "none"
        /\ d.todo = {} /\ d.bytes = 0 /\ d.count = 0 /\ \A r \in Pack : d.snap[r] = 0
    BY <2>1, DoingFacts
  <2> HIDE DEF d
  <2>3. Shape(d)
    BY Zenon, <1>5, <2>1, <2>2, PutIsPack DEF Shape, Deleting, Pruning
  <2>4. q = "node" => Quota(d, Rec(stamp), Rec(stamp) \ residue, up)
    <3>1. Aside(d) = Aside(c)
      BY Zenon, <1>1, <2>2 DEF Aside
    <3> QED BY Zenon, <1>1, <1>3, <2>2, <3>1 DEF Quota, Pruning, Deleting
  <2>5. ~met => Alone(d, stamp, sidecars, accepted) /\ Need(d, stamp, Rec(stamp), now)
    BY Zenon, <1>1, <1>3, <2>2 DEF Alone, Need, Pruning, Deleting
  <2>6. c.pc # "idle" /\ d.put \in {0, c.put}
    BY Zenon, <1>1, <2>2
  <2> QED BY Zenon, <1>1, <1>2, <2>2, <2>3, <2>4, <2>5, <2>6, QuietStep DEF c
<1> QED BY Zenon, <1>4, <1>5

(* The sidecar of a pack that is there cannot be written.                    *)
LEMMA ResignFailsStep ==
  ASSUME DataFacts, IInv, ResignFails
  PROVE  IInv'
<1> DEFINE c == proc["node"]
<1>1. proc' = [proc EXCEPT !["node"] = Idle] /\ c.pc = "present"
  BY Zenon DEF ResignFails, Become
<1>2. UNCHANGED <<stamp, sidecars, now, up, accepted, residue, met, gcs>> /\ faults' \in 0..MaxFaults
  BY PackStoreAssumption DEF ResignFails, Fault, files, ghosts, IInv, TypeOK
<1>3. "node" \in Proc /\ Quota(c, Rec(stamp), Rec(stamp) \ residue, up)
  <2>1. "node" \in Proc
    BY Zenon DEF Proc
  <2> QED BY Zenon, <2>1, Facts
<1> HIDE DEF c
<1>4. up => Within((Rec(stamp) \ residue) \ {0})
  <2>1. Aside(c) = {}
    BY Zenon, <1>1 DEF Aside
  <2>2. (Rec(stamp) \ residue) \ {0} = (Rec(stamp) \ residue) \ Aside(c)
    BY <2>1 DEF Rec, Pack
  <2> QED BY Zenon, <1>3, <2>2 DEF Quota
<1>5. Quota(Idle, Rec(stamp), Rec(stamp) \ residue, up)
  BY Zenon, <1>4, IdleFacts
<1>6. c.pc # "idle" /\ Idle.put \in {0, c.put}
  BY Zenon, <1>1, IdleFacts
<1>7. Idle \in ProcState /\ Shape(Idle) /\ Alone(Idle, stamp, sidecars, accepted) /\ Need(Idle, stamp, Rec(stamp), now)
  BY Zenon, IdleFacts
<1> QED BY Zenon, <1>1, <1>2, <1>3, <1>5, <1>6, <1>7, QuietStep DEF c

(* The daemon goes on with the pack it publishes.                            *)
LEMMA MovesOn ==
  ASSUME NEW c \in ProcState, Shape(c), c.put # 0, c.pc \notin Deleting,
         NEW x \in {"reaccept", "sign", "unsign_new", "remove_new"}
  PROVE  LET d == [c EXCEPT !.pc = x] IN
         d \in ProcState /\ d.pc = x /\ d.put = c.put /\ Shape(d)
<1> DEFINE d == [c EXCEPT !.pc = x]
<1>1. d \in ProcState
  BY Zenon DEF ProcState, Label
<1>2. /\ d.pc = x /\ d.put = c.put /\ d.pass = c.pass /\ d.todo = c.todo /\ d.snap = c.snap
      /\ d.bytes = c.bytes /\ d.count = c.count
  BY Zenon DEF ProcState
<1> HIDE DEF d
<1>3. Shape(d)
  BY Zenon, <1>2 DEF Shape, Pruning, Deleting
<1> QED BY Zenon, <1>1, <1>2, <1>3 DEF d

(* The bytes or the sidecar of a new pack cannot be written.                 *)
LEMMA WriteFailsStep ==
  ASSUME DataFacts, IInv, WriteFails
  PROVE  IInv'
<1> DEFINE c == proc["node"]
           d == [c EXCEPT !.pc = "unsign_new"]
<1>1. proc' = [proc EXCEPT !["node"] = d] /\ c.pc \in {"write", "sign"}
  BY Zenon DEF WriteFails, Goto, Become
<1>2. UNCHANGED <<stamp, sidecars, now, up, accepted, residue, met, gcs>> /\ faults' \in 0..MaxFaults
  BY PackStoreAssumption DEF WriteFails, Fault, files, ghosts, IInv, TypeOK
<1>3. /\ "node" \in Proc /\ c \in ProcState /\ Shape(c) /\ Quota(c, Rec(stamp), Rec(stamp) \ residue, up)
      /\ ~met => Alone(c, stamp, sidecars, accepted)
  <2>1. "node" \in Proc
    BY Zenon DEF Proc
  <2> QED BY Zenon, <2>1, Facts
<1> HIDE DEF c
<1>4. c.put # 0 /\ c.pc \notin Deleting
  BY Zenon, <1>1, <1>3 DEF Shape, Deleting
<1>5. d \in ProcState /\ d.pc = "unsign_new" /\ d.put = c.put /\ Shape(d)
  BY Zenon, <1>3, <1>4, MovesOn
<1> HIDE DEF d
<1>6. Quota(d, Rec(stamp), Rec(stamp) \ residue, up)
  <2>1. Aside(d) = Aside(c)
    BY Zenon, <1>1, <1>5 DEF Aside
  <2> QED BY Zenon, <1>1, <1>3, <1>5, <2>1 DEF Quota, Pruning, Deleting
<1>7. ~met => Alone(d, stamp, sidecars, accepted) /\ Need(d, stamp, Rec(stamp), now)
  BY Zenon, <1>1, <1>3, <1>5 DEF Alone, Need, Pruning, Deleting
<1>8. c.pc # "idle" /\ d.put \in {0, c.put}
  BY Zenon, <1>1, <1>5
<1> QED BY Zenon, <1>1, <1>2, <1>3, <1>5, <1>6, <1>7, <1>8, QuietStep DEF c

-----------------------------------------------------------------------------
(* The bytes of a candidate are deleted.                                     *)
LEMMA PrunePackStep ==
  ASSUME DataFacts, IInv, NEW q \in Proc, PrunePack(q)
  PROVE  IInv'
<1> DEFINE c == proc[q]
           p == Oldest(c)
           d == [c EXCEPT !.pc = "prune_sidecar"]
           R == Rec(stamp)
           K == Rec(stamp) \ residue
<1>1. /\ proc' = [proc EXCEPT ![q] = d] /\ c.pc = "prune" /\ c.todo # {}
      /\ stamp[p] > 0 /\ stamp' = [stamp EXCEPT ![p] = 0]
      /\ accepted' = accepted \ {p} /\ residue' = residue \ {p}
      /\ UNCHANGED <<sidecars, now, up, met, faults, gcs>>
  BY Zenon DEF PrunePack, Goto, Become, Wanted
<1>3. /\ c \in ProcState /\ Shape(c)
      /\ q = "node" => Quota(c, R, K, up)
      /\ q = "gc" => c.put = 0
      /\ ~met => /\ accepted \subseteq R \cap sidecars
                 /\ Alone(c, stamp, sidecars, accepted) /\ Need(c, stamp, R, now)
  BY Zenon, Facts
<1>31. ~met => proc[Other(q)].pc = "idle"
  BY Zenon, <1>1, Facts
<1>4. stamp \in [Pack -> Nat] /\ accepted \subseteq Pack /\ residue \subseteq Pack /\ now \in Nat
  BY Zenon DEF IInv, TypeOK
<1> HIDE DEF c
<1>5. p \in c.todo /\ p \in Pack /\ Size[p] \in Nat
  BY Zenon, <1>1, <1>3, OldestIn, SizeOfOldest
<1>6. R \subseteq Pack /\ K \subseteq R /\ p \in R
  BY Zenon, <1>1, <1>5 DEF Rec
<1>7. Rec(stamp') = R \ {p} /\ Rec(stamp') \ residue' = K \ {p}
  BY <1>1, <1>4, <1>5 DEF Rec
<1>8. d \in ProcState
  BY Zenon, <1>3 DEF ProcState, Label
<1>9. /\ d.pc = "prune_sidecar" /\ d.pass = c.pass /\ d.todo = c.todo /\ d.snap = c.snap /\ d.put = c.put
      /\ d.bytes = c.bytes /\ d.count = c.count /\ d.owners = c.owners
  BY Zenon, <1>1, <1>3 DEF ProcState
<1>10. Oldest(d) = p
  BY Zenon, <1>9 DEF Oldest
<1> HIDE DEF d, p, R, K
<1>11. Shape(d) /\ c.put # p
  <2>1. c.put # p
    BY Zenon, <1>3, <1>5, PutIsPack DEF Shape
  <2>2. Shape(d)
    BY Zenon, <1>1, <1>3, <1>5, <1>9 DEF Shape, Deleting, Pruning
  <2> QED BY Zenon, <2>1, <2>2
<1>12. /\ c.bytes \in Nat /\ c.count \in Nat /\ c.todo \subseteq Pack
       /\ StoreBytes \in Nat /\ OwnerBytes \in Nat /\ MaxPacks \in Nat
  BY Zenon, <1>3, PackStoreAssumption DEF ProcState
<1>13. TotalSize(R) = TotalSize(R \ {p}) + Size[p] /\ TotalSize(R) \in Nat /\ TotalSize(R \ {p}) \in Nat
  BY Zenon, <1>5, <1>6, TotalAdds, TotalGrows
<1>14. ASSUME NEW o, OwnerOf[p] = o
       PROVE  /\ Cardinality(Mine(R, o)) = Cardinality(Mine(R \ {p}, o)) + 1
              /\ TotalSize(Mine(R, o)) = TotalSize(Mine(R \ {p}, o)) + Size[p]
              /\ Cardinality(Mine(R \ {p}, o)) \in Nat /\ TotalSize(Mine(R \ {p}, o)) \in Nat
  <2>1. R \in SUBSET Pack /\ R \ {p} \in SUBSET R
    BY Zenon, <1>6
  <2> QED BY Zenon, <1>6, <1>14, <2>1, MineLoses, OwnerShrinks
<1>15. q = "node" => Quota(d, R \ {p}, K \ {p}, up)
  <2> SUFFICES ASSUME q = "node" PROVE Quota(d, R \ {p}, K \ {p}, up)
    BY Zenon
  <2>0. Quota(c, R, K, up)
    BY Zenon, <1>3
  <2>1. Aside(d) = Aside(c)
    BY Zenon, <1>1, <1>9 DEF Aside
  <2>2. up => Within((K \ {p}) \ Aside(d))
    <3>1. K \ Aside(c) \in SUBSET Pack /\ (K \ {p}) \ Aside(d) \in SUBSET (K \ Aside(c))
      BY Zenon, <1>6, <2>1
    <3> QED BY Zenon, <2>0, <3>1, WithinShrinks DEF Quota
  <2>3. \A o \in Owner : OwnerWithin(K, o) => OwnerWithin(K \ {p}, o)
    BY Zenon, <1>6, OwnerShrinks
  <2>4. ASSUME NEW o \in Owner, OwnerPass(c, R, K, o) PROVE OwnerPass(d, R \ {p}, K \ {p}, o)
    <3>1. OwnerOf[p] = o
      BY Zenon, <1>5, <2>4 DEF OwnerPass, Mine
    <3>2. /\ AtMost(d, Cardinality(Mine(R \ {p}, o)), MaxPacks, d.count, 1)
          /\ AtMost(d, TotalSize(Mine(R \ {p}, o)), OwnerBytes, d.bytes, Size[p])
      BY ZenonT(30), <1>1, <1>9, <1>14, <2>4, <3>1 DEF OwnerPass, AtMost
    <3>3. \A x \in Owner \ (d.owners \cup {o}) : OwnerWithin(K \ {p}, x)
      BY Zenon, <1>9, <2>3, <2>4 DEF OwnerPass
    <3>4. d.todo \subseteq Mine(Pack, o)
      BY Zenon, <1>9, <2>4 DEF OwnerPass
    <3> QED BY Zenon, <1>10, <3>2, <3>3, <3>4 DEF OwnerPass
  <2>5. d.pass = "global" => AtMost(d, TotalSize(R \ {p}), StoreBytes, d.bytes, Size[Oldest(d)])
    BY Zenon, <1>1, <1>9, <1>10, <1>13, <2>0 DEF Quota, Deleting, AtMost
  <2>6. c.pass = "owner" => R \ {p} \subseteq {r \in Pack : d.snap[r] > 0} \cup {d.put}
    BY Zenon, <1>1, <1>9, <2>0 DEF Quota, Deleting
  <2>7. c.pass = "owner" => \E o \in Owner : OwnerPass(d, R \ {p}, K \ {p}, o)
    BY Zenon, <1>1, <2>0, <2>4 DEF Quota, Deleting
  <2> QED BY Zenon, <1>1, <1>9, <2>0, <2>2, <2>3, <2>5, <2>6, <2>7 DEF Quota, Pruning, Deleting
<1>16. q = "gc" => d.put = 0 /\ up' = up /\ Rec(stamp') \subseteq Rec(stamp)
                      /\ Rec(stamp') \ residue' \subseteq Rec(stamp) \ residue
  BY Zenon, <1>1, <1>3, <1>7, <1>9 DEF R, K
<1>17. ASSUME ~met PROVE accepted' \subseteq (R \ {p}) \cap sidecars /\ Alone(d, stamp', sidecars, accepted')
  <2>1. accepted' \subseteq (R \ {p}) \cap sidecars
    BY Zenon, <1>1, <1>3, <1>17
  <2>2. stamp'[p] = 0 /\ \A r \in Pack : r # p => stamp'[r] = stamp[r]
    BY Zenon, <1>1, <1>4, <1>5
  <2>3. c.put # 0 => c.put \in Pack
    BY Zenon, <1>3, PutIsPack
  <2> QED BY ZenonT(30), <1>1, <1>3, <1>9, <1>10, <1>11, <1>17, <2>1, <2>2, <2>3 DEF Alone, Pruning
<1>18. ASSUME ~met PROVE Need(d, stamp', R \ {p}, now)
  <2>1. stamp'[p] = 0 /\ \A r \in Pack : r # p => stamp'[r] = stamp[r]
    BY Zenon, <1>1, <1>4, <1>5
  <2>0. Need(c, stamp, R, now)
    BY Zenon, <1>3, <1>18
  <2>2. c.pass = "expired" => \A r \in d.todo : stamp'[r] < now - MaxAge
    <3> SUFFICES ASSUME c.pass = "expired", NEW r \in c.todo PROVE stamp'[r] < now - MaxAge
      BY Zenon, <1>9
    <3>1. stamp[r] < now - MaxAge /\ r \in Pack
      BY Zenon, <1>1, <1>12, <2>0 DEF Need, Deleting
    <3> QED BY <1>1, <1>4, <2>1, <3>1, PackStoreAssumption
  <2>3. ASSUME NEW o \in Owner, OwnerNeed(c, R, o) PROVE OwnerNeed(d, R \ {p}, o) /\ OwnerOf[p] \notin c.owners
    <3>1. OwnerOf[p] = o /\ o \notin c.owners
      BY Zenon, <1>5, <2>3 DEF OwnerNeed, Mine
    <3>2. /\ AtLeast(d, Cardinality(Mine(R \ {p}, o)), MaxPacks, d.count, 1)
          /\ AtLeast(d, TotalSize(Mine(R \ {p}, o)), OwnerBytes, d.bytes, Size[p])
      <4>1. /\ c.count = 0 \/ Cardinality(Mine(R, o)) >= MaxPacks + c.count
            /\ c.bytes = 0 \/ TotalSize(Mine(R, o)) >= OwnerBytes + c.bytes
        BY Zenon, <1>1, <2>3 DEF OwnerNeed, AtLeast
      <4>2. /\ d.count <= 1 \/ Cardinality(Mine(R \ {p}, o)) + 1 >= MaxPacks + d.count
            /\ d.bytes <= Size[p] \/ TotalSize(Mine(R \ {p}, o)) + Size[p] >= OwnerBytes + d.bytes
        <5>1. /\ Cardinality(Mine(R, o)) = Cardinality(Mine(R \ {p}, o)) + 1
              /\ TotalSize(Mine(R, o)) = TotalSize(Mine(R \ {p}, o)) + Size[p]
              /\ Cardinality(Mine(R \ {p}, o)) \in Nat /\ TotalSize(Mine(R \ {p}, o)) \in Nat
          BY ZenonT(30), <1>14, <3>1
        <5> QED BY <1>5, <1>9, <1>12, <4>1, <5>1
      <4> QED BY Zenon, <1>9, <4>2 DEF AtLeast
    <3> QED BY Zenon, <1>9, <1>10, <2>3, <3>1, <3>2 DEF OwnerNeed
  <2>4. d.pass = "global" => AtLeast(d, TotalSize(R \ {p}), StoreBytes, d.bytes, Size[Oldest(d)])
    BY <1>1, <1>5, <1>9, <1>10, <1>12, <1>13, <2>0 DEF Need, Deleting, AtLeast
  <2>5. c.pass = "owner" => /\ \E o \in Owner : OwnerNeed(d, R \ {p}, o)
                            /\ \A r \in Pack : d.snap[r] > 0 /\ OwnerOf[r] \in d.owners => stamp'[r] > 0
    <3> SUFFICES ASSUME c.pass = "owner"
                 PROVE  /\ \E o \in Owner : OwnerNeed(d, R \ {p}, o)
                        /\ \A r \in Pack : d.snap[r] > 0 /\ OwnerOf[r] \in d.owners => stamp'[r] > 0
      BY Zenon
    <3>1. PICK o \in Owner : OwnerNeed(c, R, o)
      BY Zenon, <1>1, <2>0 DEF Need, Deleting
    <3>2. \A r \in Pack : c.snap[r] > 0 /\ OwnerOf[r] \in c.owners => stamp[r] > 0
      BY Zenon, <1>1, <2>0 DEF Need, Deleting
    <3>3. OwnerNeed(d, R \ {p}, o) /\ OwnerOf[p] \notin c.owners
      BY Zenon, <2>3, <3>1
    <3>4. ASSUME NEW r \in Pack, d.snap[r] > 0, OwnerOf[r] \in d.owners PROVE stamp'[r] > 0
      BY Zenon, <1>9, <2>1, <3>2, <3>3, <3>4
    <3> QED BY Zenon, <3>3, <3>4
  <2> QED BY <1>9, <2>2, <2>4, <2>5 DEF Need, Deleting
<1>19. /\ stamp' \in [Pack -> Nat] /\ sidecars' \subseteq Pack /\ now' \in Nat \ {0} /\ up' \in BOOLEAN
       /\ accepted' \subseteq Pack /\ residue' \subseteq Pack /\ met' \in BOOLEAN
       /\ faults' \in 0..MaxFaults /\ gcs' \in 0..MaxGc
  BY Zenon, <1>1, <1>4 DEF IInv, TypeOK
<1>20. /\ q = "node" => Quota(d, Rec(stamp'), Rec(stamp') \ residue', up')
       /\ ~met' => /\ proc[Other(q)].pc = "idle"
                   /\ accepted' \subseteq Rec(stamp') \cap sidecars'
                   /\ Alone(d, stamp', sidecars', accepted')
                   /\ Need(d, stamp', Rec(stamp'), now')
  <2>1. sidecars' = sidecars /\ now' = now /\ up' = up /\ met' = met
    BY Zenon, <1>1
  <2> QED BY Zenon, <1>7, <1>15, <1>17, <1>18, <1>31, <2>1
<1> QED BY Zenon, <1>1, <1>8, <1>11, <1>16, <1>19, <1>20, StepKeeps DEF c

(* The sidecar of the deleted pack follows, or stays behind.                 *)
LEMMA PruneSidecarStep ==
  ASSUME DataFacts, IInv, NEW q \in Proc, NEW ok \in BOOLEAN, PruneSidecar(q, ok)
  PROVE  IInv'
<1> DEFINE c == proc[q]
           p == Oldest(c)
           bs == Monus(c.bytes, Size[p])
           ns == Monus(c.count, 1)
           d == [c EXCEPT !.pc = "prune", !.todo = c.todo \ {p}, !.bytes = bs, !.count = ns]
           R == Rec(stamp)
           K == Rec(stamp) \ residue
<1>1. /\ proc' = [proc EXCEPT ![q] = d] /\ c.pc = "prune_sidecar"
      /\ UNCHANGED <<stamp, now, up, accepted, residue, met, gcs>>
  BY Zenon DEF PruneSidecar, Become, Freed, ghosts
<1>2. sidecars \ {p} \subseteq sidecars' /\ sidecars' \subseteq sidecars /\ faults' \in 0..MaxFaults
  BY PackStoreAssumption DEF PruneSidecar, Fault, IInv, TypeOK
<1>3. /\ c \in ProcState /\ Shape(c)
      /\ q = "node" => Quota(c, R, K, up)
      /\ q = "gc" => c.put = 0
      /\ ~met => /\ accepted \subseteq R \cap sidecars
                 /\ Alone(c, stamp, sidecars, accepted) /\ Need(c, stamp, R, now)
  BY Zenon, Facts
<1>31. ~met => proc[Other(q)].pc = "idle"
  BY Zenon, <1>1, Facts
<1>4. stamp \in [Pack -> Nat] /\ accepted \subseteq Pack /\ sidecars \subseteq Pack
  BY Zenon DEF IInv, TypeOK
<1> HIDE DEF c
<1>5. p \in c.todo /\ p \in Pack /\ Size[p] \in Nat
  BY Zenon, <1>1, <1>3, OldestIn, SizeOfOldest DEF Shape
<1>6. /\ c.bytes \in Nat /\ c.count \in Nat /\ c.todo \subseteq Pack
      /\ StoreBytes \in Nat /\ OwnerBytes \in Nat /\ MaxPacks \in Nat
  BY Zenon, <1>3, PackStoreAssumption DEF ProcState
<1> HIDE DEF p
<1>7. /\ bs \in Nat /\ bs + Size[p] >= c.bytes /\ (bs = 0 \/ (c.bytes > Size[p] /\ bs + Size[p] = c.bytes))
      /\ ns \in Nat /\ ns + 1 >= c.count /\ (ns = 0 \/ (c.count > 1 /\ ns + 1 = c.count))
      /\ (c.count = 0 => ns = 0)
  BY <1>5, <1>6 DEF Monus
<1>61. R \subseteq Pack
  BY Zenon DEF Rec
<1> HIDE DEF bs, ns, R, K
<1>8. d \in ProcState
  BY Zenon, <1>3, <1>7 DEF ProcState, Label
<1>9. /\ d.pc = "prune" /\ d.pass = c.pass /\ d.todo \subseteq c.todo /\ d.snap = c.snap /\ d.put = c.put
      /\ d.bytes = bs /\ d.count = ns /\ d.owners = c.owners
  BY Zenon, <1>1, <1>3 DEF ProcState
<1> HIDE DEF d
<1>11. Shape(d) /\ c.put # p
  <2>1. c.put # p
    BY Zenon, <1>3, <1>5, PutIsPack DEF Shape
  <2>2. Shape(d)
    BY Zenon, <1>1, <1>3, <1>7, <1>9 DEF Shape, Deleting, Pruning
  <2> QED BY Zenon, <2>1, <2>2
<1>13. TotalSize(R) \in Nat
  BY Zenon, TotalGrows
<1>14. \A o : Cardinality(Mine(R, o)) \in Nat /\ TotalSize(Mine(R, o)) \in Nat
  BY Zenon, <1>61, OwnerShrinks
<1>15. q = "node" => Quota(d, R, K, up)
  <2> SUFFICES ASSUME q = "node" PROVE Quota(d, R, K, up)
    BY Zenon
  <2>0. Quota(c, R, K, up)
    BY Zenon, <1>3
  <2>1. Aside(d) = Aside(c)
    BY Zenon, <1>1, <1>9 DEF Aside
  <2>4. ASSUME NEW o \in Owner, OwnerPass(c, R, K, o) PROVE OwnerPass(d, R, K, o)
    <3>1. /\ Cardinality(Mine(R, o)) + 1 <= MaxPacks + c.count
          /\ TotalSize(Mine(R, o)) + Size[p] <= OwnerBytes + c.bytes
      BY Zenon, <1>1, <2>4 DEF OwnerPass, AtMost, p
    <3>2. /\ Cardinality(Mine(R, o)) <= MaxPacks + ns
          /\ TotalSize(Mine(R, o)) <= OwnerBytes + bs
      BY <1>5, <1>6, <1>7, <1>14, <3>1
    <3>3. /\ AtMost(d, Cardinality(Mine(R, o)), MaxPacks, d.count, 1)
          /\ AtMost(d, TotalSize(Mine(R, o)), OwnerBytes, d.bytes, Size[Oldest(d)])
      BY Zenon, <1>9, <3>2 DEF AtMost
    <3>4. d.todo \subseteq Mine(Pack, o)
      BY Zenon, <1>9, <2>4 DEF OwnerPass
    <3> QED BY Zenon, <1>9, <2>4, <3>3, <3>4 DEF OwnerPass
  <2>5. d.pass = "global" => AtMost(d, TotalSize(R), StoreBytes, d.bytes, Size[Oldest(d)])
    <3> SUFFICES ASSUME d.pass = "global" PROVE AtMost(d, TotalSize(R), StoreBytes, d.bytes, Size[Oldest(d)])
      BY Zenon
    <3>1. TotalSize(R) + Size[p] <= StoreBytes + c.bytes
      BY Zenon, <1>1, <1>9, <2>0 DEF Quota, Deleting, AtMost, p
    <3>2. TotalSize(R) <= StoreBytes + bs
      BY <1>5, <1>6, <1>7, <1>13, <3>1
    <3> QED BY Zenon, <1>9, <3>2 DEF AtMost
  <2>6. c.pass = "owner" => R \subseteq {r \in Pack : d.snap[r] > 0} \cup {d.put}
    BY Zenon, <1>1, <1>9, <2>0 DEF Quota, Deleting
  <2>7. c.pass = "owner" => \E o \in Owner : OwnerPass(d, R, K, o)
    BY Zenon, <1>1, <2>0, <2>4 DEF Quota, Deleting
  <2> QED BY Zenon, <1>1, <1>9, <2>0, <2>1, <2>5, <2>6, <2>7 DEF Quota, Pruning, Deleting
<1>17. ASSUME ~met PROVE accepted \subseteq R \cap sidecars' /\ Alone(d, stamp, sidecars', accepted)
  <2>1. stamp[p] = 0 /\ p \notin R
    BY SMTT(20), <1>1, <1>3, <1>17 DEF Alone, Rec, p, R
  <2>2. accepted \subseteq R \cap sidecars'
    BY ZenonT(30), <1>2, <1>3, <1>17, <2>1
  <2>3. c.put # 0 => c.put \in Pack
    BY Zenon, <1>3, PutIsPack
  <2> QED BY Zenon, <1>1, <1>2, <1>3, <1>9, <1>11, <1>17, <2>2, <2>3 DEF Alone, Pruning
<1>18. ASSUME ~met PROVE Need(d, stamp, R, now)
  <2>0. Need(c, stamp, R, now)
    BY Zenon, <1>3, <1>18
  <2>3. ASSUME NEW o \in Owner, OwnerNeed(c, R, o) PROVE OwnerNeed(d, R, o)
    <3>1. /\ c.count <= 1 \/ Cardinality(Mine(R, o)) + 1 >= MaxPacks + c.count
          /\ c.bytes <= Size[p] \/ TotalSize(Mine(R, o)) + Size[p] >= OwnerBytes + c.bytes
      BY Zenon, <1>1, <2>3 DEF OwnerNeed, AtLeast, p
    <3>2. /\ ns = 0 \/ Cardinality(Mine(R, o)) >= MaxPacks + ns
          /\ bs = 0 \/ TotalSize(Mine(R, o)) >= OwnerBytes + bs
      BY SMTT(20), <1>5, <1>6, <1>7, <1>14, <3>1
    <3>3. /\ AtLeast(d, Cardinality(Mine(R, o)), MaxPacks, d.count, 1)
          /\ AtLeast(d, TotalSize(Mine(R, o)), OwnerBytes, d.bytes, Size[Oldest(d)])
      BY Zenon, <1>9, <3>2 DEF AtLeast
    <3> QED BY Zenon, <1>9, <2>3, <3>3 DEF OwnerNeed
  <2>4. d.pass = "global" => AtLeast(d, TotalSize(R), StoreBytes, d.bytes, Size[Oldest(d)])
    <3> SUFFICES ASSUME d.pass = "global" PROVE AtLeast(d, TotalSize(R), StoreBytes, d.bytes, Size[Oldest(d)])
      BY Zenon
    <3>1. c.bytes <= Size[p] \/ TotalSize(R) + Size[p] >= StoreBytes + c.bytes
      BY Zenon, <1>1, <1>9, <2>0 DEF Need, Deleting, AtLeast, p
    <3>2. bs = 0 \/ TotalSize(R) >= StoreBytes + bs
      BY SMTT(20), <1>5, <1>6, <1>7, <1>13, <3>1
    <3> QED BY Zenon, <1>9, <3>2 DEF AtLeast
  <2>5. c.pass = "owner" => \E o \in Owner : OwnerNeed(d, R, o)
    BY Zenon, <1>1, <2>0, <2>3 DEF Need, Deleting
  <2> QED BY <1>1, <1>9, <2>0, <2>4, <2>5 DEF Need, Deleting
<1>19. /\ stamp' \in [Pack -> Nat] /\ sidecars' \subseteq Pack /\ now' \in Nat \ {0} /\ up' \in BOOLEAN
       /\ accepted' \subseteq Pack /\ residue' \subseteq Pack /\ met' \in BOOLEAN
       /\ faults' \in 0..MaxFaults /\ gcs' \in 0..MaxGc
  BY Zenon, <1>1, <1>2, <1>4 DEF IInv, TypeOK
<1>20. /\ stamp' = stamp /\ now' = now /\ up' = up /\ met' = met /\ accepted' = accepted /\ residue' = residue
  BY Zenon, <1>1
<1>21. q = "gc" => d.put = 0 /\ up' = up /\ Rec(stamp') \subseteq Rec(stamp)
                      /\ Rec(stamp') \ residue' \subseteq Rec(stamp) \ residue
  BY Zenon, <1>3, <1>9, <1>20
<1>22. /\ q = "node" => Quota(d, Rec(stamp'), Rec(stamp') \ residue', up')
       /\ ~met' => /\ proc[Other(q)].pc = "idle"
                   /\ accepted' \subseteq Rec(stamp') \cap sidecars'
                   /\ Alone(d, stamp', sidecars', accepted')
                   /\ Need(d, stamp', Rec(stamp'), now')
  BY Zenon, <1>15, <1>17, <1>18, <1>20, <1>31 DEF R, K
<1> QED BY Zenon, <1>1, <1>2, <1>8, <1>11, <1>19, <1>21, <1>22, StepKeeps DEF c

(* All quotas are met: the publication, the start or the run of gc ends.     *)
LEMMA StoreDoneStep ==
  ASSUME DataFacts, IInv, NEW q \in Proc, StoreDone(q)
  PROVE  IInv'
<1> DEFINE c == proc[q]
           R == Rec(stamp)
           K == Rec(stamp) \ residue
<1>1. /\ proc' = [proc EXCEPT ![q] = Idle] /\ c.pc = "prune" /\ c.pass = "global" /\ ~Short(c)
      /\ up' = (up \/ q = "node") /\ accepted' = accepted \union ({c.put} \cap Pack)
      /\ UNCHANGED <<stamp, sidecars, now, residue, met, faults, gcs>>
  BY Zenon DEF StoreDone, Become, files
<1>3. /\ c \in ProcState /\ Shape(c)
      /\ q = "node" => Quota(c, R, K, up)
      /\ q = "gc" => c.put = 0
      /\ ~met => accepted \subseteq R \cap sidecars /\ Alone(c, stamp, sidecars, accepted)
  BY Zenon, Facts
<1>31. ~met => proc[Other(q)].pc = "idle"
  BY Zenon, <1>1, Facts
<1>4. R \subseteq Pack /\ K \subseteq R /\ K \ {0} = K
  BY DEF Rec, Pack
<1> HIDE DEF c, R, K
<1>5. q = "node" => Within(K)
  <2> SUFFICES ASSUME q = "node" PROVE Within(K)
    BY Zenon
  <2>1. c.bytes = 0 /\ (\A o \in Owner : OwnerWithin(K, o)) /\ TotalSize(R) <= StoreBytes + c.bytes
    BY <1>1, <1>3 DEF Quota, Pruning, Deleting, AtMost, Short, ProcState
  <2>2. TotalSize(K) \in Nat /\ TotalSize(R) \in Nat /\ TotalSize(K) <= TotalSize(R)
    BY Zenon, <1>4, TotalGrows
  <2>3. TotalSize(K) <= StoreBytes
    BY <2>1, <2>2, PackStoreAssumption
  <2> QED BY Zenon, <2>1, <2>3 DEF Within
<1>6. q = "node" => Quota(Idle, R, K, up')
  BY ZenonT(30), <1>4, <1>5, IdleFacts
<1>7. ~met => accepted' \subseteq R \cap sidecars
  BY <1>1, <1>3, PackStoreAssumption DEF Alone, Pruning, R, Rec, Pack
<1>8. /\ Idle \in ProcState /\ Shape(Idle) /\ Idle.put = 0
      /\ Alone(Idle, stamp', sidecars', accepted') /\ Need(Idle, stamp', Rec(stamp'), now')
  BY Zenon, IdleFacts
<1>9. stamp' = stamp /\ residue' = residue /\ sidecars' = sidecars /\ met' = met
  BY Zenon, <1>1
<1>10. q = "gc" => up' = up
  BY Zenon, <1>1 DEF IInv, TypeOK
<1>19. /\ stamp' \in [Pack -> Nat] /\ sidecars' \subseteq Pack /\ now' \in Nat \ {0} /\ up' \in BOOLEAN
       /\ accepted' \subseteq Pack /\ residue' \subseteq Pack /\ met' \in BOOLEAN
       /\ faults' \in 0..MaxFaults /\ gcs' \in 0..MaxGc
  BY Zenon, <1>1 DEF IInv, TypeOK
<1>21. q = "gc" => /\ Idle.put = 0 /\ up' = up /\ Rec(stamp') \subseteq Rec(stamp)
                   /\ Rec(stamp') \ residue' \subseteq Rec(stamp) \ residue
  BY Zenon, <1>8, <1>9, <1>10
<1>22. /\ q = "node" => Quota(Idle, Rec(stamp'), Rec(stamp') \ residue', up')
       /\ ~met' => /\ proc[Other(q)].pc = "idle"
                   /\ accepted' \subseteq Rec(stamp') \cap sidecars'
  BY Zenon, <1>6, <1>7, <1>9, <1>31 DEF R, K
<1> QED BY Zenon, <1>1, <1>8, <1>19, <1>21, <1>22, StepKeeps

(* Either process dies between two steps.                                    *)
LEMMA CrashStep ==
  ASSUME DataFacts, IInv, NEW q \in Proc, Crash(q)
  PROVE  IInv'
<1>1. /\ proc' = [proc EXCEPT ![q] = Idle] /\ up' = (up /\ q # "node") /\ (q # "node" => proc[q].pc # "idle")
      /\ stamp' = stamp /\ sidecars' = sidecars /\ now' = now /\ accepted' = accepted
      /\ residue' = residue /\ met' = met /\ gcs' = gcs /\ faults' \in 0..MaxFaults
  BY PackStoreAssumption DEF Crash, Become, Fault, files, ghosts, IInv, TypeOK
<1>2. /\ stamp' \in [Pack -> Nat] /\ sidecars' \subseteq Pack /\ now' \in Nat \ {0} /\ up' \in BOOLEAN
      /\ accepted' \subseteq Pack /\ residue' \subseteq Pack /\ met' \in BOOLEAN
      /\ faults' \in 0..MaxFaults /\ gcs' \in 0..MaxGc
  BY Zenon, <1>1 DEF IInv, TypeOK
<1>3. /\ Idle \in ProcState /\ Shape(Idle) /\ Idle.put = 0 /\ Idle.pc = "idle"
      /\ Alone(Idle, stamp', sidecars', accepted') /\ Need(Idle, stamp', Rec(stamp'), now')
  BY Zenon, IdleFacts
<1>4. q = "node" => Quota(Idle, Rec(stamp'), Rec(stamp') \ residue', up')
  <2>1. q = "node" => ~up'
    BY Zenon, <1>1
  <2> QED BY Zenon, <2>1, IdleFacts
<1>5. q = "gc" => /\ Idle.put = 0 /\ up' = up /\ Rec(stamp') \subseteq Rec(stamp)
                  /\ Rec(stamp') \ residue' \subseteq Rec(stamp) \ residue
  BY Zenon, <1>1, <1>3 DEF IInv, TypeOK
<1>6. ~met' => accepted' \subseteq Rec(stamp') \cap sidecars'
  BY Zenon, <1>1, Facts
<1>7. ~met' /\ proc[q].pc # "idle" => proc[Other(q)].pc = "idle"
  BY Zenon, <1>1, Facts
<1>8. CASE proc[Other(q)].pc = "idle" \/ met'
  BY Zenon, <1>1, <1>2, <1>3, <1>4, <1>5, <1>6, <1>8, StepKeeps
<1>9. CASE proc[q].pc = "idle" /\ proc[Other(q)].pc # "idle" /\ ~met'
  <2>1. q = "node" /\ ~met
    BY Zenon, <1>1, <1>9 DEF Proc
  <2>2. /\ proc \in [Proc -> ProcState] /\ "gc" \in Proc /\ Other(q) = "gc"
        /\ proc["gc"].put = 0 /\ Shape(proc["gc"])
        /\ Alone(proc["gc"], stamp, sidecars, accepted) /\ Need(proc["gc"], stamp, Rec(stamp), now)
    <3>1. "gc" \in Proc /\ Other(q) = "gc"
      BY Zenon, <2>1 DEF Proc, Other
    <3>2. proc \in [Proc -> ProcState]
      BY Zenon DEF IInv, TypeOK
    <3> QED BY Zenon, <2>1, <3>1, <3>2, Facts
  <2>3. /\ proc' \in [Proc -> ProcState] /\ proc'["node"] = Idle /\ proc'["gc"] = proc["gc"]
        /\ \A r \in Proc : r \in {"node", "gc"}
    BY Zenon, <1>1, <1>3, <2>1, <2>2 DEF Proc
  <2>4. Records' = Rec(stamp') /\ Records = Rec(stamp)
    BY Zenon DEF Records, Rec
  <2>5. TypeOK'
    BY Zenon, <1>2, <2>2, <2>3 DEF TypeOK
  <2>6. ShapeInv'
    BY Zenon, <1>3, <2>2, <2>3 DEF ShapeInv
  <2>7. ServedInv'
    <3>1. \A r \in Proc : Alone(proc'[r], stamp', sidecars', accepted')
      BY Zenon, <1>1, <1>3, <2>2, <2>3
    <3>2. accepted' \subseteq Records' \cap sidecars'
      BY Zenon, <1>6, <1>9, <2>4
    <3> QED BY Zenon, <1>3, <2>3, <3>1, <3>2 DEF ServedInv, Listed
  <2>8. QuotaInv'
    BY Zenon, <1>4, <2>1, <2>3, <2>4 DEF QuotaInv
  <2>9. NeedInv'
    <3>1. \A r \in Proc : Need(proc'[r], stamp', Rec(stamp'), now')
      BY Zenon, <1>1, <1>3, <2>2, <2>3
    <3> QED BY Zenon, <2>4, <3>1 DEF NeedInv
  <2> QED BY Zenon, <2>5, <2>6, <2>7, <2>8, <2>9 DEF IInv
<1> QED BY Zenon, <1>7, <1>8, <1>9

(* What the invariant says of the daemon.                                    *)
LEMMA NodeFacts ==
  ASSUME IInv
  PROVE  /\ "node" \in Proc /\ proc["node"] \in ProcState /\ Shape(proc["node"])
         /\ Quota(proc["node"], Rec(stamp), Rec(stamp) \ residue, up)
         /\ ~met => accepted \subseteq Rec(stamp) \cap sidecars /\ Alone(proc["node"], stamp, sidecars, accepted)
         /\ proc["node"].put # 0 => proc["node"].put \in Pack
<1>1. "node" \in Proc
  BY Zenon DEF Proc
<1>2. /\ proc["node"] \in ProcState /\ Shape(proc["node"])
      /\ Quota(proc["node"], Rec(stamp), Rec(stamp) \ residue, up)
      /\ ~met => accepted \subseteq Rec(stamp) \cap sidecars /\ Alone(proc["node"], stamp, sidecars, accepted)
  BY ZenonT(30), <1>1, Facts
<1>3. proc["node"].put # 0 => proc["node"].put \in Pack
  BY Zenon, <1>2, PutIsPack
<1> QED BY Zenon, <1>1, <1>2, <1>3

(* A step of a publication before the first scan, or of its rollback.        *)
LEMMA PublishStep ==
  ASSUME DataFacts, IInv, proc["node"].pc # "idle", NEW d \in ProcState, proc' = [proc EXCEPT !["node"] = d],
         Shape(d), d.pc \notin Deleting \cup {"owners"}, d.pc \in Pruning => d.pass = "expired" /\ d.put # 0,
         d.put # 0 => up,
         stamp' \in [Pack -> Nat], sidecars' \subseteq Pack, accepted' \subseteq Pack, residue' \subseteq Pack,
         faults' \in 0..MaxFaults, UNCHANGED <<now, up, met, gcs>>,
         up => Within((Rec(stamp') \ residue') \ Aside(d)),
         ~met => /\ accepted' \subseteq Rec(stamp') \cap sidecars'
                 /\ Alone(d, stamp', sidecars', accepted')
  PROVE  IInv'
<1>1. "node" \in Proc /\ "node" # "gc" /\ now' \in Nat \ {0} /\ up' \in BOOLEAN /\ met' \in BOOLEAN /\ gcs' \in 0..MaxGc
  BY Zenon DEF IInv, TypeOK, Proc
<1>2. Quota(d, Rec(stamp'), Rec(stamp') \ residue', up')
  BY ZenonT(30) DEF Quota, Pruning, Deleting
<1>3. Need(d, stamp', Rec(stamp'), now')
  BY Zenon DEF Need, Deleting
<1>4. ~met' => proc[Other("node")].pc = "idle"
  BY Zenon, <1>1, Facts
<1>5. ~met' => /\ proc[Other("node")].pc = "idle"
               /\ accepted' \subseteq Rec(stamp') \cap sidecars'
               /\ Alone(d, stamp', sidecars', accepted')
               /\ Need(d, stamp', Rec(stamp'), now')
  BY Zenon, <1>3, <1>4
<1> QED BY Zenon, <1>1, <1>2, <1>5, StepKeeps

(* The sidecar of a pack that is there is written again.                     *)
LEMMA ResignStep ==
  ASSUME DataFacts, IInv, Resign
  PROVE  IInv'
<1> DEFINE c == proc["node"]
           d == [c EXCEPT !.pc = "reaccept"]
<1>1. /\ proc' = [proc EXCEPT !["node"] = d] /\ c.pc = "present" /\ sidecars' = sidecars \union {c.put}
      /\ UNCHANGED <<stamp, now, up, accepted, residue, met, faults, gcs>>
  BY Zenon DEF Resign, Goto, Become, ghosts
<1>2. /\ c \in ProcState /\ Shape(c) /\ Quota(c, Rec(stamp), Rec(stamp) \ residue, up)
      /\ ~met => accepted \subseteq Rec(stamp) \cap sidecars
      /\ c.put # 0 => c.put \in Pack
  BY Zenon, NodeFacts
<1> HIDE DEF c
<1>3. c.put # 0 /\ c.pc \notin Deleting
  BY Zenon, <1>1, <1>2 DEF Shape, Deleting
<1>4. d \in ProcState /\ d.pc = "reaccept" /\ d.put = c.put /\ Shape(d)
  BY Zenon, <1>2, <1>3, MovesOn
<1> HIDE DEF d
<1>5. /\ stamp' \in [Pack -> Nat] /\ sidecars' \subseteq Pack /\ accepted' \subseteq Pack /\ residue' \subseteq Pack
      /\ faults' \in 0..MaxFaults /\ UNCHANGED <<now, up, met, gcs>>
  BY Zenon, <1>1, <1>2, <1>3 DEF IInv, TypeOK
<1>6. up => Within((Rec(stamp') \ residue') \ Aside(d))
  BY Zenon, <1>1, <1>2, <1>4 DEF Quota, Aside
<1>7. ~met => accepted' \subseteq Rec(stamp') \cap sidecars' /\ Alone(d, stamp', sidecars', accepted')
  BY Zenon, <1>1, <1>2, <1>4 DEF Alone, Pruning
<1>8. /\ d.pc \notin Deleting \cup {"owners"} /\ d.pc \notin Pruning /\ c.pc # "idle" /\ (d.put # 0 => up)
  BY Zenon, <1>1, <1>2, <1>3, <1>4 DEF Deleting, Pruning, Quota
<1> QED BY Zenon, <1>1, <1>4, <1>5, <1>6, <1>7, <1>8, PublishStep DEF c

(* The answer for a pack that was there carries what is read back.           *)
LEMMA ReacceptStep ==
  ASSUME DataFacts, IInv, Reaccept
  PROVE  IInv'
<1> DEFINE c == proc["node"]
<1>1. /\ proc' = [proc EXCEPT !["node"] = Idle] /\ c.pc = "reaccept"
      /\ accepted' = accepted \union ({c.put} \cap (Rec(stamp) \cap sidecars))
      /\ UNCHANGED <<stamp, sidecars, now, up, residue, met, faults, gcs>>
  BY Zenon DEF Reaccept, Become, files, Listed, Records, Rec
<1>2. /\ c \in ProcState /\ Shape(c) /\ Quota(c, Rec(stamp), Rec(stamp) \ residue, up)
      /\ ~met => accepted \subseteq Rec(stamp) \cap sidecars
  BY Zenon, NodeFacts
<1> HIDE DEF c
<1>3. /\ Idle \in ProcState /\ Shape(Idle) /\ Idle.put = 0 /\ Idle.pc = "idle"
      /\ Alone(Idle, stamp', sidecars', accepted')
  BY Zenon, IdleFacts
<1>5. /\ stamp' \in [Pack -> Nat] /\ sidecars' \subseteq Pack /\ accepted' \subseteq Pack /\ residue' \subseteq Pack
      /\ faults' \in 0..MaxFaults /\ UNCHANGED <<now, up, met, gcs>>
  BY Zenon, <1>1 DEF IInv, TypeOK
<1>6. up => Within((Rec(stamp') \ residue') \ Aside(Idle))
  <2>1. Aside(c) = {} /\ Aside(Idle) = {0}
    BY Zenon, <1>1, <1>3 DEF Aside
  <2>2. (Rec(stamp') \ residue') \ Aside(Idle) = (Rec(stamp) \ residue) \ Aside(c)
    BY <1>1, <2>1 DEF Rec, Pack
  <2> QED BY Zenon, <1>2, <2>2 DEF Quota
<1>7. ~met => accepted' \subseteq Rec(stamp') \cap sidecars'
  BY Zenon, <1>1, <1>2
<1>8. /\ Idle.pc \notin Deleting \cup {"owners"} /\ Idle.pc \notin Pruning /\ c.pc # "idle" /\ (Idle.put # 0 => up)
  BY Zenon, <1>1, <1>3 DEF Deleting, Pruning
<1> QED BY Zenon, <1>1, <1>3, <1>5, <1>6, <1>7, <1>8, PublishStep DEF c

(* The bytes of a new pack are renamed into place.                           *)
LEMMA WritePackStep ==
  ASSUME DataFacts, IInv, WritePack
  PROVE  IInv'
<1> DEFINE c == proc["node"]
           d == [c EXCEPT !.pc = "sign"]
<1>1. /\ proc' = [proc EXCEPT !["node"] = d] /\ c.pc = "write" /\ stamp' = [stamp EXCEPT ![c.put] = now]
      /\ UNCHANGED <<sidecars, now, up, accepted, residue, met, faults, gcs>>
  BY Zenon DEF WritePack, Goto, Become, ghosts
<1>2. /\ c \in ProcState /\ Shape(c) /\ Quota(c, Rec(stamp), Rec(stamp) \ residue, up)
      /\ ~met => accepted \subseteq Rec(stamp) \cap sidecars /\ Alone(c, stamp, sidecars, accepted)
      /\ c.put # 0 => c.put \in Pack
  BY Zenon, NodeFacts
<1> HIDE DEF c
<1>3. c.put # 0 /\ c.pc \notin Deleting
  BY Zenon, <1>1, <1>2 DEF Shape, Deleting
<1>4. d \in ProcState /\ d.pc = "sign" /\ d.put = c.put /\ Shape(d)
  BY Zenon, <1>2, <1>3, MovesOn
<1> HIDE DEF d
<1>41. stamp \in [Pack -> Nat] /\ now \in Nat \ {0} /\ residue \subseteq Pack
  BY Zenon DEF IInv, TypeOK
<1>5. /\ stamp' \in [Pack -> Nat] /\ sidecars' \subseteq Pack /\ accepted' \subseteq Pack /\ residue' \subseteq Pack
      /\ faults' \in 0..MaxFaults /\ UNCHANGED <<now, up, met, gcs>>
  BY Zenon, <1>1, <1>41 DEF IInv, TypeOK
<1>51. Rec(stamp') = Rec(stamp) \cup {c.put} /\ stamp'[c.put] > 0
  BY <1>1, <1>2, <1>3, <1>41 DEF Rec
<1>6. up => Within((Rec(stamp') \ residue') \ Aside(d))
  <2>1. (Rec(stamp') \ residue') \ Aside(d) = (Rec(stamp) \ residue) \ Aside(c)
    BY Zenon, <1>1, <1>4, <1>51 DEF Aside
  <2> QED BY Zenon, <1>2, <2>1 DEF Quota
<1>7. ~met => accepted' \subseteq Rec(stamp') \cap sidecars' /\ Alone(d, stamp', sidecars', accepted')
  BY Zenon, <1>1, <1>2, <1>3, <1>4, <1>51 DEF Alone, Pruning
<1>8. /\ d.pc \notin Deleting \cup {"owners"} /\ d.pc \notin Pruning /\ c.pc # "idle" /\ (d.put # 0 => up)
  BY Zenon, <1>1, <1>2, <1>3, <1>4 DEF Deleting, Pruning, Quota
<1> QED BY Zenon, <1>1, <1>4, <1>5, <1>6, <1>7, <1>8, PublishStep DEF c

(* Its sidecar follows, and the passes of pruning begin.                     *)
LEMMA WriteSidecarStep ==
  ASSUME DataFacts, IInv, WriteSidecar
  PROVE  IInv'
<1> DEFINE c == proc["node"]
           d == [c EXCEPT !.pc = "scan", !.pass = "expired"]
<1>1. /\ proc' = [proc EXCEPT !["node"] = d] /\ c.pc = "sign" /\ sidecars' = sidecars \union {c.put}
      /\ UNCHANGED <<stamp, now, up, accepted, residue, met, faults, gcs>>
  BY Zenon DEF WriteSidecar, Become, ghosts
<1>2. /\ c \in ProcState /\ Shape(c) /\ Quota(c, Rec(stamp), Rec(stamp) \ residue, up)
      /\ ~met => accepted \subseteq Rec(stamp) \cap sidecars /\ Alone(c, stamp, sidecars, accepted)
      /\ c.put # 0 => c.put \in Pack
  BY Zenon, NodeFacts
<1> HIDE DEF c
<1>3. c.put # 0 /\ c.bytes = 0 /\ c.count = 0
  BY Zenon, <1>1, <1>2 DEF Shape, Deleting
<1>31. d \in ProcState
  BY Zenon, <1>2 DEF ProcState, Label
<1>32. /\ d.pc = "scan" /\ d.pass = "expired" /\ d.put = c.put /\ d.todo = c.todo /\ d.snap = c.snap
       /\ d.bytes = c.bytes /\ d.count = c.count
  BY Zenon, <1>2 DEF ProcState
<1> HIDE DEF d
<1>4. Shape(d)
  BY Zenon, <1>2, <1>3, <1>32 DEF Shape, Pruning, Deleting
<1>5. /\ stamp' \in [Pack -> Nat] /\ sidecars' \subseteq Pack /\ accepted' \subseteq Pack /\ residue' \subseteq Pack
      /\ faults' \in 0..MaxFaults /\ UNCHANGED <<now, up, met, gcs>>
  BY Zenon, <1>1, <1>2, <1>3 DEF IInv, TypeOK
<1>6. up => Within((Rec(stamp') \ residue') \ Aside(d))
  <2>1. (Rec(stamp') \ residue') \ Aside(d) = (Rec(stamp) \ residue) \ Aside(c)
    BY Zenon, <1>1, <1>32 DEF Aside
  <2> QED BY Zenon, <1>2, <2>1 DEF Quota
<1>7. ~met => accepted' \subseteq Rec(stamp') \cap sidecars' /\ Alone(d, stamp', sidecars', accepted')
  BY Zenon, <1>1, <1>2, <1>3, <1>32 DEF Alone, Pruning
<1>8. /\ d.pc \notin Deleting \cup {"owners"} /\ d.pass = "expired" /\ d.put # 0 /\ c.pc # "idle" /\ (d.put # 0 => up)
  BY Zenon, <1>1, <1>2, <1>3, <1>32 DEF Deleting, Pruning, Quota
<1> QED BY Zenon, <1>1, <1>31, <1>4, <1>5, <1>6, <1>7, <1>8, PublishStep DEF c

(* The rollback deletes the sidecar, or cannot.                              *)
LEMMA RollbackSidecarStep ==
  ASSUME DataFacts, IInv, NEW ok \in BOOLEAN, RollbackSidecar(ok)
  PROVE  IInv'
<1> DEFINE c == proc["node"]
           d == [c EXCEPT !.pc = "remove_new"]
<1>1. /\ proc' = [proc EXCEPT !["node"] = d] /\ c.pc = "unsign_new"
      /\ sidecars' \subseteq sidecars /\ sidecars \ {c.put} \subseteq sidecars'
      /\ UNCHANGED <<stamp, now, up, accepted, residue, met, gcs>> /\ faults' \in 0..MaxFaults
  BY PackStoreAssumption DEF RollbackSidecar, Goto, Become, ghosts, Fault, IInv, TypeOK
<1>2. /\ c \in ProcState /\ Shape(c) /\ Quota(c, Rec(stamp), Rec(stamp) \ residue, up)
      /\ ~met => accepted \subseteq Rec(stamp) \cap sidecars /\ Alone(c, stamp, sidecars, accepted)
  BY Zenon, NodeFacts
<1> HIDE DEF c
<1>3. c.put # 0 /\ c.pc \notin Deleting
  BY Zenon, <1>1, <1>2 DEF Shape, Deleting
<1>4. d \in ProcState /\ d.pc = "remove_new" /\ d.put = c.put /\ Shape(d)
  BY Zenon, <1>2, <1>3, MovesOn
<1> HIDE DEF d
<1>5. /\ stamp' \in [Pack -> Nat] /\ sidecars' \subseteq Pack /\ accepted' \subseteq Pack /\ residue' \subseteq Pack
      /\ faults' \in 0..MaxFaults /\ UNCHANGED <<now, up, met, gcs>>
  BY Zenon, <1>1 DEF IInv, TypeOK
<1>6. up => Within((Rec(stamp') \ residue') \ Aside(d))
  <2>1. (Rec(stamp') \ residue') \ Aside(d) = (Rec(stamp) \ residue) \ Aside(c)
    BY Zenon, <1>1, <1>4 DEF Aside
  <2> QED BY Zenon, <1>2, <2>1 DEF Quota
<1>7. ~met => accepted' \subseteq Rec(stamp') \cap sidecars' /\ Alone(d, stamp', sidecars', accepted')
  <2>1. ~met => c.put \notin accepted
    BY Zenon, <1>1, <1>2, <1>3 DEF Alone
  <2> QED BY Zenon, <1>1, <1>2, <1>4, <2>1 DEF Alone, Pruning
<1>8. /\ d.pc \notin Deleting \cup {"owners"} /\ d.pc \notin Pruning /\ c.pc # "idle" /\ (d.put # 0 => up)
  BY Zenon, <1>1, <1>2, <1>3, <1>4 DEF Deleting, Pruning, Quota
<1> QED BY Zenon, <1>1, <1>4, <1>5, <1>6, <1>7, <1>8, PublishStep DEF c

(* Then it deletes the bytes, or leaves them behind as residue.              *)
LEMMA RollbackPackStep ==
  ASSUME DataFacts, IInv, NEW ok \in BOOLEAN, RollbackPack(ok)
  PROVE  IInv'
<1> DEFINE c == proc["node"]
<1>1. /\ proc' = [proc EXCEPT !["node"] = Idle] /\ c.pc = "remove_new"
      /\ \/ stamp' = [stamp EXCEPT ![c.put] = 0] /\ residue' = residue
         \/ stamp' = stamp /\ residue' = residue \union {c.put}
      /\ UNCHANGED <<sidecars, now, up, accepted, met, gcs>> /\ faults' \in 0..MaxFaults
  BY PackStoreAssumption DEF RollbackPack, Become, Fault, IInv, TypeOK
<1>2. /\ c \in ProcState /\ Shape(c) /\ Quota(c, Rec(stamp), Rec(stamp) \ residue, up)
      /\ ~met => accepted \subseteq Rec(stamp) \cap sidecars /\ Alone(c, stamp, sidecars, accepted)
      /\ c.put # 0 => c.put \in Pack
  BY Zenon, NodeFacts
<1> HIDE DEF c
<1>3. /\ Idle \in ProcState /\ Shape(Idle) /\ Idle.put = 0 /\ Idle.pc = "idle"
      /\ Alone(Idle, stamp', sidecars', accepted')
  BY ZenonT(30), IdleFacts
<1>4. c.put \in Pack /\ c.put # 0
  BY <1>1, <1>2 DEF Shape
<1>41. stamp \in [Pack -> Nat] /\ residue \subseteq Pack
  BY Zenon DEF IInv, TypeOK
<1>5. /\ stamp' \in [Pack -> Nat] /\ sidecars' \subseteq Pack /\ accepted' \subseteq Pack /\ residue' \subseteq Pack
      /\ faults' \in 0..MaxFaults /\ UNCHANGED <<now, up, met, gcs>>
  BY <1>1, <1>4, <1>41 DEF IInv, TypeOK
<1>51. /\ Rec(stamp) \ {c.put} \subseteq Rec(stamp')
       /\ Rec(stamp') \ residue' = (Rec(stamp) \ residue) \ {c.put}
  BY <1>1, <1>4, <1>41 DEF Rec
<1>6. up => Within((Rec(stamp') \ residue') \ Aside(Idle))
  <2>1. Aside(c) = {c.put} /\ Aside(Idle) = {0}
    BY Zenon, <1>1, <1>3 DEF Aside
  <2>2. (Rec(stamp') \ residue') \ Aside(Idle) = (Rec(stamp) \ residue) \ Aside(c)
    BY <1>51, <2>1 DEF Rec, Pack
  <2> QED BY Zenon, <1>2, <2>2 DEF Quota
<1>7. ~met => accepted' \subseteq Rec(stamp') \cap sidecars'
  <2>1. ~met => c.put \notin accepted
    BY Zenon, <1>1, <1>2, <1>4 DEF Alone
  <2> QED BY Zenon, <1>1, <1>2, <1>51, <2>1
<1>8. /\ Idle.pc \notin Deleting \cup {"owners"} /\ Idle.pc \notin Pruning /\ c.pc # "idle" /\ (Idle.put # 0 => up)
  BY Zenon, <1>1, <1>3 DEF Deleting, Pruning
<1> QED BY Zenon, <1>1, <1>3, <1>5, <1>6, <1>7, <1>8, PublishStep DEF c

(* A resting process begins to work: it has met the other one if that one is *)
(* at work.                                                                  *)
LEMMA BeginStep ==
  ASSUME DataFacts, IInv, NEW q \in Proc, NEW d \in ProcState, proc' = [proc EXCEPT ![q] = d],
         UNCHANGED <<stamp, sidecars, now, up, accepted, residue, faults>>, gcs' \in 0..MaxGc,
         met' = (met \/ proc[Other(q)].pc # "idle"),
         Shape(d), d.pc \notin Deleting \cup {"owners"},
         q = "node" => Quota(d, Rec(stamp), Rec(stamp) \ residue, up), q = "gc" => d.put = 0,
         ~met => Alone(d, stamp, sidecars, accepted)
  PROVE  IInv'
<1>1. /\ stamp' = stamp /\ sidecars' = sidecars /\ now' = now /\ up' = up /\ accepted' = accepted
      /\ residue' = residue /\ (~met' => ~met)
  BY Zenon
<1>2. /\ stamp' \in [Pack -> Nat] /\ sidecars' \subseteq Pack /\ now' \in Nat \ {0} /\ up' \in BOOLEAN
      /\ accepted' \subseteq Pack /\ residue' \subseteq Pack /\ met' \in BOOLEAN
      /\ faults' \in 0..MaxFaults
  BY Zenon, <1>1 DEF IInv, TypeOK
<1>3. Need(d, stamp', Rec(stamp'), now')
  BY Zenon DEF Need, Deleting
<1>4. q = "gc" => /\ d.put = 0 /\ up' = up /\ Rec(stamp') \subseteq Rec(stamp)
                  /\ Rec(stamp') \ residue' \subseteq Rec(stamp) \ residue
  BY Zenon, <1>1
<1>5. ~met' => accepted' \subseteq Rec(stamp') \cap sidecars'
  BY Zenon, <1>1, Facts
<1>6. ~met' => /\ proc[Other(q)].pc = "idle"
               /\ accepted' \subseteq Rec(stamp') \cap sidecars'
               /\ Alone(d, stamp', sidecars', accepted')
               /\ Need(d, stamp', Rec(stamp'), now')
  BY Zenon, <1>1, <1>3, <1>5
<1>7. q = "node" => Quota(d, Rec(stamp'), Rec(stamp') \ residue', up')
  BY Zenon, <1>1
<1> QED BY Zenon, <1>2, <1>4, <1>6, <1>7, StepKeeps

(* The daemon starts to publish a pack.                                      *)
LEMMA PutStep ==
  ASSUME DataFacts, IInv, NEW p \in Pack, Put(p)
  PROVE  IInv'
<1> DEFINE c == proc["node"]
           x == IF stamp[p] > 0 THEN "present" ELSE "write"
           d == Doing(p, x, "none")
<1>1. /\ proc' = [proc EXCEPT !["node"] = d] /\ c.pc = "idle" /\ up
      /\ met' = (met \/ proc[Other("node")].pc # "idle")
      /\ UNCHANGED <<stamp, sidecars, now, up, accepted, residue, faults>> /\ gcs' \in 0..MaxGc
  BY Zenon DEF Put, Become, files, Other, IInv, TypeOK
<1>2. /\ "node" \in Proc /\ c \in ProcState /\ Shape(c) /\ Quota(c, Rec(stamp), Rec(stamp) \ residue, up)
      /\ ~met => accepted \subseteq Rec(stamp) \cap sidecars
  BY Zenon, NodeFacts
<1>3. x \in Label /\ x \in {"present", "write"} /\ p \in 0..N /\ p # 0 /\ (x = "write" => p \notin Rec(stamp))
  BY PackStoreAssumption DEF Label, Pack, Rec, IInv, TypeOK
<1> HIDE DEF c, x
<1>4. /\ d \in ProcState /\ d.put = p /\ d.pc = x /\ d.pass = "none"
      /\ d.todo = {} /\ d.bytes = 0 /\ d.count = 0 /\ \A r \in Pack : d.snap[r] = 0
  BY <1>3, DoingFacts
<1> HIDE DEF d
<1>5. Shape(d) /\ d.pc \notin Deleting \cup {"owners"} /\ d.pc \notin Pruning
  BY Zenon, <1>3, <1>4 DEF Shape, Deleting, Pruning
<1>6. Quota(d, Rec(stamp), Rec(stamp) \ residue, up)
  <2> DEFINE K == Rec(stamp) \ residue
  <2>1. Aside(c) = {0} /\ K \subseteq Pack /\ K \ Aside(d) \subseteq K \ {0} /\ K \ {0} \subseteq Pack
    BY SMTT(20), <1>1, <1>2 DEF Aside, Shape, Rec, Pack
  <2>2. Within(K \ {0})
    BY Zenon, <1>1, <1>2, <2>1 DEF Quota
  <2> HIDE DEF K
  <2>3. Within(K \ Aside(d))
    BY ZenonT(30), <2>1, <2>2, WithinShrinks
  <2> QED BY Zenon, <1>1, <1>5, <2>3 DEF Quota, Deleting, Pruning, K
<1>7. ~met => Alone(d, stamp, sidecars, accepted)
  BY Zenon, <1>2, <1>3, <1>4 DEF Alone, Pruning
<1>8. "node" # "gc"
  BY Zenon
<1> QED BY Zenon, <1>1, <1>2, <1>4, <1>5, <1>6, <1>7, <1>8, BeginStep

(* The daemon starts, or a run of gc.                                        *)
LEMMA StartStep ==
  ASSUME DataFacts, IInv, Start \/ StartGc
  PROVE  IInv'
<1> DEFINE d == Doing(0, "scan", "expired")
<1>1. PICK q \in Proc :
        /\ proc' = [proc EXCEPT ![q] = d] /\ (q = "node" => ~up)
        /\ met' = (met \/ proc[Other(q)].pc # "idle")
        /\ UNCHANGED <<stamp, sidecars, now, up, accepted, residue, faults>> /\ gcs' \in 0..MaxGc
  <2>1. CASE Start
    <3>1. /\ proc' = [proc EXCEPT !["node"] = d] /\ ~up
          /\ met' = (met \/ proc[Other("node")].pc # "idle")
          /\ UNCHANGED <<stamp, sidecars, now, up, accepted, residue, faults>> /\ gcs' \in 0..MaxGc
      BY Zenon, <2>1 DEF Start, Become, files, Other, IInv, TypeOK
    <3> HIDE DEF d
    <3> QED BY Zenon, <3>1 DEF Proc
  <2>2. CASE StartGc
    <3>1. /\ proc' = [proc EXCEPT !["gc"] = d]
          /\ met' = (met \/ proc[Other("gc")].pc # "idle")
          /\ UNCHANGED <<stamp, sidecars, now, up, accepted, residue, faults>> /\ gcs' \in 0..MaxGc
      BY <2>2, PackStoreAssumption DEF StartGc, Become, files, Other, IInv, TypeOK
    <3> HIDE DEF d
    <3> QED BY Zenon, <3>1 DEF Proc
  <2> QED BY Zenon, <2>1, <2>2
<1>2. "scan" \in Label /\ 0 \in 0..N
  BY SMTT(20), PackStoreAssumption DEF Label
<1>3. /\ d \in ProcState /\ d.put = 0 /\ d.pc = "scan" /\ d.pass = "expired"
      /\ d.todo = {} /\ d.bytes = 0 /\ d.count = 0
  BY <1>2, DoingFacts
<1> HIDE DEF d
<1>4. Shape(d) /\ d.pc \notin Deleting \cup {"owners"}
  BY Zenon, <1>3 DEF Shape, Deleting, Pruning
<1>5. q = "node" => Quota(d, Rec(stamp), Rec(stamp) \ residue, up)
  BY Zenon, <1>1, <1>3 DEF Quota, Deleting, Pruning
<1>6. Alone(d, stamp, sidecars, accepted)
  BY Zenon, <1>3 DEF Alone, Pruning
<1> QED BY Zenon, <1>1, <1>3, <1>4, <1>5, <1>6, BeginStep

(* Time passes while both rest.                                              *)
LEMMA TickStep ==
  ASSUME IInv, Tick
  PROVE  IInv'
<1>1. /\ proc' = proc /\ stamp' = stamp /\ sidecars' = sidecars /\ up' = up /\ accepted' = accepted
      /\ residue' = residue /\ met' = met /\ faults' = faults /\ gcs' = gcs
      /\ \A q \in Proc : proc[q].pc = "idle"
  BY Zenon DEF Tick, files, ghosts
<1>2. now' \in Nat \ {0}
  BY DEF Tick, IInv, TypeOK
<1>3. TypeOK'
  BY Zenon, <1>1, <1>2 DEF IInv, TypeOK
<1>4. ShapeInv' /\ ServedInv' /\ QuotaInv'
  BY ZenonT(30), <1>1 DEF IInv, ShapeInv, ServedInv, QuotaInv, Listed, Records
<1>5. NeedInv'
  BY Zenon, <1>1 DEF NeedInv, Need, Deleting
<1> QED BY Zenon, <1>3, <1>4, <1>5 DEF IInv

(* An empty store and two processes at rest satisfy the invariant.           *)
LEMMA InitIInv == Init => IInv
<1> SUFFICES ASSUME Init PROVE IInv
  BY Zenon
<1>1. \A q \in Proc : proc[q] = Idle
  BY Zenon DEF Init
<1>2. /\ Idle \in ProcState /\ Idle.put = 0 /\ Idle.pc = "idle" /\ Shape(Idle)
      /\ \A T, X, A, R, t : Alone(Idle, T, X, A) /\ Need(Idle, T, R, t)
      /\ \A R, K, u : (u => Within(K \ {0})) => Quota(Idle, R, K, u)
  BY Zenon, IdleFacts
<1> HIDE DEF Idle
<1>3. "node" \in Proc /\ "gc" \in Proc
  BY Zenon DEF Proc
<1>4. TypeOK
  <2>1. proc \in [Proc -> ProcState] /\ proc["gc"].put = 0
    BY Zenon, <1>2, <1>3 DEF Init
  <2>2. stamp \in [Pack -> Nat] /\ now \in Nat \ {0} /\ faults \in 0..MaxFaults /\ gcs \in 0..MaxGc
    BY PackStoreAssumption DEF Init
  <2> QED BY Zenon, <2>1, <2>2 DEF TypeOK, Init
<1>5. ShapeInv
  BY Zenon, <1>1, <1>2 DEF ShapeInv
<1>6. ServedInv
  <2>1. accepted \subseteq Listed
    BY Zenon DEF Init
  <2> QED BY Zenon, <1>1, <1>2, <1>3, <2>1 DEF ServedInv
<1>7. QuotaInv
  <2>1. ~up
    BY Zenon DEF Init
  <2> QED BY Zenon, <1>1, <1>2, <1>3, <2>1 DEF QuotaInv
<1>8. NeedInv
  BY Zenon, <1>1, <1>2 DEF NeedInv
<1> QED BY Zenon, <1>4, <1>5, <1>6, <1>7, <1>8 DEF IInv

(* Every step of the daemon, of gc and of the file system keeps the          *)
(* invariant.                                                                *)
LEMMA NextIInv ==
  ASSUME DataFacts
  PROVE  IInv /\ [Next]_vars => IInv'
<1> SUFFICES ASSUME IInv, [Next]_vars PROVE IInv'
  BY Zenon
<1>1. CASE Tick \/ Start \/ StartGc \/ \E p \in Pack : Put(p)
  BY Zenon, <1>1, TickStep, StartStep, PutStep
<1>2. CASE Resign \/ ResignFails \/ Reaccept
  BY Zenon, <1>2, ResignStep, ResignFailsStep, ReacceptStep
<1>3. CASE WritePack \/ WriteSidecar \/ WriteFails
  BY Zenon, <1>3, WritePackStep, WriteSidecarStep, WriteFailsStep
<1>4. CASE \E ok \in BOOLEAN : RollbackSidecar(ok) \/ RollbackPack(ok)
  BY Zenon, <1>4, RollbackSidecarStep, RollbackPackStep
<1>5. ASSUME NEW q \in Proc, ScanExpired(q) \/ ScanOwners(q) \/ ScanStore(q) \/ NextOwner(q) \/ OwnersDone(q)
      PROVE  IInv'
  BY Zenon, <1>5, ScanExpiredStep, ScanOwnersStep, ScanStoreStep, NextOwnerStep, OwnersDoneStep
<1>6. ASSUME NEW q \in Proc, ExpiredDone(q) \/ OwnerDone(q) \/ StoreDone(q) \/ QuotaError(q)
      PROVE  IInv'
  BY Zenon, <1>6, ExpiredDoneStep, OwnerDoneStep, StoreDoneStep, QuotaErrorStep
<1>7. ASSUME NEW q \in Proc, PruneGone(q) \/ PruneFails(q) \/ PrunePack(q) \/ Crash(q)
      PROVE  IInv'
  BY Zenon, <1>7, SkipStep, PrunePackStep, CrashStep
<1>8. ASSUME NEW q \in Proc, \E ok \in BOOLEAN : PruneSidecar(q, ok)
      PROVE  IInv'
  BY Zenon, <1>8, PruneSidecarStep
<1>9. CASE UNCHANGED vars
  BY Zenon, <1>9 DEF vars, IInv, TypeOK, ShapeInv, ServedInv, QuotaInv, NeedInv, Listed, Records
<1> QED BY Zenon, <1>1, <1>2, <1>3, <1>4, <1>5, <1>6, <1>7, <1>8, <1>9 DEF Next

(* The store is within its quotas when the daemon rests.                     *)
LEMMA QuotaWhenIdle ==
  ASSUME IInv
  PROVE  ServingWithinQuota
<1> SUFFICES ASSUME up, proc["node"].pc = "idle" PROVE Within(Records \ residue)
  BY Zenon DEF ServingWithinQuota
<1>1. /\ Shape(proc["node"]) /\ Quota(proc["node"], Rec(stamp), Rec(stamp) \ residue, up)
  BY Zenon, NodeFacts
<1>2. Aside(proc["node"]) = {0}
  BY Zenon, <1>1 DEF Shape, Aside
<1>3. Records \ residue = (Rec(stamp) \ residue) \ Aside(proc["node"])
  BY <1>2 DEF Records, Rec, Pack
<1> QED BY Zenon, <1>1, <1>3 DEF Quota

(* What a step of pruning deletes has expired or is over the quota.          *)
LEMMA PrunedIsNeeded ==
  ASSUME DataFacts, IInv, NEW q \in Proc, ~met, PrunePack(q)
  PROVE  Needed(q, Oldest(proc[q]))
<1> DEFINE c == proc[q]
           p == Oldest(c)
           R == Rec(stamp)
<1>1. c \in ProcState /\ Shape(c) /\ Need(c, stamp, R, now)
  BY ZenonT(30), Facts
<1>2. c.pc = "prune" /\ c.todo # {} /\ (c.pass = "expired" \/ Short(c)) /\ Records = R
  BY Zenon DEF PrunePack, Wanted, Records, Rec
<1> HIDE DEF c, R
<1>3. p \in c.todo
  BY ZenonT(30), <1>1, <1>2, OldestIn
<1> HIDE DEF p
<1>4. c.bytes \in Nat /\ c.count \in Nat /\ StoreBytes \in Nat /\ OwnerBytes \in Nat /\ MaxPacks \in Nat
  BY Zenon, <1>1, PackStoreAssumption DEF ProcState
<1>5. TotalSize(R) \in Nat /\ \A o : Cardinality(Mine(R, o)) \in Nat /\ TotalSize(Mine(R, o)) \in Nat
  <2>1. R \subseteq Pack
    BY Zenon DEF R, Rec
  <2> QED BY Zenon, <2>1, TotalGrows, OwnerShrinks
<1>6. c.pass = "expired" => stamp[p] < now - MaxAge
  BY <1>1, <1>2, <1>3 DEF Need, Deleting
<1>7. ASSUME c.pass = "owner" PROVE ~OwnerWithin(R, OwnerOf[p])
  <2>1. PICK o \in Owner : OwnerNeed(c, R, o)
    BY Zenon, <1>1, <1>2, <1>7 DEF Need, Deleting
  <2>2. OwnerOf[p] = o
    BY Zenon, <1>3, <2>1 DEF OwnerNeed, Mine
  <2>3. /\ c.count = 0 \/ Cardinality(Mine(R, o)) >= MaxPacks + c.count
        /\ c.bytes = 0 \/ TotalSize(Mine(R, o)) >= OwnerBytes + c.bytes
    BY Zenon, <1>2, <2>1 DEF OwnerNeed, AtLeast
  <2>4. c.count > 0 \/ c.bytes > 0
    BY <1>2, <1>4, <1>7 DEF Short
  <2>5. Cardinality(Mine(R, o)) > MaxPacks \/ TotalSize(Mine(R, o)) > OwnerBytes
    BY <1>4, <1>5, <2>3, <2>4
  <2>6. ~OwnerWithin(R, o)
    BY <1>4, <1>5, <2>5 DEF OwnerWithin
  <2> QED BY ZenonT(30), <2>2, <2>6
<1>8. ASSUME c.pass = "global" PROVE TotalSize(R) > StoreBytes
  <2>1. c.count = 0 /\ (c.bytes = 0 \/ TotalSize(R) >= StoreBytes + c.bytes)
    BY <1>1, <1>2, <1>8 DEF Need, Shape, Deleting, Pruning, AtLeast
  <2> QED BY SMTT(20), <1>2, <1>4, <1>5, <1>8, <2>1 DEF Short
<1> QED BY Zenon, <1>2, <1>6, <1>7, <1>8 DEF Needed, c, p

-----------------------------------------------------------------------------
(* The library, and what it says of the sets and numbers above.              *)
F == INSTANCE FiniteSetTheorems

(* The library's cardinality is the one of the store.                        *)
LEMMA SameCardinality ==
  /\ \A S : F!IsFiniteSet(S) = IsFiniteSet(S)
  /\ \A S : F!Cardinality(S) = Cardinality(S)
<1>1. \A S : F!IsFiniteSet(S) = IsFiniteSet(S)
  BY Zenon DEF F!IsFiniteSet, IsFiniteSet
<1>2. \A S : F!Cardinality(S) = Cardinality(S)
  BY Zenon DEF F!Cardinality, Cardinality
<1> QED BY Zenon, <1>1, <1>2

(* Every set of numbers that is not empty has a least one.                   *)
LEMMA LeastHolds == Least
<1> SUFFICES ASSUME NEW S \in SUBSET Nat, S # {} PROVE \E m \in S : \A y \in S : m <= y
  BY Zenon DEF Least
<1> DEFINE R == F!OpToRel(<, Nat)
<1>1. PICK m \in S : \A y \in S : ~ (<<y, m>> \in R)
  <2>1. F!IsWellFoundedOn(R, Nat)
    BY Zenon, F!NatLessThanWellFounded
  <2> HIDE DEF R
  <2> QED BY Zenon, <2>1, F!WFMin
<1>2. \A u, t \in Nat : u < t => <<u, t>> \in R
  BY Zenon DEF F!OpToRel
<1> HIDE DEF R
<1>3. \A y \in S : ~(y < m)
  BY Zenon, <1>1, <1>2
<1> HIDE <1>1
<1>4. \A y \in S : m <= y
  BY <1>3
<1> QED BY Zenon, <1>4

(* A number outside of the set would have a least one, and its predecessor   *)
(* would be inside.                                                          *)
LEMMA InductionHolds == Induction
<1> SUFFICES ASSUME NEW S, 0 \in S, \A n \in Nat : n \in S => n + 1 \in S,
                    NEW k \in Nat, k \notin S
             PROVE  FALSE
  BY Zenon DEF Induction
<1> DEFINE T == {n \in Nat : n \notin S}
<1>1. T \in SUBSET Nat /\ T # {}
  BY Zenon
<1>2. PICK m \in T : \A y \in T : m <= y
  <2> HIDE DEF T
  <2> QED BY Zenon, <1>1, LeastHolds DEF Least
<1>3. m \in Nat /\ m \notin S /\ m # 0
  BY Zenon, <1>2
<1>4. m - 1 \in Nat /\ ~(m <= m - 1) /\ (m - 1) + 1 = m
  BY <1>3
<1>5. m - 1 \in S
  BY Zenon, <1>2, <1>4
<1> QED BY Zenon, <1>3, <1>4, <1>5

(* The packs are finitely many.                                              *)
LEMMA CountingHolds == Counting
<1>1. F!IsFiniteSet(Pack)
  <2>1. 1 \in Int /\ N \in Int
    BY PackStoreAssumption
  <2> QED BY Zenon, <2>1, F!FS_Interval DEF Pack
<1>2. ASSUME NEW T \in SUBSET Pack PROVE F!IsFiniteSet(T)
  BY Zenon, <1>1, F!FS_Subset
<1>3. Cardinality({}) = 0
  BY Zenon, F!FS_EmptySet, SameCardinality
<1>4. ASSUME NEW T \in SUBSET Pack PROVE Cardinality(T) \in Nat
  BY Zenon, <1>2, F!FS_CardinalityType, SameCardinality
<1>5. ASSUME NEW T \in SUBSET Pack, NEW S \in SUBSET T PROVE Cardinality(S) <= Cardinality(T)
  BY Zenon, <1>2, F!FS_Subset, SameCardinality
<1>6. ASSUME NEW T \in SUBSET Pack, NEW p \in T PROVE Cardinality(T) = Cardinality(T \ {p}) + 1
  <2>1. Cardinality(T \ {p}) = Cardinality(T) - 1
    BY Zenon, <1>2, F!FS_RemoveElement, SameCardinality
  <2> QED BY <1>4, <2>1
<1> QED BY Zenon, <1>3, <1>4, <1>5, <1>6 DEF Counting

(* The facts the lemmas assume.                                              *)
LEMMA DataFactsHold == DataFacts
  BY Zenon, InductionHolds, LeastHolds, CountingHolds DEF DataFacts

-----------------------------------------------------------------------------
(* The inductive invariant holds of every store, for every number of packs   *)
(* and owners and all quotas.                                                *)
THEOREM Invariance == Spec => []IInv
<1>1. Init => IInv
  BY Zenon, InitIInv
<1>2. IInv /\ [Next]_vars => IInv'
  BY Zenon, NextIInv, DataFactsHold
<1> QED BY <1>1, <1>2, PTL DEF Spec

(* The store is well typed.                                                  *)
THEOREM Typing == Spec => []TypeOK
<1>1. IInv => TypeOK
  BY Zenon DEF IInv
<1> QED BY <1>1, Invariance, PTL

(* A pack answered as kept is served, with bytes and signature, until        *)
(* pruning deletes it, as long as gc does not meet the daemon at work:       *)
(* publication writes the sidecar last and its rollback deletes only what    *)
(* was never answered for.                                                   *)
THEOREM AcceptedIsServed == Spec => []AcceptedServed
<1>1. IInv => AcceptedServed
  BY Zenon DEF IInv, ServedInv, AcceptedServed
<1> QED BY <1>1, Invariance, PTL

(* While the daemon serves and rests, every owner and the whole store are    *)
(* within the quotas, whatever crashes, failed deletions and runs of gc      *)
(* came before: what a pass still has to free is never less than what is     *)
(* there beyond the quota.                                                   *)
THEOREM ServesWithinQuota == Spec => []ServingWithinQuota
<1>1. IInv => ServingWithinQuota
  BY Zenon, QuotaWhenIdle
<1> QED BY <1>1, Invariance, PTL

(* Pruning deletes a pack only when it has expired or the quota of the       *)
(* running pass is exceeded at that moment: what a pass still has to free is *)
(* never more than what is there beyond the quota.                           *)
THEOREM NoLossWithoutNeed == Spec => NoNeedlessLoss
<1> DEFINE A == \A q \in Proc : ~met /\ PrunePack(q) => Needed(q, Oldest(proc[q]))
<1>1. IInv => A
  BY Zenon, PrunedIsNeeded, DataFactsHold
<1>2. IInv => [A]_vars
  BY Zenon, <1>1
<1> QED BY <1>2, Invariance, PTL DEF NoNeedlessLoss

=============================================================================
