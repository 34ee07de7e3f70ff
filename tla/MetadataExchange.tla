--------------------------- MODULE MetadataExchange ---------------------------
(***************************************************************************)
(* The catalogue and its exchange format.  Captures, pushes, verifications  *)
(* and erasure coding write rows; an export turns the rows into a graph of  *)
(* canonical objects; after the loss of the catalogue an import rebuilds    *)
(* the rows from the graph.  Import refuses a graph that breaks a rule of   *)
(* the object models or of the semantic validation, and export refuses rows *)
(* that cannot be such objects, so every writer of rows is under those rules *)
(* without knowing them.                                                    *)
(*                                                                         *)
(* An object is identified by the digest of its canonical bytes: here a     *)
(* reference is the object itself.  Lists that the models want sorted and    *)
(* without repetition are sets.  A path is the sequence of its names; the    *)
(* root of a capture, stored as ".", is the empty one.                       *)
(***************************************************************************)
EXTENDS Integers, Sequences, SequencesExt, FiniteSets, FiniteSetsExt, Functions, TLC

CONSTANTS
    Chunk,        \* the chunks
    Size,         \* Size[c]: the bytes of c
    Prefix,       \* Prefix[c]: the first characters of the hash of c
    Trees,        \* the directory trees a capture may meet: [path -> the type and the st_mtime_ns]
    Contents,     \* the sequences of chunks a file may have
    Vault,        \* the identifiers of vaults
    Uuid,         \* the identifiers of snapshots
    Seconds,      \* the values of CURRENT_TIMESTAMP, in any order: the clock may step
    EcSpec,       \* the pair <<ec_k, ec_m>>
    Node,         \* the nodes that may hold shards
    States,       \* the protection states pushes and verifications write
    Rf, DefaultRf,  \* the copies captures and imports ask for
    MaxLosses,    \* bound: the losses of the catalogue
    MaxAfter,     \* bound: the commits that follow a loss
    MaxLive,      \* bound: the captures that run at a time
    MaxWork       \* bound: the commits of pushes, verifications and erasure coding

NoVault == "none"
NoRecipe == <<"none">>
Root == <<>>
Absent == [t |-> "none"]

ASSUME ExchangeAssumption ==
    /\ \A c \in Chunk : Size[c] \in Nat \ {0}
    /\ \A f \in Trees : f[Root].type = "dir" /\ \A p \in DOMAIN f \ {Root} : f[Front(p)].type = "dir"
    /\ \A r \in Contents : ToSet(r) \subseteq Chunk
    /\ EcSpec[1] \in Nat \ {0} /\ EcSpec[2] \in Nat /\ {Rf, DefaultRf, MaxLosses, MaxAfter, MaxLive, MaxWork} \subseteq Nat

VARIABLES
    db,        \* the catalogue: its tables
    latest,    \* the graph the object store has as its latest, or Absent
    live,      \* the snapshots whose capture is still running
    source,    \* the rows latest was exported from (history)
    origin,    \* "import" or "bare" while the rows are as an import, with or without
               \* protection, has left them; else "own" (history)
    losses,    \* the losses of the catalogue so far
    after,     \* the commits since the latest loss
    work       \* the commits of pushes, verifications and erasure coding so far

vars == <<db, latest, live, source, origin, losses, after, work>>

(* _init_db: the tables of a new catalogue                                  *)
EmptyDb == [vault |-> NoVault, snapshots |-> <<>>, items |-> <<>>, recipes |-> {},
            chunks |-> {}, protection |-> <<>>, packs |-> <<>>]

Init ==
    /\ db = EmptyDb /\ latest = Absent /\ live = {} /\ source = EmptyDb /\ origin = "own"
    /\ losses = 0 /\ after = 0 /\ work = 0

(* a committed transaction of a command.  Between an export and the loss that
   follows it there is none: the loss would undo it.                         *)
Commit(d) ==
    /\ latest = Absent \/ (losses > 0 /\ after < MaxAfter)
    /\ after' = IF latest = Absent THEN 0 ELSE after + 1
    /\ db' = d /\ d # db /\ origin' = "own" /\ UNCHANGED <<latest, source, losses>>
Work == work < MaxWork /\ work' = work + 1 /\ UNCHANGED live

Bytes(r) == FoldSeq(LAMBDA c, n : n + Size[c], 0, r)

-----------------------------------------------------------------------------
(* The writers of rows: MetadataDB as captures, pushes and verifications use
   it.                                                                       *)

Used == {db.snapshots[i].uuid : i \in DOMAIN db.snapshots}

(* create_snapshot: the row has the next id                                 *)
CreateSnapshot(u, s) ==
    /\ u \notin Used /\ Cardinality(live) < MaxLive /\ UNCHANGED work
    /\ live' = live \cup {Len(db.snapshots) + 1}
    /\ Commit([db EXCEPT !.snapshots = Append(@, [uuid |-> u, created |-> s, status |-> "CREATING",
                                                  error |-> FALSE, files |-> 0]),
                         !.items = Append(@, <<>>)])

(* TreeWalker.walk: the root, and every entry below a directory it emitted  *)
Walked(f) == [p \in DOMAIN f |-> [type |-> f[p].type, mtime |-> f[p].mtime, ctime |-> TRUE, recipe |-> NoRecipe]]

(* add_items                                                                *)
AddItems(i, rows) ==
    /\ i \in live /\ db.items[i] = <<>>
    /\ UNCHANGED <<live, work>>
    /\ Commit([db EXCEPT !.items[i] = rows])

(* _register_chunks                                                         *)
RegisterChunks(d, r) == [d EXCEPT !.chunks = @ \cup ToSet(r)]

(* _ensure_recipe_protection: rows for chunks that have none; a larger wish
   degrades what was enough for a smaller one                                *)
Raised(row) == IF row.rf >= Rf THEN row
               ELSE [row EXCEPT !.rf = Rf, !.state = IF @ \in {"PLACED", "VERIFIED"} THEN "DEGRADED" ELSE @]
Pending(rf) == [rf |-> rf, state |-> "PENDING"]
EnsureNothing(d, r) == d
EnsureRecipeProtection(d, r) ==
    [d EXCEPT !.protection = [c \in DOMAIN @ \cup ToSet(r) |->
        IF c \notin DOMAIN @ THEN Pending(Rf) ELSE IF c \in ToSet(r) THEN Raised(@[c]) ELSE @[c]]]

(* _get_or_create_recipe: a recipe is its sequence of chunks                *)
GetOrCreateRecipe(d, r) ==
    EnsureRecipeProtection(RegisterChunks([d EXCEPT !.recipes = @ \cup {r}], r), r)

(* consolidate_item_recipe, one transaction                                 *)
ConsolidateItemRecipe(i, p, r) ==
    /\ i \in live /\ UNCHANGED <<live, work>> /\ p \in DOMAIN db.items[i]
    /\ db.items[i][p].type = "file" /\ db.items[i][p].recipe = NoRecipe
    /\ Commit([GetOrCreateRecipe(db, r) EXCEPT !.items[i][p].recipe = r])

Files(rows) == {p \in DOMAIN rows : rows[p].type = "file"}

(* finish_snapshot: no file without a recipe                                *)
FinishSnapshot(i) ==
    /\ i \in live /\ db.items[i] # <<>> /\ live' = live \ {i} /\ UNCHANGED work
    /\ \A p \in Files(db.items[i]) : db.items[i][p].recipe # NoRecipe
    /\ Commit([db EXCEPT !.snapshots[i].status = "COMPLETE", !.snapshots[i].files = Cardinality(Files(db.items[i]))])

(* fail_snapshot                                                            *)
FailSnapshot(i) ==
    /\ i \in live /\ live' = live \ {i} /\ UNCHANGED work
    /\ Commit([db EXCEPT !.snapshots[i].status = "FAILED", !.snapshots[i].error = TRUE])

(* the process of a capture dies: the row stays as it is                     *)
Interrupt(i) ==
    /\ live' = live \ {i}
    /\ UNCHANGED <<db, latest, source, origin, losses, after, work>>

(* apply_chunk_push_updates, apply_chunk_verification_updates: what a command
   found for a chunk that has a row                                         *)
UpdateProtection(c, s) ==
    /\ Work /\ c \in DOMAIN db.protection
    /\ Commit([db EXCEPT !.protection[c].state = s])

(* _normalize_erasure_chunk_rows: contiguous ranges, in the order of the pack *)
ChunkRows(p) == [j \in DOMAIN p |-> [chunk |-> p[j], offset |-> Bytes(SubSeq(p, 1, j - 1)), length |-> Size[p[j]]]]

(* _normalize_erasure_shard_rows: every index, on nodes that differ          *)
ShardRows(at, s) == [j \in 1..Len(at) |-> [node |-> at[j], state |-> s]]
Placements == {at \in [1..EcSpec[1] + EcSpec[2] -> Node] : IsInjective(at)}

CeilDiv(a, b) == (a + b - 1) \div b

(* register_erasure_data_pack, _insert_erasure_data_pack_once,
   _insert_erasure_pack_chunks_once: a chunk is in one pack                  *)
Packed(d) == UNION {ToSet(p) : p \in DOMAIN d.packs}
RegisterOverlapping(p, at) ==
    /\ Work /\ p # <<>> /\ p \notin DOMAIN db.packs /\ IsInjective(p) /\ ToSet(p) \subseteq db.chunks
    /\ Commit([db EXCEPT !.packs = @ @@ (p :>
         [spec |-> EcSpec, payload |-> Bytes(p), shardSize |-> CeilDiv(Bytes(p), EcSpec[1]),
          padded |-> EcSpec[1] * CeilDiv(Bytes(p), EcSpec[1]), state |-> "PENDING",
          chunks |-> ChunkRows(p), shards |-> ShardRows(at, "PENDING")])])
RegisterErasureDataPack(p, at) ==
    /\ Work /\ p # <<>> /\ p \notin DOMAIN db.packs /\ IsInjective(p) /\ ToSet(p) \subseteq db.chunks
    /\ ToSet(p) \cap Packed(db) = {}
    /\ Commit([db EXCEPT !.packs = @ @@ (p :>
         [spec |-> EcSpec, payload |-> Bytes(p), shardSize |-> CeilDiv(Bytes(p), EcSpec[1]),
          padded |-> EcSpec[1] * CeilDiv(Bytes(p), EcSpec[1]), state |-> "PENDING",
          chunks |-> ChunkRows(p), shards |-> ShardRows(at, "PENDING")])])

(* _apply_erasure_data_pack_push_update: state, and the new nodes of all
   shards (_upsert_erasure_pack_shards_for_push)                            *)
UpdateErasureDataPack(p, s, at) ==
    /\ Work /\ p \in DOMAIN db.packs
    /\ Commit([db EXCEPT !.packs[p].state = s, !.packs[p].shards = ShardRows(at, s)])

(* _apply_erasure_data_pack_verification_update: the shards seen, the others *)
VerdictOf(S) ==
    CASE Cardinality(S) = EcSpec[1] + EcSpec[2] -> "VERIFIED"
      [] Cardinality(S) \in EcSpec[1]..EcSpec[1] + EcSpec[2] - 1 -> "DEGRADED"
      [] OTHER -> "FAILED"
VerifyErasureDataPack(p, S) ==
    /\ Work /\ p \in DOMAIN db.packs
    /\ Commit([db EXCEPT !.packs[p].state = VerdictOf(S),
                         !.packs[p].shards = [j \in DOMAIN @ |->
                            [@[j] EXCEPT !.state = CASE j \in S -> "VERIFIED"
                                                     [] VerdictOf(S) = "FAILED" -> "FAILED"
                                                     [] OTHER -> "DEGRADED"]]])

(* get_or_create_vault_id: an identifier that was never used                 *)
GetOrCreateVaultId(v) ==
    /\ db.vault = NoVault /\ latest # Absent => v # latest.vault
    /\ UNCHANGED <<live, work>> /\ Commit([db EXCEPT !.vault = v])

-----------------------------------------------------------------------------
(* The object models, as the rules their __post_init__ enforces, and the
   exporter that builds them.                                               *)

ProtectionStates == {"PENDING", "PLACED", "VERIFIED", "DEGRADED", "FAILED"}

(* ChunkListObject, RecipeObject, FileObject: the recipe hash is the sequence *)
ChunkListObject(r) == [t |-> "chunk_list", chunks |-> [j \in DOMAIN r |-> [chunk |-> r[j], size |-> Size[r[j]]]]]
RecipeObject(r) == [t |-> "recipe", hash |-> r, count |-> Len(r), size |-> Bytes(r), list |-> ChunkListObject(r)]
FileObject(r) == [t |-> "file", hash |-> r, recipe |-> RecipeObject(r)]

(* _tree_entry_from_row: no ctime_ns                                        *)
TreeEntry(n, row, o) == [name |-> n, type |-> row.type, mtime |-> row.mtime, ref |-> o]

Children(rows, p) == {q \in DOMAIN rows \ {Root} : Front(q) = p}

(* _export_snapshot_tree, _emit_tree: the entries of the directory p          *)
RECURSIVE EmitTree(_, _)
EmitTree(rows, p) ==
    [t |-> "tree", entries |-> {TreeEntry(Last(q), rows[q],
        IF rows[q].type = "dir" THEN EmitTree(rows, q) ELSE FileObject(rows[q].recipe)) : q \in Children(rows, p)}]

(* what keeps _export_snapshot_tree from raising: a row for every directory
   on the way, a recipe for every file                                      *)
TreeExportable(rows) ==
    /\ \A p \in Files(rows) : rows[p].recipe # NoRecipe
    /\ \A p \in DOMAIN rows \ {Root} : Front(p) = Root \/ Front(p) \in DOMAIN rows

(* SnapshotIndexEntry and SnapshotRootObject repeat the columns of the row    *)
SnapshotRoot(row, rows) == [t |-> "snapshot_root", row |-> row, tree |-> EmitTree(rows, Root)]
IndexEntry(d, i) ==
    [row |-> d.snapshots[i],
     root |-> IF d.snapshots[i].status = "COMPLETE" THEN SnapshotRoot(d.snapshots[i], d.items[i]) ELSE Absent]

(* object_export_snapshot_rows: by created_at and uuid                        *)
Before(a, b) ==
    \/ a.row.created < b.row.created
    \/ a.row.created = b.row.created /\ a.row.uuid < b.row.uuid
SnapshotIndex(d) ==
    [t |-> "snapshot_index",
     snapshots |-> SetToSortSeq({IndexEntry(d, i) : i \in DOMAIN d.snapshots}, Before)]

PrefixOf(r) == Prefix[r.chunk]
PackPrefix(r) == Prefix[Head(r.pack)]
RecordPrefix(kind, r) == IF kind = "erasure_data_pack" THEN PackPrefix(r) ELSE PrefixOf(r)

(* the records of an index, in shards by the prefix of their hash             *)
Shard(kind, x, R) == [t |-> "shard", kind |-> kind, prefix |-> x, count |-> Cardinality(R), records |-> R]
Sharded(kind, R) ==
    {Shard(kind, x, {r \in R : RecordPrefix(kind, r) = x}) : x \in {RecordPrefix(kind, r) : r \in R}}
Index(kind, R) == [t |-> "index", kind |-> kind, shards |-> Sharded(kind, R), total |-> Cardinality(R)]

KnownChunkIndex(d) == Index("known_chunk", {[chunk |-> c, size |-> Size[c]] : c \in d.chunks})
ProtectionIndex(d) ==
    Index("protection", {[chunk |-> c, row |-> d.protection[c]] : c \in DOMAIN d.protection})
ErasureDataPackIndex(d) ==
    Index("erasure_data_pack", {[pack |-> p, row |-> d.packs[p]] : p \in DOMAIN d.packs})

(* export_current_state: the catalogue object, counters and all              *)
Export(d, protected) ==
    [t |-> "catalog", vault |-> d.vault, snapshots |-> SnapshotIndex(d), snapshotCount |-> Len(d.snapshots),
     known |-> KnownChunkIndex(d), knownCount |-> Cardinality(d.chunks),
     protection |-> IF protected THEN ProtectionIndex(d) ELSE Absent,
     protectionCount |-> IF protected THEN Cardinality(DOMAIN d.protection) ELSE 0,
     packs |-> IF protected THEN ErasureDataPackIndex(d) ELSE Absent,
     packCount |-> IF protected THEN Cardinality(DOMAIN d.packs) ELSE 0]

(* the rules of the models: TreeEntry, TreeObject                            *)
RECURSIVE TreeOk(_)
TreeOk(o) ==
    /\ Cardinality({e.name : e \in o.entries}) = Cardinality(o.entries)
    /\ \A e \in o.entries :
          /\ e.mtime >= 0 /\ e.ref.t = (IF e.type = "file" THEN "file" ELSE "tree")
          /\ e.type = "dir" => TreeOk(e.ref)

(* SnapshotIndexObject and its entries                                       *)
SnapshotIndexOk(o) ==
    /\ \A i \in 1..Len(o.snapshots) - 1 : Before(o.snapshots[i], o.snapshots[i + 1])
    /\ \A i, j \in DOMAIN o.snapshots : i # j => o.snapshots[i].row.uuid # o.snapshots[j].row.uuid
    /\ \A i \in DOMAIN o.snapshots :
          /\ o.snapshots[i].row.status = "COMPLETE" => o.snapshots[i].root # Absent
          /\ o.snapshots[i].root # Absent => TreeOk(o.snapshots[i].root.tree)

(* the shards of an index and what the index says of them                    *)
IndexOk(ix) ==
    /\ ix.total = FoldSet(LAMBDA h, n : n + h.count, 0, ix.shards)
    /\ \A h \in ix.shards : \A r \in h.records : RecordPrefix(ix.kind, r) = h.prefix
    /\ \A h1, h2 \in ix.shards : h1.prefix = h2.prefix => h1 = h2
Records(ix) == UNION {h.records : h \in ix.shards}

(* ErasureDataPackRecordObject and its chunks and placements                 *)
PackRecordOk(r) ==
    LET row == r.row IN
    /\ row.padded = row.shardSize * row.spec[1] /\ row.payload <= row.padded /\ row.shardSize >= 1
    /\ row.chunks # <<>> /\ row.state \in ProtectionStates
    /\ \A j \in DOMAIN row.chunks :
          row.chunks[j].offset = (IF j = 1 THEN 0 ELSE row.chunks[j - 1].offset + row.chunks[j - 1].length)
    /\ Last(row.chunks).offset + Last(row.chunks).length = row.payload
    /\ \A i, j \in DOMAIN row.chunks : i # j => row.chunks[i].chunk # row.chunks[j].chunk
    /\ DOMAIN row.shards = 1..row.spec[1] + row.spec[2]
    /\ \A i, j \in DOMAIN row.shards : i # j => row.shards[i].node # row.shards[j].node

(* ProtectionRecordObject                                                    *)
ProtectionRecordOk(r) == r.row.rf >= 0 /\ r.row.state \in ProtectionStates

(* decode_metadata_object_payload, for every object of the graph             *)
WellFormed(g) ==
    /\ SnapshotIndexOk(g.snapshots) /\ IndexOk(g.known)
    /\ g.protection # Absent => IndexOk(g.protection) /\ \A r \in Records(g.protection) : ProtectionRecordOk(r)
    /\ g.packs # Absent => IndexOk(g.packs) /\ \A r \in Records(g.packs) : PackRecordOk(r)

(* iter_object_refs                                                          *)
Refs(o) ==
    CASE o.t = "catalog" -> {o.snapshots, o.known, o.protection, o.packs} \ {Absent}
      [] o.t = "snapshot_index" -> {e.root : e \in ToSet(o.snapshots)} \ {Absent}
      [] o.t = "snapshot_root" -> {o.tree}
      [] o.t = "tree" -> {e.ref : e \in o.entries}
      [] o.t = "file" -> {o.recipe}
      [] o.t = "recipe" -> {o.list}
      [] o.t = "index" -> o.shards
      [] OTHER -> {}

(* collect_reachable_object_bytes                                            *)
RECURSIVE Reachable(_)
Reachable(o) == {o} \cup UNION {Reachable(x) : x \in Refs(o)}

-----------------------------------------------------------------------------
(* validate_metadata_object_graph_semantics                                  *)

(* _validate_tree: every file's recipe is the one its chunk list spells, of
   chunks that the index knows with that size                                *)
RECURSIVE TreeValid(_, _)
TreeValid(o, known) ==
    \A e \in o.entries :
        IF e.type = "dir" THEN TreeValid(e.ref, known)
        ELSE LET rec == e.ref.recipe
                 cs == rec.list.chunks
             IN /\ e.ref.hash = rec.hash /\ rec.hash = [j \in DOMAIN cs |-> cs[j].chunk]
                /\ Len(cs) = rec.count /\ FoldSeq(LAMBDA c, n : n + c.size, 0, cs) = rec.size
                /\ \A j \in DOMAIN cs : [chunk |-> cs[j].chunk, size |-> cs[j].size] \in known

(* _validate_snapshots                                                       *)
SnapshotsValid(o, known) ==
    \A i \in DOMAIN o.snapshots :
        LET e == o.snapshots[i] IN
        /\ e.row.status # "COMPLETE" => e.root = Absent
        /\ e.root # Absent => e.root.row = e.row /\ TreeValid(e.root.tree, known)

(* _validate_erasure_data_packs: a chunk is known, with its length, and in one
   pack                                                                      *)
PacksValid(g, known) ==
    IF g.packs = Absent THEN g.packCount = 0
    ELSE LET R == Records(g.packs) IN
         /\ g.packCount = g.packs.total /\ Cardinality({r.pack : r \in R}) = g.packs.total
         /\ \A r \in R : \A j \in DOMAIN r.row.chunks :
               [chunk |-> r.row.chunks[j].chunk, size |-> r.row.chunks[j].length] \in known
         /\ \A r1, r2 \in R : r1 # r2 => ToSet(r1.pack) \cap ToSet(r2.pack) = {}

(* validate_metadata_object_graph_semantics: counters, shards and references *)
GraphValid(g) ==
    LET known == Records(g.known) IN
    /\ g.snapshotCount = Len(g.snapshots.snapshots) /\ g.knownCount = g.known.total
    /\ Cardinality({r.chunk : r \in known}) = g.known.total
    /\ IF g.protection = Absent THEN g.protectionCount = 0
       ELSE LET R == Records(g.protection) IN
            /\ g.protectionCount = g.protection.total /\ Cardinality({r.chunk : r \in R}) = g.protection.total
            /\ {r.chunk : r \in R} \subseteq {r.chunk : r \in known}
    /\ PacksValid(g, known) /\ SnapshotsValid(g.snapshots, known)

(* what an export needs not to raise                                         *)
Exportable(d, g) ==
    /\ \A i \in DOMAIN d.snapshots : d.snapshots[i].status = "COMPLETE" => TreeExportable(d.items[i])
    /\ WellFormed(g)

(* MetadataObjectService.export_current_state, put_graph and the latest pointer *)
ExportCurrentState(protected) ==
    /\ db.vault # NoVault
    /\ LET g == Export(db, protected) IN latest # g /\ Exportable(db, g) /\ latest' = g
    /\ source' = db /\ origin' = "own"
    /\ UNCHANGED <<db, live, losses, after, work>>

-----------------------------------------------------------------------------
(* The loss of the catalogue, and MetadataObjectGraphImporter                *)

(* the file is gone, and with it the captures that wrote to it              *)
LoseCatalogue ==
    /\ latest # Absent /\ losses < MaxLosses /\ db # EmptyDb
    /\ db' = EmptyDb /\ live' = {} /\ origin' = "own" /\ after' = 0
    /\ losses' = losses + 1 /\ UNCHANGED <<latest, source, work>>

(* set_vault_id and require_empty_operational_db                             *)
SetVaultId(v) == db.vault \in {NoVault, v}
RequireEmpty == [db EXCEPT !.vault = NoVault] = EmptyDb

(* _load_chunks, _load_protection_records, load_erasure_data_pack_rows       *)
LoadChunks(g) == {r.chunk : r \in Records(g.known)}
LoadProtection(g) == IF g.protection = Absent THEN {} ELSE Records(g.protection)
LoadErasureDataPacks(g) == IF g.packs = Absent THEN {} ELSE Records(g.packs)

(* the objects these read                                                    *)
ReadIndex(ix) == IF ix = Absent THEN {} ELSE {ix} \cup ix.shards
IndexesRead(g) == ReadIndex(g.known) \cup ReadIndex(g.protection) \cup ReadIndex(g.packs)

(* _insert_tree, as pairs of a path and its row; ctime_ns stays NULL          *)
NameOnly(pre, n) == <<n>>
RelPath(pre, n) == Append(pre, n)
ItemRow(e) == [type |-> e.type, mtime |-> e.mtime, ctime |-> FALSE,
               recipe |-> IF e.type = "file" THEN e.ref.recipe.hash ELSE NoRecipe]
RECURSIVE InsertTree(_, _)
InsertTree(o, pre) ==
    UNION {{<<RelPath(pre, e.name), ItemRow(e)>>}
           \cup (IF e.type = "dir" THEN InsertTree(e.ref, RelPath(pre, e.name)) ELSE {}) : e \in o.entries}
RowsOf(T) == [p \in {x[1] : x \in T} |-> (CHOOSE x \in T : x[1] = p)[2]]

(* insert_snapshots: the trees of COMPLETE ones, in the order of the index    *)
InsertSnapshots(o) ==
    [i \in DOMAIN o.snapshots |->
        IF o.snapshots[i].row.status = "COMPLETE" THEN RowsOf(InsertTree(o.snapshots[i].root.tree, Root)) ELSE <<>>]
TreesRead(o) ==
    {o} \cup UNION {Reachable(e.root) : e \in {x \in ToSet(o.snapshots) : x.row.status = "COMPLETE"}}

(* _ensure_recipe, for every file of every tree                              *)
EnsureRecipes(items) == UNION {{items[i][p].recipe : p \in Files(items[i])} : i \in DOMAIN items}

(* insert_protection_records, or insert_pending_protection_for_chunks        *)
PendingForChunks(C) == [c \in C |-> Pending(DefaultRf)]
InsertProtection(g, include) ==
    LET R == LoadProtection(g) IN
    IF include /\ R # {} THEN [c \in {r.chunk : r \in R} |-> (CHOOSE r \in R : r.chunk = c).row]
    ELSE PendingForChunks(LoadChunks(g))

(* insert_erasure_data_packs: erasure_data_pack_import_rows                   *)
InsertErasureDataPacks(g, include) ==
    LET R == LoadErasureDataPacks(g) IN
    IF include THEN [p \in {r.pack : r \in R} |-> (CHOOSE r \in R : r.pack = p).row] ELSE <<>>

(* _validate_latest_graph_semantics before the transaction, _verify_latest_digest
   at its end: the objects read are the objects of the graph                 *)
ValidateLatest(g) == WellFormed(g) /\ GraphValid(g)
VerifyLatestDigest(g) == {g} \cup IndexesRead(g) \cup TreesRead(g.snapshots) = Reachable(g)

(* import_latest: one EXCLUSIVE transaction                                  *)
ImportLatest(include) ==
    /\ latest # Absent /\ ValidateLatest(latest)
    /\ SetVaultId(latest.vault) /\ RequireEmpty
    /\ LET items == InsertSnapshots(latest.snapshots) IN
       db' = [vault |-> latest.vault, items |-> items, recipes |-> EnsureRecipes(items),
              snapshots |-> [i \in DOMAIN items |-> latest.snapshots.snapshots[i].row],
              chunks |-> LoadChunks(latest),
              protection |-> InsertProtection(latest, include),
              packs |-> InsertErasureDataPacks(latest, include)]
    /\ VerifyLatestDigest(latest)
    /\ origin' = IF include THEN "import" ELSE "bare"
    /\ UNCHANGED <<latest, live, source, losses, after, work>>

-----------------------------------------------------------------------------
Writers ==
    \/ \E u \in Uuid, s \in Seconds : CreateSnapshot(u, s)
    \/ \E i \in live : \/ \E f \in Trees : AddItems(i, Walked(f))
                       \/ \E p \in DOMAIN db.items[i], r \in Contents : ConsolidateItemRecipe(i, p, r)
                       \/ FinishSnapshot(i)
                       \/ FailSnapshot(i)
                       \/ Interrupt(i)
    \/ \E c \in Chunk, s \in States : UpdateProtection(c, s)
    \/ \E p \in {q \in Contents : q # <<>>}, at \in Placements : RegisterErasureDataPack(p, at)
    \/ \E p \in DOMAIN db.packs, at \in Placements, s \in States \ {"VERIFIED"} : UpdateErasureDataPack(p, s, at)
    \/ \E p \in DOMAIN db.packs, S \in SUBSET (1..EcSpec[1] + EcSpec[2]) : VerifyErasureDataPack(p, S)

Exchange ==
    \/ \E v \in Vault : GetOrCreateVaultId(v)
    \/ \E protected \in BOOLEAN : ExportCurrentState(protected)
    \/ LoseCatalogue
    \/ \E include \in BOOLEAN : ImportLatest(include)

Next == Writers \/ Exchange

Spec == Init /\ [][Next]_vars

-----------------------------------------------------------------------------
(* The properties.                                                          *)

Complete(d) == {i \in DOMAIN d.snapshots : d.snapshots[i].status = "COMPLETE"}

(* An entry below the root of a complete snapshot with a time before 1970.   *)
Ancient(d) == \E i \in Complete(d) : \E p \in DOMAIN d.items[i] \ {Root} : d.items[i][p].mtime < 0

(* Whatever sequence of captures, crashes of captures, pushes, verifications,
   erasure coding and earlier recoveries wrote the rows, the exporter finds
   them representable, and the graph passes the validation that a recovery
   begins with and the count of objects it ends with.  A recovery enforces
   these rules when the catalogue is already lost; the one exception is a time
   before 1970, which TreeEntry refuses.                                     *)
ExportAccepted ==
    ~Ancient(db) => \A protected \in BOOLEAN :
        LET g == Export(db, protected) IN
        Exportable(db, g) /\ ValidateLatest(g) /\ VerifyLatestDigest(g)

(* the rows of a complete snapshot as far as the graph carries them          *)
Carried(rows) == [p \in DOMAIN rows \ {Root} |-> [rows[p] EXCEPT !.ctime = FALSE]]
Backups(d) == {<<d.snapshots[i], Carried(d.items[i])>> : i \in Complete(d)}

(* What an import rebuilds is what was exported: the same snapshots, the same
   tree under every complete one, the same chunks; with their protection and
   packs when both sides were asked for them, else as chunks to be pushed
   again.  A full recovery exports to the identical graph, so the next
   publication finds nothing new to push.                                    *)
RecoveredFaithfully ==
    origin # "own" =>
        /\ db.vault = source.vault /\ ToSet(db.snapshots) = ToSet(source.snapshots)
        /\ Backups(db) = Backups(source) /\ db.chunks = source.chunks
        /\ IF origin = "import" /\ latest.protection # Absent
           THEN db.protection = source.protection /\ db.packs = source.packs /\ Export(db, TRUE) = latest
           ELSE (\A c \in db.chunks : db.protection[c] = Pending(DefaultRf)) /\ DOMAIN db.packs = {}

(* Every chunk that a recipe names is a known chunk with a protection row, so
   a push will consider it: before and after a recovery, of failed and
   abandoned captures too.                                                   *)
ChunksTracked ==
    /\ UNION {ToSet(r) : r \in db.recipes} \subseteq db.chunks
    /\ db.chunks = DOMAIN db.protection /\ Packed(db) \subseteq db.chunks
=============================================================================
