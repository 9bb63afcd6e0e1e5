----------------------------- MODULE MerkleTree ------------------------------
(***************************************************************************)
(* The sparse Merkle tree (src/src/merkle/) and the caller that persists   *)
(* it: lazy root, pending node rows, flush into a write batch, loading,    *)
(* and proofs.                                                             *)
(*                                                                         *)
(* A key is a sequence of Height bits (256 in the code) and a node is the  *)
(* sequence of bits that leads to it, which stands for the level byte and  *)
(* the padded path of schema::merkle_node_key.  Hashes are collision-free  *)
(* and domain-separated: an inner hash is the pair of its children's.      *)
(***************************************************************************)
EXTENDS Naturals, SequencesExt

CONSTANTS
    Height,       \* SMT_HEIGHT
    LeafHash,     \* hashes of coin records
    EmptyLeaf,    \* the hash of EMPTY_LEAF_SENTINEL
    None,
    EntryLists,   \* arguments of batch_insert and batch_update
    KeyLists      \* arguments of batch_remove

Bit == {0, 1}
Key == [1 .. Height -> Bit]
Path == UNION {[1 .. depth -> Bit] : depth \in 0 .. Height}
InnerPath == {p \in Path : Len(p) < Height}
Entry == [key : Key, value : LeafHash]
PartialMap(S, T) == UNION {[D -> T] : D \in SUBSET S}
LeafMap == PartialMap(Key, LeafHash)

ASSUME MerkleAssumption ==
    /\ Height \in Nat \ {0}
    /\ EmptyLeaf \notin LeafHash
    /\ None \notin LeafHash \cup {EmptyLeaf}
    /\ EntryLists \subseteq Seq(Entry)
    /\ KeyLists \subseteq Seq(Key)

VARIABLES
    leaves,               \* key -> leaf hash, for the keys present
    root_hash,            \* the cached root, or None
    dirty_merkle_nodes,   \* node -> its hash to put, or None to delete it
    batch,                \* the caller's write batch, or None
    coin_records,         \* stored: key -> leaf hash, written by the caller
    merkle_nodes,         \* stored: node -> hash
    merkle_state_root,    \* stored metadata row, or None
    running,              \* whether the process holds a tree
    dropped,              \* observation: the rows of root_hash are in neither
                          \*   the dirty map, the batch nor storage
    partial               \* observation: storage was written while dropped

tree == <<leaves, root_hash, dirty_merkle_nodes>>
stored == <<coin_records, merkle_nodes, merkle_state_root>>
vars == <<tree, batch, stored, running, dropped, partial>>

Nothing == [k \in {} |-> None]

\* f overridden by g.
Override(f, g) ==
    [k \in DOMAIN f \cup DOMAIN g |-> IF k \in DOMAIN g THEN g[k] ELSE f[k]]

-----------------------------------------------------------------------------
(* Hashes.                                                                 *)

merkle_node_hash(left, right) == <<left, right>>

\* EMPTY_HASHES
empty_hash[level \in 0 .. Height] ==
    IF level = 0 THEN EmptyLeaf
    ELSE merkle_node_hash(empty_hash[level - 1], empty_hash[level - 1])

get_bit(key, n) == key[n + 1]
child_path(p, bit) == Append(p, bit)

\* Whether a key of the leaf map m lies below node p.
Occupied(m, p) == \E k \in DOMAIN m : IsPrefix(p, k)

\* The hash of every node of the tree over m (compute_subtree_hash_core).
SubtreeHash(m) ==
    LET hash[p \in Path] ==
            IF ~Occupied(m, p) THEN empty_hash[Height - Len(p)]
            ELSE IF Len(p) = Height THEN m[p]
            ELSE merkle_node_hash(hash[child_path(p, 0)], hash[child_path(p, 1)])
    IN  hash

NodeHash == {SubtreeHash(m)[p] : m \in LeafMap, p \in Path}

\* A write batch; a row None deletes the node.
Batch ==
    [leaves : LeafMap, nodes : PartialMap(InnerPath, NodeHash \cup {None}),
     state_root : NodeHash, incomplete : BOOLEAN]

\* None is Rust's: no hash and no batch is taken for it.
ASSUME NoneAssumption == None \notin NodeHash /\ None \notin Batch

\* The recursion does not descend below an empty node.
Visited(m) == {p \in Path : p = <<>> \/ Occupied(m, Front(p))}

\* Fault: an empty node is not recorded.
PersistOps_NoDelete(m) ==
    [p \in {p \in Visited(m) \cap InnerPath : Occupied(m, p)} |-> SubtreeHash(m)[p]]

\* Fault: leaves are recorded like inner nodes.
PersistOps_Leaves(m) ==
    [p \in Visited(m) |->
        IF Occupied(m, p) THEN SubtreeHash(m)[p] ELSE None]

\* record_merkle_persist_op for every node of the walk.
PersistOps(m) ==
    LET hash == SubtreeHash(m)
    IN  [p \in Visited(m) \cap InnerPath |->
            IF hash[p] = empty_hash[Height - Len(p)] THEN None ELSE hash[p]]

-----------------------------------------------------------------------------
(* Changes of the leaves.                                                  *)

Init ==
    /\ leaves = Nothing
    /\ root_hash = empty_hash[Height]
    /\ dirty_merkle_nodes = Nothing
    /\ batch = None
    /\ coin_records = Nothing
    /\ merkle_nodes = Nothing
    /\ merkle_state_root = None
    /\ running = TRUE
    /\ dropped = FALSE
    /\ partial = FALSE

KeysOf(entries) == {entries[i].key : i \in DOMAIN entries}

\* A key repeated in the list gets its last value.
Insert(m, entries) ==
    LET LastOf(k) == CHOOSE i \in DOMAIN entries :
                         /\ entries[i].key = k
                         /\ \A j \in DOMAIN entries : entries[j].key = k => j <= i
    IN  Override(m, [k \in KeysOf(entries) |-> entries[LastOf(k)].value])

\* An empty list leaves the cached root alone.
SetLeaves(m, list) ==
    /\ leaves' = m
    /\ root_hash' = IF list = <<>> THEN root_hash ELSE None
    /\ UNCHANGED <<dirty_merkle_nodes, batch, stored, running, dropped, partial>>

\* With a key that is present: KeyAlreadyExists, nothing changes.
batch_insert(entries) ==
    /\ running
    /\ KeysOf(entries) \cap DOMAIN leaves = {}
    /\ SetLeaves(Insert(leaves, entries), entries)

\* Fault: an update keeps the cached root.
batch_update_KeepsRoot(entries) ==
    /\ running
    /\ KeysOf(entries) \subseteq DOMAIN leaves
    /\ SetLeaves(Insert(leaves, entries), <<>>)

\* With a key that is absent: KeyNotFound, nothing changes.
batch_update(entries) ==
    /\ running
    /\ KeysOf(entries) \subseteq DOMAIN leaves
    /\ SetLeaves(Insert(leaves, entries), entries)

batch_remove(keys) ==
    /\ running
    /\ ToSet(keys) \subseteq DOMAIN leaves
    /\ SetLeaves([k \in DOMAIN leaves \ ToSet(keys) |-> leaves[k]], keys)

-----------------------------------------------------------------------------
(* The root.                                                               *)

\* What root() leaves behind: the cached root and its rows, or, if there is no
\* cached root, those of a walk over all leaves.
RootAndRows ==
    IF root_hash # None
    THEN [root |-> root_hash, rows |-> dirty_merkle_nodes]
    ELSE [root |-> SubtreeHash(leaves)[<<>>], rows |-> PersistOps(leaves)]

root ==
    /\ running
    /\ root_hash = None
    /\ root_hash' = RootAndRows.root
    /\ dirty_merkle_nodes' = RootAndRows.rows
    /\ dropped' = FALSE
    /\ UNCHANGED <<leaves, batch, stored, running, partial>>

root_observed ==
    IF DOMAIN leaves = {} THEN empty_hash[Height]
    ELSE IF root_hash # None THEN root_hash
    ELSE SubtreeHash(leaves)[<<>>]

is_dirty == root_hash = None /\ DOMAIN leaves # {}

-----------------------------------------------------------------------------
(* Persistence.                                                            *)

\* The batch also carries the caller's rows, as flush_to_batch demands.
Enqueue(rows, state_root, incomplete) ==
    [leaves |-> leaves,
     nodes |-> Override(IF batch = None THEN Nothing ELSE batch.nodes, rows),
     state_root |-> state_root,
     incomplete |-> incomplete]

\* Fault: without pending rows nothing is put into the batch.
flush_to_batch_SkipsClean ==
    /\ running
    /\ LET now == RootAndRows
       IN  /\ root_hash' = now.root
           /\ dropped' = (dropped /\ root_hash # None)
           /\ batch' = Enqueue(now.rows,
                               IF now.rows # Nothing THEN now.root
                               ELSE IF batch # None THEN batch.state_root
                               ELSE merkle_state_root,
                               dropped')
    /\ dirty_merkle_nodes' = Nothing
    /\ UNCHANGED <<leaves, stored, running, partial>>

\* Calls root(), drains the dirty map and appends the metadata row.
flush_to_batch ==
    /\ running
    /\ LET now == RootAndRows
       IN  /\ root_hash' = now.root
           /\ dropped' = (dropped /\ root_hash # None)
           /\ batch' = Enqueue(now.rows, now.root, dropped')
    /\ dirty_merkle_nodes' = Nothing
    /\ UNCHANGED <<leaves, stored, running, partial>>

clear_dirty ==
    /\ running
    /\ dirty_merkle_nodes' = Nothing
    /\ dropped' = (dropped \/ dirty_merkle_nodes # Nothing)
    /\ UNCHANGED <<leaves, root_hash, batch, stored, running, partial>>

\* The caller's batch_write.  It is atomic.
Commit ==
    /\ running
    /\ batch # None
    /\ coin_records' = batch.leaves
    /\ merkle_nodes' =
           LET all == Override(merkle_nodes, batch.nodes)
           IN  [p \in {p \in DOMAIN all : all[p] # None} |-> all[p]]
    /\ merkle_state_root' = batch.state_root
    /\ partial' = batch.incomplete
    /\ batch' = None
    /\ UNCHANGED <<tree, running, dropped>>

\* The batch is consumed, and the rows drained into it are gone.
CommitFails ==
    /\ running
    /\ batch # None
    /\ batch' = None
    /\ dropped' = (dropped \/ batch.nodes # Nothing)
    /\ UNCHANGED <<tree, stored, running, partial>>

\* The process stops; the tree and a batch under construction are lost.
Crash ==
    /\ running
    /\ running' = FALSE
    /\ leaves' = Nothing
    /\ root_hash' = None
    /\ dirty_merkle_nodes' = Nothing
    /\ batch' = None
    /\ dropped' = FALSE
    /\ UNCHANGED <<stored, partial>>

\* The outcome of load_from_store for the leaf map m.
LoadResult(m) ==
    IF merkle_state_root = None THEN "PersistedRootMissing"
    ELSE IF merkle_state_root # SubtreeHash(m)[<<>>] THEN "PersistedRootMismatch"
    ELSE "Ok"

load_from_store ==
    /\ ~running
    /\ LoadResult(coin_records) = "Ok"
    /\ leaves' = coin_records
    /\ root_hash' = merkle_state_root
    /\ running' = TRUE
    /\ dropped' = partial
    /\ UNCHANGED <<dirty_merkle_nodes, batch, stored, partial>>

\* Without a persisted root the caller starts with an empty tree.
new ==
    /\ ~running
    /\ LoadResult(coin_records) = "PersistedRootMissing"
    /\ leaves' = Nothing
    /\ root_hash' = empty_hash[Height]
    /\ running' = TRUE
    /\ UNCHANGED <<dirty_merkle_nodes, batch, stored, dropped, partial>>

-----------------------------------------------------------------------------
(* Proofs.                                                                 *)

\* Fault: the node on the path itself is taken for its sibling.
build_sparse_proof_for_key_OwnSide(m, key) ==
    [key |-> key,
     value |-> IF key \in DOMAIN m THEN m[key] ELSE None,
     siblings |-> [i \in 1 .. Height |->
                      SubtreeHash(m)[child_path(SubSeq(key, 1, i - 1),
                                                get_bit(key, i - 1))]]]

\* The siblings along the path of the key; siblings[depth + 1] is that of the
\* node at depth + 1.
build_sparse_proof_for_key(m, key) ==
    [key |-> key,
     value |-> IF key \in DOMAIN m THEN m[key] ELSE None,
     siblings |-> [i \in 1 .. Height |->
                      SubtreeHash(m)[child_path(SubSeq(key, 1, i - 1),
                                                1 - get_bit(key, i - 1))]]]

get_coin_proof(key) ==
    IF is_dirty THEN "ProofRequiresCleanTree"
    ELSE build_sparse_proof_for_key(leaves, key)

\* SparseMerkleProof::verify, from the leaf up to the root.
verify(proof, expected_root) ==
    LET current[depth \in 0 .. Height] ==
            IF depth = Height
            THEN IF proof.value = None THEN empty_hash[0] ELSE proof.value
            ELSE IF get_bit(proof.key, depth) = 1
            THEN merkle_node_hash(proof.siblings[depth + 1], current[depth + 1])
            ELSE merkle_node_hash(current[depth + 1], proof.siblings[depth + 1])
    IN  Len(proof.siblings) = Height /\ current[0] = expected_root

-----------------------------------------------------------------------------

\* The caller hands a batch over before it changes leaves again.
Change ==
    /\ batch = None
    /\ \/ \E entries \in EntryLists : batch_insert(entries)
       \/ \E entries \in EntryLists : batch_update(entries)
       \/ \E keys \in KeyLists : batch_remove(keys)

Next ==
    \/ Change
    \/ root
    \/ flush_to_batch
    \/ clear_dirty
    \/ Commit
    \/ CommitFails
    \/ Crash
    \/ load_from_store
    \/ new

Spec == Init /\ [][Next]_vars

-----------------------------------------------------------------------------
(* Properties.                                                             *)

\* f is in PartialMap(InnerPath, T).
NodeRows(f, T) ==
    /\ f = [p \in DOMAIN f |-> f[p]]
    /\ DOMAIN f \subseteq InnerPath
    /\ \A p \in DOMAIN f : f[p] \in T

\* Leaf maps are over keys and leaf hashes; rows are kept for inner nodes only;
\* a tree is clean and empty while the process is down.
TypeOK ==
    /\ leaves \in LeafMap /\ coin_records \in LeafMap
    /\ root_hash \in NodeHash \cup {None}
    /\ merkle_state_root \in NodeHash \cup {None}
    /\ NodeRows(dirty_merkle_nodes, NodeHash \cup {None})
    /\ NodeRows(merkle_nodes, NodeHash)
    /\ batch # None => /\ NodeRows(batch.nodes, NodeHash \cup {None})
                       /\ batch.leaves \in LeafMap
                       /\ batch.state_root \in NodeHash
                       /\ batch.incomplete \in BOOLEAN
    /\ <<running, dropped, partial>> \in BOOLEAN \X BOOLEAN \X BOOLEAN
    /\ ~running => tree = <<Nothing, None, Nothing>> /\ batch = None

\* MRK-001: whatever batches, recomputations, flushes and reloads led here, a
\* cached root is the root of the present leaves, and root_observed, which
\* takes shortcuts for an empty and for a clean tree, returns that root.
RootIsOfTheLeaves ==
    running =>
        /\ root_hash \in {None, SubtreeHash(leaves)[<<>>]}
        /\ root_observed = SubtreeHash(leaves)[<<>>]

\* A reader that descends from the root through the stored rows and stops where
\* there is none sees the nodes of the stored leaves, each with its hash.
RowsLeadToTheLeaves ==
    \A p \in Visited(coin_records) \cap InnerPath :
        IF Occupied(coin_records, p)
        THEN p \in DOMAIN merkle_nodes
             /\ merkle_nodes[p] = SubtreeHash(coin_records)[p]
        ELSE p \notin DOMAIN merkle_nodes

\* MRK-003: the stored rows lead from the root to the stored leaves, unless
\* drained rows were lost before the commit.  Rows left behind below an emptied
\* node are never met on the way.
StoredNodesAreReadable ==
    merkle_state_root # None /\ ~partial => RowsLeadToTheLeaves

\* After any committed flush a restart succeeds with the stored leaves, and
\* load_from_store refuses the leaves of memory if they are others.
RestartFindsItsRoot ==
    merkle_state_root # None =>
        /\ LoadResult(coin_records) = "Ok"
        /\ leaves # coin_records => LoadResult(leaves) = "PersistedRootMismatch"

\* MRK-004 and MRK-005: a proof given out for any key, present or not, verifies
\* under the observed root for the stored value and for no other; and a proof
\* made from the last persisted leaves verifies under a later root only if it
\* still tells the truth.
ProofsTellTheTruth ==
    running =>
        \A key \in Key :
            LET proof == get_coin_proof(key)
                old == build_sparse_proof_for_key(coin_records, key)
                value == IF key \in DOMAIN leaves THEN leaves[key] ELSE None
            IN  /\ ~is_dirty =>
                       \A v \in LeafHash \cup {None} :
                           verify([proof EXCEPT !.value = v], root_observed)
                               <=> v = value
                /\ verify(old, root_observed) => old.value = value

=============================================================================
