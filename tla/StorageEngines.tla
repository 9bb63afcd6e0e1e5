--------------------------- MODULE StorageEngines ----------------------------
(***************************************************************************)
(* The two engines behind the trait StorageBackend.  open_storage_backend  *)
(* (src/src/storage/mod.rs) opens the one the configuration names; either  *)
(* has to keep the promises of KvStore.                                    *)
(***************************************************************************)
EXTENDS Naturals, Sequences, FiniteSets, ByteKeys

CONSTANTS
    Thread,         \* threads that write
    Request,        \* their calls: [kind, ops]
    Read,           \* what is read: pairs of family and prefix or key
    MaxLog,         \* bound: writes in the log of RocksDB
    None

VARIABLES
    engine,                 \* "Lmdb" or "RocksDb"
    env, writer, wtxn,      \* LMDB
    sst, wal, synced,       \* RocksDB
    call, ret               \* the threads

vars == <<engine, env, writer, wtxn, sst, wal, synced, call, ret>>

ColumnFamily ==
    {"coin_records", "coin_by_puzzle_hash", "unspent_by_puzzle_hash",
     "coin_by_parent", "coin_by_confirmed_height", "coin_by_spent_height",
     "hints", "hints_by_value", "merkle_nodes", "archive_coin_records",
     "state_snapshots", "metadata"}

WriteOp == UNION {{r.ops[i] : i \in DOMAIN r.ops} : r \in Request}

\* put and delete take one operation, batch_write a list.  None is Rust's.
ASSUME StorageAssumption ==
    /\ MaxLog \in Nat \ {0}
    /\ Request \subseteq [kind : {"single", "batch"}, ops : Seq(WriteOp)]
    /\ \A r \in Request : r.kind = "single" => Len(r.ops) = 1
    /\ \A op \in WriteOp :
           /\ op.key \in Seq(Nat)
           /\ \/ /\ op.op = "put" /\ DOMAIN op = {"op", "cf", "key", "value"}
                 /\ op.value # None
              \/ op.op = "delete" /\ DOMAIN op = {"op", "cf", "key"}
    /\ Read \subseteq ColumnFamily \X Seq(Nat)
    /\ None \notin Thread
    /\ None \notin Request
    /\ None \notin [kind : {"single", "batch"}, ops : Seq(WriteOp), done : Nat]

Lmdb == INSTANCE LmdbBackend
Rocks == INSTANCE RocksDbBackend

\* open_storage_backend
Init ==
    /\ engine \in {"Lmdb", "RocksDb"}
    /\ Lmdb!Init
    /\ Rocks!Init

LmdbNext ==
    /\ engine = "Lmdb"
    /\ Lmdb!Next
    /\ UNCHANGED <<engine, sst, wal, synced>>

RocksNext ==
    /\ engine = "RocksDb"
    /\ Rocks!Next
    /\ UNCHANGED <<engine, env, writer, wtxn>>

Next == LmdbNext \/ RocksNext

\* A thread inside a call keeps running.
LmdbStep(p) ==
    /\ engine = "Lmdb"
    /\ Lmdb!Step(p)
    /\ UNCHANGED <<engine, sst, wal, synced>>

Spec == Init /\ [][Next]_vars /\ \A p \in Thread : WF_vars(LmdbStep(p))

-----------------------------------------------------------------------------
(* Properties.                                                             *)

Contents == IF engine = "Lmdb" THEN Lmdb!Contents ELSE Rocks!Contents

Survivors == IF engine = "Lmdb" THEN {Lmdb!Contents} ELSE Rocks!Survivors

Requests ==
    [p \in Thread |-> IF call[p] = None THEN None
                      ELSE [kind |-> call[p].kind, ops |-> call[p].ops]]

\* The engine has one row for a key, a transaction belongs to a thread inside a
\* call, and no more of the log is on disk than there is.
TypeOK ==
    /\ engine \in {"Lmdb", "RocksDb"}
    /\ \A rows \in {env, wtxn, sst} : \A r, s \in rows :
           <<r[1], r[2]>> = <<s[1], s[2]>> => r = s
    /\ writer \in Thread \cup {None}
    /\ writer # None => call[writer] # None
    /\ writer = None => wtxn = {}
    /\ synced \in 0 .. Len(wal) /\ Len(wal) <= MaxLog

\* What a scan returns: the rows of one family with the prefix, by key.
Scan(cf, prefix) ==
    LET rows == {row \in Contents : row[1] = cf /\ StartsWith(row[2], prefix)}
        keys == InKeyOrder({row[2] : row \in rows})
    IN  [i \in DOMAIN keys |->
            <<keys[i], (CHOOSE row \in rows : row[2] = keys[i])[3]>>]

\* prefix_scan returns the rows of its own column family with the prefix, all
\* of them, in the order of their keys, though LMDB keeps several families in
\* one database and RocksDB iterates on until a key no longer fits; and get
\* finds a key exactly if it is there.
ReadsStayInTheirFamily ==
    \A read \in Read :
        LET cf == read[1]
            s == read[2]
            found == IF engine = "Lmdb" THEN Lmdb!get(cf, s) ELSE Rocks!get(cf, s)
        IN  /\ Scan(cf, s) = IF engine = "Lmdb" THEN Lmdb!prefix_scan(cf, s)
                             ELSE Rocks!prefix_scan(cf, s)
            /\ IF found = None THEN \A row \in Contents : <<row[1], row[2]>> # read
               ELSE <<cf, s, found>> \in Contents

Kv == INSTANCE KvStore WITH
          kv <- Contents, survivors <- Survivors, request <- Requests,
          Expiring <- {"archive_coin_records", "state_snapshots"}

\* STO-001 and STO-005: either engine implements KvStore.  Writes of concurrent
\* threads take effect whole and at once, errors in the middle of a batch undo
\* all of it, acknowledged batches survive a stop of the machine together with
\* everything before them, and compaction drops rows of the expiring families
\* only.
KvSpec == Kv!Spec

\* A write transaction of LMDB ends, on every path out of put, delete and
\* batch_write, so the threads waiting for it can go on.
TransactionsEnd == (writer # None) ~> (writer = None)

=============================================================================
