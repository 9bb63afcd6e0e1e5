--------------------------- MODULE RocksDbBackend ----------------------------
(***************************************************************************)
(* The RocksDB engine (src/src/storage/rocksdb.rs).  Every write appends   *)
(* to the write-ahead log and is then visible; only batch_write waits for  *)
(* the log to reach the disk.  Rows of families with FIFO compaction are   *)
(* dropped with their files when these grow too large.                     *)
(***************************************************************************)
EXTENDS Naturals, Sequences, FiniteSets, WriteBatches, ByteKeys

CONSTANTS
    Thread, Request, None,
    ColumnFamily,   \* ALL_COLUMN_FAMILIES
    MaxLog          \* bound: writes in the log

VARIABLES
    sst,        \* rows in table files
    wal,        \* the log since then, a sequence of operation lists
    synced,     \* how many entries of the log are on disk
    call,       \* thread -> [kind, ops], or None
    ret         \* thread -> what the last call returned, or None

rocks == <<sst, wal, synced>>
vars == <<rocks, call, ret>>

\* Fault: the height indices are append-mostly too.
FifoFamilies_Heights ==
    {"coin_by_confirmed_height", "coin_by_spent_height", "state_snapshots"}

\* sto006_compaction_style_for_cf
FifoFamilies == {"archive_coin_records", "state_snapshots"}

\* The contents after each of the writes of a log.
Replay(rows, log) ==
    LET after[n \in 0 .. Len(log)] ==
            IF n = 0 THEN rows ELSE ApplyOps(after[n - 1], log[n])
    IN  after

After(n) == Replay(sst, wal)[n]
Contents == After(Len(wal))

Survivors == {After(n) : n \in synced .. Len(wal)}

-----------------------------------------------------------------------------
(* Reads.                                                                  *)

get(cf, key) ==
    LET found == {row \in Contents : row[1] = cf /\ row[2] = key}
    IN  IF found = {} THEN None ELSE (CHOOSE row \in found : TRUE)[3]

\* An iterator from the prefix forward, up to the first other key.
prefix_scan(cf, prefix) ==
    LET rows == {row \in Contents : row[1] = cf}
        from == InKeyOrder({row[2] : row \in {r \in rows : ~LexLess(r[2], prefix)}})
        met == {i \in DOMAIN from : \A j \in 1 .. i : StartsWith(from[j], prefix)}
        Value(key) == (CHOOSE row \in rows : row[2] = key)[3]
    IN  [i \in met |-> <<from[i], Value(from[i])>>]

-----------------------------------------------------------------------------
(* Writes.                                                                 *)

Init ==
    /\ sst = {}
    /\ wal = <<>>
    /\ synced = 0
    /\ call = [p \in Thread |-> None]
    /\ ret = [p \in Thread |-> None]

Invoke(p, r) ==
    /\ call[p] = None
    /\ call' = [call EXCEPT ![p] = r]
    /\ ret' = [ret EXCEPT ![p] = None]
    /\ UNCHANGED rocks

Return(p, outcome) ==
    /\ call[p] # None
    /\ call' = [call EXCEPT ![p] = None]
    /\ ret' = [ret EXCEPT ![p] = outcome]

Known(ops) == \A i \in DOMAIN ops : ops[i].cf \in ColumnFamily

\* cf_handle fails while the engine's batch is being filled, before any write.
Refused(p) ==
    /\ Return(p, "UnknownColumnFamily")
    /\ ~Known(call[p].ops)
    /\ UNCHANGED rocks

EmptyBatch(p) ==
    /\ Return(p, "Ok")
    /\ call[p].ops = <<>>
    /\ UNCHANGED rocks

Logged(p) ==
    /\ Return(p, "Ok")
    /\ call[p].ops # <<>>
    /\ Known(call[p].ops)
    /\ Len(wal) < MaxLog
    /\ wal' = Append(wal, call[p].ops)
    /\ UNCHANGED sst

\* put and delete use the default write options.
Write(p) ==
    /\ Logged(p)
    /\ call[p].kind = "single"
    /\ UNCHANGED synced

\* Fault: the batch is written with the default options.
BatchWrite_NoSync(p) ==
    /\ Logged(p)
    /\ call[p].kind = "batch"
    /\ UNCHANGED synced

\* sto005_batch_write_options: sync, which covers the log up to here.
BatchWrite(p) ==
    /\ Logged(p)
    /\ call[p].kind = "batch"
    /\ synced' = Len(wal')

WriteFails(p) ==
    /\ Return(p, "BackendError")
    /\ call[p].ops # <<>>
    /\ Known(call[p].ops)
    /\ UNCHANGED rocks

-----------------------------------------------------------------------------
(* The engine by itself.                                                   *)

\* The operating system writes more of the log.
SyncLog ==
    /\ synced < Len(wal)
    /\ synced' = synced + 1
    /\ UNCHANGED <<sst, wal, call, ret>>

\* Memory tables become table files.  The engine does it when it likes; flush (of
\* the default family) and compact (of one family) only ask for it.
WriteTables ==
    /\ wal # <<>>
    /\ sst' = Contents
    /\ wal' = <<>>
    /\ synced' = 0
    /\ UNCHANGED <<call, ret>>

\* FIFO compaction drops a file with rows of one such family.
DropOldest ==
    /\ \E cf \in FifoFamilies :
           LET old == {row \in sst : row[1] = cf}
           IN  old # {} /\ sst' = sst \ old
    /\ UNCHANGED <<wal, synced, call, ret>>

\* The machine stops: the log is cut somewhere behind what was synced.
Stop ==
    /\ \E n \in synced .. Len(wal) :
           /\ wal' = SubSeq(wal, 1, n)
           /\ synced' = n
    /\ call' = [p \in Thread |-> None]
    /\ ret' = [p \in Thread |-> None]
    /\ UNCHANGED sst

Step(p) ==
    \/ Refused(p)
    \/ EmptyBatch(p)
    \/ Write(p)
    \/ BatchWrite(p)
    \/ WriteFails(p)

Next ==
    \/ \E p \in Thread, r \in Request : Invoke(p, r)
    \/ \E p \in Thread : Step(p)
    \/ SyncLog
    \/ WriteTables
    \/ DropOldest
    \/ Stop

=============================================================================
