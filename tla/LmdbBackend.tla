----------------------------- MODULE LmdbBackend -----------------------------
(***************************************************************************)
(* The LMDB engine (src/src/storage/lmdb.rs): the twelve column families   *)
(* share six databases, kept apart by a tag byte in front of the key;      *)
(* every write runs in a write transaction, of which there is one at a     *)
(* time, and reads see the last committed state.                           *)
(***************************************************************************)
EXTENDS Naturals, Sequences, FiniteSets, WriteBatches, ByteKeys

CONSTANTS Thread, Request, None

VARIABLES
    env,        \* committed rows <<database, stored key, value>>
    writer,     \* the thread in a write transaction, or None
    wtxn,       \* the rows as the write transaction sees them
    call,       \* thread -> [kind, ops, done], or None
    ret         \* thread -> what the last call returned, or None

lmdb == <<env, writer, wtxn>>
vars == <<lmdb, call, ret>>

\* Database and tag of each column family; no tag is the empty sequence.
RouteTable ==
    [coin_records             |-> <<0, <<1>>>>,
     coin_by_parent           |-> <<0, <<2>>>>,
     coin_by_confirmed_height |-> <<0, <<3>>>>,
     coin_by_spent_height     |-> <<0, <<4>>>>,
     archive_coin_records     |-> <<0, <<5>>>>,
     merkle_nodes             |-> <<0, <<6>>>>,
     coin_by_puzzle_hash      |-> <<1, <<1>>>>,
     unspent_by_puzzle_hash   |-> <<1, <<2>>>>,
     hints                    |-> <<2, <<>>>>,
     hints_by_value           |-> <<3, <<>>>>,
     state_snapshots          |-> <<4, <<>>>>,
     metadata                 |-> <<5, <<>>>>]

\* logical_cf_route, for a name in its domain; any other is an unknown family.
Database(cf) == RouteTable[cf][1]
Tag(cf) == RouteTable[cf][2]
Unknown(op) == op.cf \notin DOMAIN RouteTable

encode_storage_key(tag, user_key) == tag \o user_key
decode_user_key(tag, stored) == SubSeq(stored, Len(tag) + 1, Len(stored))

\* The operation as the database sees it.
Routed(op) ==
    [op EXCEPT !.cf = Database(op.cf), !.key = encode_storage_key(Tag(op.cf), op.key)]

-----------------------------------------------------------------------------
(* Reads.                                                                  *)

get(cf, key) ==
    LET found == {row \in env : /\ row[1] = Database(cf)
                                /\ row[2] = encode_storage_key(Tag(cf), key)}
    IN  IF found = {} THEN None ELSE (CHOOSE row \in found : TRUE)[3]

\* Fault: the tag is left out of the prefix to seek.
prefix_scan_Untagged(cf, prefix) ==
    LET met == {row \in env : row[1] = Database(cf) /\ StartsWith(row[2], prefix)}
        keys == InKeyOrder({row[2] : row \in met})
        Value(key) == (CHOOSE row \in met : row[2] = key)[3]
    IN  [i \in DOMAIN keys |->
            <<decode_user_key(Tag(cf), keys[i]), Value(keys[i])>>]

\* The rows whose stored key begins with tag and prefix, in the order of the
\* stored keys, with the tag taken off.
prefix_scan(cf, prefix) ==
    LET met == {row \in env : row[1] = Database(cf) /\ StartsWith(row[2], Tag(cf) \o prefix)}
        keys == InKeyOrder({row[2] : row \in met})
        Value(key) == (CHOOSE row \in met : row[2] = key)[3]
    IN  [i \in DOMAIN keys |->
            <<decode_user_key(Tag(cf), keys[i]), Value(keys[i])>>]

-----------------------------------------------------------------------------
(* Writes.                                                                 *)

Init ==
    /\ env = {}
    /\ writer = None
    /\ wtxn = {}
    /\ call = [p \in Thread |-> None]
    /\ ret = [p \in Thread |-> None]

Invoke(p, r) ==
    /\ call[p] = None
    /\ call' = [call EXCEPT ![p] = [kind |-> r.kind, ops |-> r.ops, done |-> 0]]
    /\ ret' = [ret EXCEPT ![p] = None]
    /\ UNCHANGED lmdb

Return(p, outcome) ==
    /\ call' = [call EXCEPT ![p] = None]
    /\ ret' = [ret EXCEPT ![p] = outcome]

\* An error drops the transaction, which aborts it.
Abort(p, error) ==
    /\ Return(p, error)
    /\ writer' = None
    /\ wtxn' = {}
    /\ UNCHANGED env

\* put and delete look up the family before the transaction, batch_write in it.
RefusedEarly(p) ==
    /\ call[p] # None
    /\ writer # p
    /\ call[p].kind = "single" /\ Unknown(call[p].ops[1])
    /\ Return(p, "UnknownColumnFamily")
    /\ UNCHANGED lmdb

EmptyBatch(p) ==
    /\ call[p] # None
    /\ call[p].ops = <<>>
    /\ Return(p, "Ok")
    /\ UNCHANGED lmdb

\* env.write_txn() waits for the transaction of another thread.
CanBegin(p) ==
    /\ call[p] # None
    /\ writer = None
    /\ call[p].ops # <<>>
    /\ call[p].kind = "single" => ~Unknown(call[p].ops[1])

WriteTxn(p) ==
    /\ CanBegin(p)
    /\ writer' = p
    /\ wtxn' = env
    /\ UNCHANGED <<env, call, ret>>

WriteTxnFails(p) ==
    /\ CanBegin(p)
    /\ Return(p, "BackendError")
    /\ UNCHANGED lmdb

NextOp(p) == call[p].ops[call[p].done + 1]

InTxn(p) == writer = p /\ call[p] # None /\ call[p].done < Len(call[p].ops)

WriteRow(p) ==
    /\ InTxn(p)
    /\ ~Unknown(NextOp(p))
    /\ wtxn' = ApplyOp(wtxn, Routed(NextOp(p)))
    /\ call' = [call EXCEPT ![p].done = @ + 1]
    /\ UNCHANGED <<env, writer, ret>>

\* Fault: what was written before the unknown family is committed.
UnknownInBatch_Commits(p) ==
    /\ InTxn(p)
    /\ Unknown(NextOp(p))
    /\ Return(p, "UnknownColumnFamily")
    /\ env' = wtxn
    /\ writer' = None
    /\ wtxn' = {}

UnknownInBatch(p) ==
    /\ InTxn(p)
    /\ Unknown(NextOp(p))
    /\ Abort(p, "UnknownColumnFamily")

EngineErrors == {"MapFull", "BackendError"}

\* Fault: the transaction is not ended.
RowFails_StaysOpen(p) ==
    /\ InTxn(p)
    /\ ~Unknown(NextOp(p))
    /\ \E error \in EngineErrors : Return(p, error)
    /\ UNCHANGED lmdb

\* The engine fails to put or delete the row, for lack of room in the memory
\* map or for another reason.
RowFails(p) ==
    /\ InTxn(p)
    /\ ~Unknown(NextOp(p))
    /\ \E error \in EngineErrors : Abort(p, error)

Complete(p) == writer = p /\ call[p] # None /\ call[p].done = Len(call[p].ops)

\* commit writes and syncs: no flag of the environment turns that off.
Commit(p) ==
    /\ Complete(p)
    /\ env' = wtxn
    /\ writer' = None
    /\ wtxn' = {}
    /\ Return(p, "Ok")

CommitFails(p) ==
    /\ Complete(p)
    /\ \E error \in EngineErrors : Abort(p, error)

\* A transaction under way when the machine stops is never seen again.
Stop ==
    /\ writer' = None
    /\ wtxn' = {}
    /\ call' = [p \in Thread |-> None]
    /\ ret' = [p \in Thread |-> None]
    /\ UNCHANGED env

Step(p) ==
    \/ RefusedEarly(p)
    \/ EmptyBatch(p)
    \/ WriteTxn(p)
    \/ WriteTxnFails(p)
    \/ WriteRow(p)
    \/ UnknownInBatch(p)
    \/ RowFails(p)
    \/ Commit(p)
    \/ CommitFails(p)

Next ==
    \/ \E p \in Thread, r \in Request : Invoke(p, r)
    \/ \E p \in Thread : Step(p)
    \/ Stop

\* The rows of a state of the databases by column family.
ContentsOf(rows) ==
    UNION {{<<cf, decode_user_key(Tag(cf), row[2]), row[3]>> :
               row \in {r \in rows : r[1] = Database(cf) /\ StartsWith(r[2], Tag(cf))}} :
           cf \in DOMAIN RouteTable}
Contents == ContentsOf(env)

=============================================================================
