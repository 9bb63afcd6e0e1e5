------------------------------ MODULE KvStore --------------------------------
(***************************************************************************)
(* Abstract specification: what the trait StorageBackend promises to the   *)
(* threads that call it (src/src/storage/mod.rs).  A write takes effect as *)
(* a whole when the call returns Ok and not at all when it returns an      *)
(* error.  A single put or delete may be lost if the machine stops; a      *)
(* batch, once acknowledged, and what was written before it, may not.      *)
(***************************************************************************)
EXTENDS WriteBatches

CONSTANTS
    Thread,
    ColumnFamily,   \* the families of the schema
    Expiring,       \* families whose old rows may be dropped by the engine
    Request,        \* calls: [kind, ops], kind "single" or "batch"
    None

VARIABLES
    kv,             \* the rows a reader sees
    survivors,      \* the contents a stop of the machine may leave
    request,        \* thread -> the call in progress, or None
    ret             \* thread -> what the last call returned, or None

vars == <<request, ret, kv, survivors>>

Init ==
    /\ kv = {}
    /\ survivors = {{}}
    /\ request = [p \in Thread |-> None]
    /\ ret = [p \in Thread |-> None]

Invoke(p, r) ==
    /\ request[p] = None
    /\ request' = [request EXCEPT ![p] = r]
    /\ ret' = [ret EXCEPT ![p] = None]
    /\ UNCHANGED <<kv, survivors>>

Return(p, outcome) ==
    /\ request[p] # None
    /\ request' = [request EXCEPT ![p] = None]
    /\ ret' = [ret EXCEPT ![p] = outcome]

Known(ops) == \A i \in DOMAIN ops : ops[i].cf \in ColumnFamily

Succeed(p) ==
    /\ Return(p, "Ok")
    /\ Known(request[p].ops)
    /\ kv' = ApplyOps(kv, request[p].ops)
    /\ \/ request[p].ops = <<>> /\ UNCHANGED survivors
       \/ request[p].ops # <<>> /\ survivors' = {kv'}
       \/ request[p].kind = "single" /\ survivors' = survivors \cup {kv'}

Refuse(p) ==
    /\ Return(p, "UnknownColumnFamily")
    /\ ~Known(request[p].ops)
    /\ UNCHANGED <<kv, survivors>>

Fail(p) ==
    /\ \E error \in {"MapFull", "BackendError"} : Return(p, error)
    /\ request[p].ops # <<>>
    /\ UNCHANGED <<kv, survivors>>

\* The machine or the process stops, and the store is opened again.
Stop ==
    /\ request' = [p \in Thread |-> None]
    /\ ret' = [p \in Thread |-> None]
    /\ kv' \in survivors
    /\ survivors' = {kv'}

\* More becomes durable.
Sync ==
    /\ UNCHANGED <<request, ret, kv>>
    /\ survivors' \subseteq survivors
    /\ kv \in survivors'

\* t is s without some rows of expiring families.
Aged(s, t) == t \subseteq s /\ \A row \in s \ t : row[1] \in Expiring

\* The engine drops old rows of expiring families.
Expire ==
    /\ UNCHANGED <<request, ret>>
    /\ Aged(kv, kv') /\ kv' \in survivors'
    /\ \A t \in survivors' : \E s \in survivors : Aged(s, t)

Next ==
    \/ \E p \in Thread, r \in Request : Invoke(p, r)
    \/ \E p \in Thread : Succeed(p) \/ Refuse(p) \/ Fail(p)
    \/ Stop
    \/ Sync
    \/ Expire

Spec == Init /\ [][Next]_vars

=============================================================================
