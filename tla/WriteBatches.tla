---------------------------- MODULE WriteBatches -----------------------------
(* Write operations and batches of them (src/src/storage/mod.rs).  The     *)
(* contents of a store are a set of rows <<cf, key, value>> with at most   *)
(* one row for a key of a column family.                                   *)
EXTENDS SequencesExt

WriteOpPut(cf, key, value) == [op |-> "put", cf |-> cf, key |-> key, value |-> value]
WriteOpDelete(cf, key) == [op |-> "delete", cf |-> cf, key |-> key]

\* Fault: a put does not replace the row it finds.
ApplyOp_Appends(rows, op) ==
    IF op.op = "put" THEN rows \cup {<<op.cf, op.key, op.value>>}
    ELSE {row \in rows : <<row[1], row[2]>> # <<op.cf, op.key>>}

\* Put is an upsert; deleting a missing key is no error.
ApplyOp(rows, op) ==
    LET others == {row \in rows : <<row[1], row[2]>> # <<op.cf, op.key>>}
    IN  IF op.op = "put" THEN others \cup {<<op.cf, op.key, op.value>>} ELSE others

\* In the order in which the operations were added to the batch.
ApplyOps(rows, ops) == FoldLeft(ApplyOp, rows, ops)

=============================================================================
