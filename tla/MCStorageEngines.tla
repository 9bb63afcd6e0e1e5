--------------------------- MODULE MCStorageEngines --------------------------
(* Two threads.  Keys are made of the bytes that also serve as tags.       *)
EXTENDS StorageEngines, WriteBatches

Single(op) == [kind |-> "single", ops |-> <<op>>]
Batch(ops) == [kind |-> "batch", ops |-> ops]

MCRequest ==
    {Single(WriteOpPut("coin_records", <<1>>, "x")),
     Single(WriteOpPut("bogus", <<1>>, "x")),
     Batch(<<>>),
     Batch(<<WriteOpPut("coin_records", <<1, 2>>, "x"),
             WriteOpPut("coin_by_parent", <<1>>, "y"),
             WriteOpPut("coin_records", <<1>>, "y")>>),
     Batch(<<WriteOpPut("state_snapshots", <<2>>, "x"),
             WriteOpPut("coin_by_confirmed_height", <<2>>, "x"),
             WriteOpDelete("coin_records", <<1>>)>>),
     Batch(<<WriteOpDelete("coin_by_parent", <<1>>),
             WriteOpPut("bogus", <<1>>, "x")>>)}

MCRead ==
    {"coin_records", "coin_by_parent", "state_snapshots", "hints"} \X {<<>>, <<1>>, <<1, 2>>}

=============================================================================
