SPECIFICATION CheckpointsSpec
CONSTANTS
    None = None
    Absent = Absent
    Coin <- MCCoin
    ParentOf <- MCParentOf
    PuzzleOf <- MCPuzzleOf
    Hint <- MCHint
    EmptyHint = "zero"
    BlockHash <- MCBlockHash
    ZeroHash = "B0"
    Geneses <- MCGeneses
    Blocks <- MCBlocks
    Targets <- MCTargets
    Counts = {}
    I64Limit = 8
    StorageFaults = TRUE
    MaxSnapshots = 1
    RowsPerBatch = 2
    CallersRetry = TRUE
INVARIANTS
    SoundUnlessTorn
    RetainedSnapshotsRestore
PROPERTIES
    RestoreReplacesEverything
    RetentionKeepsHighest
