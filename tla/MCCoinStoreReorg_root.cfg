SPECIFICATION ReorgSpec
CONSTANTS
    None = None
    Absent = Absent
    Coin <- MCCoin
    ParentOf <- MCParentOf
    PuzzleOf <- MCPuzzleOf
    Hint <- MCHint
    EmptyHint = "zero"
    BlockHash <- MCBlockHash
    ZeroHash = "B0"
    Geneses <- MCGeneses
    Blocks <- MCBlocks
    Targets <- MCTargets
    Counts <- MCCounts
    I64Limit = 8
    StorageFaults = FALSE
INVARIANTS
    RootMatchesHistorical
