SPECIFICATION Spec
CONSTANTS
    None = None
    Absent = Absent
    Coin <- MCCoin
    ParentOf <- MCParentOf
    PuzzleOf <- MCPuzzleOf
    Hint <- MCHint
    EmptyHint = "zero"
    BlockHash <- MCBlockHash
    ZeroHash = "B0"
    Geneses <- MCGeneses
    Blocks <- PlainBlocks
    Targets <- NegativeTargets
    Counts = {1}
    I64Limit = 8
    StorageFaults = TRUE
PROPERTY
    FailureIsInvisible
