SPECIFICATION PagingSpec
CONSTANTS
    None = None
    Absent = Absent
    Coin <- MCCoin
    ParentOf <- MCParentOf
    PuzzleOf <- MCPuzzleOf
    IdOrder <- MCIdOrder
    AmountOf <- MCAmountOf
    Hint <- MCHint
    EmptyHint = 0
    BlockHash <- MCBlockHash
    ZeroHash = "B0"
    Geneses <- MCGeneses
    Blocks <- MCBlocks
    Targets <- MCTargets
    Counts = {}
    I64Limit = 8
    U64Limit = 16
    StorageFaults = FALSE
    Requests <- MCRequests
    MAX_PUZZLE_HASH_BATCH_SIZE = 2
INVARIANT
    MatchingCoinsAreDelivered
