SPECIFICATION Spec
CONSTANTS
    CoinId <- MCCoinId
    Hint <- MCHint
    EmptyHint <- NoBytes
    LongHint <- ThreeBytes
    Width = 2
    Adders <- OneThread
    Removers <- OneThread
    RemoveArgs <- MCRemoveArgs
    StorageFaults = TRUE
    Crashes = TRUE
INVARIANTS
    TypeOK
    ReverseHasForward
    HintQueryIsExact
    BatchQueryFillsItsLimit
    QueriesByCoinAndHintAgree
PROPERTY
    RemovalIsComplete
