SPECIFICATION Spec
CONSTANTS
    CoinId <- MCCoinId
    Hint <- TwoHints
    EmptyHint <- NoBytes
    LongHint <- ThreeBytes
    Width = 2
    Adders <- OneThread
    Removers <- OtherThread
    RemoveArgs <- MCRemoveArgs
    StorageFaults = FALSE
    Crashes = FALSE
INVARIANT
    IndexesInSync
