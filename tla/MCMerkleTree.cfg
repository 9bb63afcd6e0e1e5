SPECIFICATION Spec
CONSTANTS
    Height = 3
    v1 = v1
    v2 = v2
    LeafHash <- MCLeafHash
    EmptyLeaf = EmptyLeaf
    None = None
    EntryLists <- MCEntryLists
    KeyLists <- MCKeyLists
INVARIANTS
    TypeOK
    RootIsOfTheLeaves
    StoredNodesAreReadable
    RestartFindsItsRoot
    ProofsTellTheTruth
