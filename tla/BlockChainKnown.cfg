SPECIFICATION Spec
CONSTANTS
    Header <- SmallTree
    Genesis <- MCGenesis
    MaxNumber <- MCMaxNumber
    Number <- MCNumber
    Ancestor <- MCAncestor
    Difficulty <- MCDifficulty
    NoHash = NoHash
    Root <- MCRoot
    Tx <- MCTx
    Txs <- MCTxs
    Invalid <- MCInvalid
    TriesInMemory = 1
    TrieDirtyDisabled = FALSE
    Imports <- SmallImports
    Mined = {}
    Rewinds = {}
INVARIANTS
    KnownBlocksEmpty
