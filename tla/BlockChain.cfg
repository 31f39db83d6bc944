SPECIFICATION Spec
CONSTANTS
    Header <- Tree
    Genesis <- MCGenesis
    MaxNumber <- MCMaxNumber
    Number <- MCNumber
    Ancestor <- MCAncestor
    Difficulty <- MCDifficulty
    NoHash = NoHash
    Root <- MCRoot
    Tx <- MCTx
    Txs <- MCTxs
    Invalid <- MCInvalid
    TriesInMemory = 1
    TrieDirtyDisabled = FALSE
    Imports <- MCImports
    Mined <- MCMined
    Rewinds = {1, 2}
INVARIANTS
    NoInvalidCanonical
    LookupComplete
    HeadAnnounced
    HeadChainCanonical
    HeadStateAvailable
    NothingHeavierSkipped
