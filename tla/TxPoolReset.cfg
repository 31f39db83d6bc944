SPECIFICATION Spec
CONSTANTS
    Addr = {"a", "b"}
    Tx <- FewTx
    Price = {1, 4}
    PriceBump = 100
    GlobalSlots = 1
    GlobalQueue = 1
    AccountSlots = 1
    AccountQueue = 2
    maxReorgDepth = 1
    Block <- MCBlock
    Genesis = "g"
    Parent <- MCParent
    Number <- MCNumber
    Txs <- MCTxs
    StateNonce <- MCNonce
    StateBalance <- MCBalance
    GasLimit <- MCGasLimit
    None = None
INVARIANTS
    PoolConsistent
    PendingFollowsState
