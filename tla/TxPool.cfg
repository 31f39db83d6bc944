SPECIFICATION Spec
CONSTANTS
    Addr = {"a", "b"}
    Tx <- MCTx
    Price = {1, 3}
    PriceBump = 100
    GlobalSlots = 3
    GlobalQueue = 2
    AccountSlots = 1
    AccountQueue = 2
    maxReorgDepth = 1
    Block = {"g"}
    Genesis = "g"
    Parent <- MCParent
    Number <- MCNumber
    Txs <- MCTxs
    StateNonce <- MCNonce
    StateBalance <- MCBalance
    GasLimit <- MCGasLimit
    None = None
INVARIANTS
    LimitsKept
    ExecutablesPromoted
PROPERTIES
    DropsJustified
