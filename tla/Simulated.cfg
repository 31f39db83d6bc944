SPECIFICATION BackendSpec
CONSTANTS
    MaxUint64 = 127
    TxGas = 4
    TxGasContractCreation = 8
    NonZeroGas = 4
    ZeroGas = 1
    GasLimitBoundDivisor = 4
    MinGasLimit = 20
    Creation = "new"
    Coinbase = "miner"
    BlockReward = 2
    Txs <- MCTxs
    Calls <- MCCalls
    Funds <- MCFunds
    GasLimit = 40
    Period = 2
    Shifts <- MCForward
    DefaultGas = 50
    Latest = 13
    Postponable = 15
    MaxBlocks = 3
    Infinite = 1000
INVARIANT CommitNeverPanics
CHECK_DEADLOCK FALSE
