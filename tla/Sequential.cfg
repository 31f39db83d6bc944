SPECIFICATION Spec
CONSTANTS
    Tx <- MCTx
    Limit = {0, 1, 2, 3}
    PriceBump = 20
    Nil = Nil
    MaxUint64 = 127
    TxGas = 4
    TxGasContractCreation = 8
    NonZeroGas = 4
    ZeroGas = 1
    GasLimitBoundDivisor = 4
    MinGasLimit = 20
    Creation = "new"
    Coinbase = "miner"
    BlockReward = 2
    Txs <- MCTxs
    Calls <- MCCalls
    Funds <- MCFunds
    GasLimit = 40
    Period = 2
    Shifts <- MCShifts
    DefaultGas = 50
    Latest = 13
    Postponable = 15
    MaxBlocks = 3
    Infinite = 1000
    Specs <- MCSpecs
    MainSpec <- MCMain
    NoSpec = NoSpec
    OtherConfig = 0
    MaxHeight = 3
    Nothing = Nothing
    ForkBlocks = {0, 1, 2, 3}
    NoBlock = NoBlock
    Rules = {x, y}
    MaxHead = 4
    Bytes = {0, 1, 192}
    MaxData = 9
    MaxTarget = 17
    u = 1
    p = 103
    r = 97
    xiReal = 8
    twistB <- MCtwistB
    twistGen <- MCtwistGen
    curveGen <- MCcurveGen
    NAFs <- MCNAFs
    Scalars = {0, 1, 2, 96}
    curveB = 5
    Base = 8
    byteLen = 3
INVARIANTS
    CommitExact
    GasPaid
    EstimateExact
    DatabaseUsable
    FilterExact
    CodecBijective
    PairingExact
    CurveExact
PROPERTIES
    ImplementsTxListSpec
CHECK_DEADLOCK FALSE
