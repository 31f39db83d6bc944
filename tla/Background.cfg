SPECIFICATION Spec
CONSTANTS
    Branches = {a, b}
    sectionSize = 2
    confirmsReq = 1
    MaxLength = 5
    Batches = {1, 2, 4}
    MaxHeads = 2
    MaxTroubles = 1
    NoHash = NoHash
    Setups <- MCSetups
    Blooms <- MCBlooms
    blocksPerSection = 2
    begin = 1
    end = 3
    Batch = 1
    MaxFaults = 1
    None = None
    txLookupLimit = 2
    ancientLimit = 5
    Ancients = 5
    MaxBlock = 6
    MaxSetbacks = 2
    NoTail = NoTail
    LocalTx = {t1, t2}
    MaxRecords = 4
    MaxMishaps = 2
    Torn = Torn
    NoFile = NoFile
CONSTRAINT Unmixed
INVARIANTS
    IndexConsistent
    IndexerNeverStuck
    WorkAccounted
    SessionAnswers
    TailIsBoundary
    
PROPERTIES
    ReadersSeeCanonical
CHECK_DEADLOCK FALSE
