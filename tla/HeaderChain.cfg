SPECIFICATION Spec
CONSTANTS
    Header <- MCHeader
    Genesis <- MCGenesis
    MaxNumber <- MCMaxNumber
    Number <- MCNumber
    Ancestor <- MCAncestor
    Difficulty <- MCDifficulty
    NoHash = NoHash
INVARIANTS
    CanonicalIsHeadChain
    HeadIsRooted
    NoHeavierHeaderSkipped
