SPECIFICATION Spec
CONSTANTS
    Adder = {a1}
    Chan = {c1, c2, c3}
    MaxHead = 3
    chainHeadChanSize = 2
    Closed = Closed
    None = None
SYMMETRY Symmetric
INVARIANTS
    ResetsContiguous
    NoLostPromotion
    SyncAddPromoted
