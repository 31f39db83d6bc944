SPECIFICATION FairSpec
CONSTANTS
    Adder = {a1}
    Chan = {c1, c2}
    MaxHead = 1
    chainHeadChanSize = 1
    Closed = Closed
    None = None
PROPERTIES
    CallsReturn
    RequestsServed
