CONSTANTS
    Sides = {Bid, Ask}
    Fields = {price, quantity}
    Levels = {none, l1, l2}
    NullLevel = none
    Readers = {r1}
    MaxWrites = 3
SPECIFICATION FairSpec
INVARIANTS TypeOK
PROPERTIES ImplementsAtomicTob SnapshotReturns
