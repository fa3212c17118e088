CONSTANTS
    Capacity = 2
    Prices <- WindowPrices
    NullPrice <- MCNullPrice
    Refs = {r1, r2, r3, r4}
    WireQtys = {0, 1, 2}
    MaxLevel = 8
    Counts <- MCCounts
    Callbacks = {"top"}
    NoTop = NoTop
SPECIFICATION FeedSpec
INVARIANTS TypeOK NeverOverstates TopIsBacked ExactUnlessWiped
SYMMETRY RefSymmetry
