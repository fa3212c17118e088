CONSTANTS
    Capacity = 2
    Prices <- MCPrices
    NullPrice <- MCNullPrice
    Refs <- MCRefs
    WireQtys = {0, 1}
    MaxLevel = 1
    Counts = {0, 1}
    Callbacks = {"top", "trade"}
    NoTop = NoTop
    Base = 8
    Char <- MCChar
    Timestamps <- MCTimestamps
    Leftover = 0
SPECIFICATION WireSpec
INVARIANTS ReadsWhatWasSent TimestampIsOwn
PROPERTY NoMissedChange
