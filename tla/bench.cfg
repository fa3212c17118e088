CONSTANTS
    Capacity = 4
    Prices <- MCPrices
    NullPrice <- MCNullPrice
    Refs <- MCRefs
    WireQtys <- MCQtys
    MaxLevel = 20
    Counts <- MCCounts
    Callbacks <- MCCallbacks
    NoTop = NoTop
    Warmup = 7
    BasePrice = 5
    PriceCycle = 4
    RefCycle = 4
    BaseQty = 1
    QtyCycle = 2
    HistCapacity = 4
    AxiReads = 2
    MessageCounts = {0, 1, 3, 6}
    Ticks = {1, 2, 3}
SPECIFICATION BenchSpec
INVARIANTS BenchTypeOK ReportIsOfTheSamples BookCountsMeasured
PROPERTY EndsClean
CHECK_DEADLOCK FALSE
