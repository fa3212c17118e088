CONSTANTS
    Capacity = 4
    Prices <- MCPrices
    NullPrice <- MCNullPrice
    QtyDeltas <- MCQtyDeltas
    OrderDeltas <- MCOrderDeltas
    MaxQty = 2
    MaxOrders = 1
SPECIFICATION Spec
INVARIANTS TypeOK SlotDiscipline TobIsBest
PROPERTY ImplementsAtomicBook
