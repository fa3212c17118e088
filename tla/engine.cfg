CONSTANTS
    Prices = {1, 2}
    Quantities = {0, 1}
    MaxPrice = 3
    MaxQty = 1
    FedSides = {"bid"}
SPECIFICATION Spec
INVARIANTS TypeOK DroppedOnlyWhenFull
PROPERTY NoLevelOverwritten
