CONSTANTS
    Capacity = 4
    Items = {a, b}
    NoItem = NoItem
SPECIFICATION ObsSpec
INVARIANTS TypeOK NoSlotRace OwnSizeIsBound
PROPERTIES ImplementsFifo CallsReturn LookThenCall
