CONSTANTS
    Half = 2
    MaxCount = 4
SPECIFICATION CallsFairSpec
INVARIANTS CallsTypeOK ClearTakesEffect
PROPERTIES ErrorsReported CountIsNear CallsReturn
