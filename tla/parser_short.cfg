CONSTANTS
    Types = {"A", "E", "D"}
    Other = "other"
    FrameLen = 5
    Len <- MCLen
SPECIFICATION Spec
INVARIANT EveryTypeDecoded
