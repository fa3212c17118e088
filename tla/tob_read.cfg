CONSTANTS
    Tops = {t0, t1, t2}
    EmptyTop = t0
    Undefined = Undefined
    NWords = 3
SPECIFICATION FairSpec
INVARIANTS TypeOK CleanRoundIsWhole LagsOneMessage
PROPERTY ReadReturns
