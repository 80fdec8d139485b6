CONSTANTS
    k0 = k0
    k1 = k1
    r1 = r1
    NoKey = NoKey
    Keys <- MCKeys
    KeySeq <- MCKeySeq
    Extends <- MCExtends
    Overrides <- MCOverrides
    FirstKey = k0
    Direct = direct
    Channels = {direct, broadcast}
    Width = 2
    MaxEpoch = 2
    MaxSeals = 3
    MaxResets = 1
    MaxEnds = 1
SPECIFICATION Spec
INVARIANTS
    GuardTypeOK
    DeliveredOnce
    WindowsAreExact
    MemoryIsStore
    NoConflict
    StampsAreUnique
    HoldNeverRollsBack
CHECK_DEADLOCK FALSE
