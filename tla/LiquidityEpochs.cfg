SPECIFICATION Spec
CONSTANTS
    Users = {u1, u2}
    MaxEpochs = 2
    LastEpoch = 1
    MaxCount = 1
    Modulus = 2
SYMMETRY Symmetry
INVARIANTS
    TypeOK
    SnapshotsReachable
    RefcountCovers
    SnapshotsWellConditioned
    WindowBounded
    OutsideWindowFree
PROPERTIES
    EpochsOnlyAdvance
    TracksEveryUpdate
