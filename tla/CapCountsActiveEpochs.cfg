SPECIFICATION Spec
CONSTANTS
    Users = {u1, u2}
    MaxEpochs = 3
    LastEpoch = 4
    MaxCount = 2
    Modulus = 1
SYMMETRY Symmetry
INVARIANT CapCountsActiveEpochs
