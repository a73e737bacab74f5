SPECIFICATION Spec
CONSTANTS
    Accounts = {a1, a2}
    Nobody = nobody
    NoHash = nohash
    Decimals = 4
    FeeDecimals = 4
    MmrDecimals = 2
    MaxFee = 1
    Discounts = 1
    Wad = 4
    Word = 64
    Word64 = 16
    Word32 = 16
    Defaults <- DefaultsDef
    Proposals <- ProposalsDef
    Fractions = {1, 3}
    MaxNow = 3
INVARIANT ProtocolCollects
