SPECIFICATION Spec
CONSTANTS
    c1 = c1
    c2 = c2
    Users = {u1, u2}
    Coins = {c1, c2}
    NoCoin = nocoin
    FirstCoins = {c1}
    NoHash = nohash
    Unit <- UnitDef
    D = 2
    MinMovement = 1
    Thresholds = {1}
    Durations = {1}
    Deposits = {0, 1}
    Pnls <- PnlsDef
    Proposals <- ProposalsDef
    MaxClaim = 3
    MaxHeld = 2
    Refusing = {c2}
    MaxLost = 1
SYMMETRY Symmetry
INVARIANTS
    TypeOK
    Backed
    PayoutsCovered
    LostCredits
PROPERTIES
    ShortOnlyByExcess
    StaysInBand
