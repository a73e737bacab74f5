SPECIFICATION Spec
CONSTANTS
    Accounts = {u1, u2}
    Protocol = u2
    Nobody = nobody
    Lps = {u1, u2}
    Frontends = {u1, nobody}
    Decimals = 2
    FeeLp = 0
    FeeFrontend = 1
    FundCap = 1
    AutoCloseFee = 1
    Dust = 1
    Lost = 1
    Overshoot = 1
    Amounts = {1}
    Fees = {1}
    Accruals = {1}
    Limit = 1
    Depth = 2
    Volume = 3
INVARIANTS
    TypeOK
    PoolExposureBalanced
    ExposureMatches
    Solvent
    FundCapped
PROPERTIES
    FundPaysLast
    OnlyLiquidationsDrainFund
