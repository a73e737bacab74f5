SPECIFICATION Spec
CONSTANTS
    Accounts = {u1, u2}
    Protocol = u2
    Nobody = nobody
    Lps = {u1}
    Frontends = {nobody}
    Decimals = 1
    FeeLp = 0
    FeeFrontend = 0
    FundCap = 0
    AutoCloseFee = 0
    Dust = 1
    Lost = 2
    Overshoot = 0
    Amounts = {2}
    Fees = {0}
    Accruals = {}
    Limit = 2
    Depth = 2
    Volume = 4
INVARIANT DriftWithinDust
