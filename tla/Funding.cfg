SPECIFICATION Spec
CONSTANTS
    Users = {u1, u2}
    Lps = {u1, u2}
    Traders = {u1}
    Scale = 4
    Amounts = {2, 4}
    Deposits <- DepositsDef
    Bearable = 1
    Limit = 8
    MinDet = 4
    Held = 3
    Owing = 6
    Horizon = 2
INVARIANTS
    TypeOK
    ZeroSum
PROPERTIES
    AccruesEagerly
    LiquidatedForDueFunding
