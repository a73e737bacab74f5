SPECIFICATION Spec
CONSTANTS
    u1 = u1
    u2 = u2
    u3 = u3
    Users = {u1, u2, u3}
    Keepers = {u3}
    Prices = {1, 3}
    Signed <- SignedDef
    Direct <- DirectDef
    Orders <- OrdersDef
    Batches <- BatchesDef
    Fees = {0, 1, 2}
    Cuts = {0}
    Slippage = {1}
    Return <- ReturnDef
    Cost <- CostDef
    Threshold = 2
    Fee = 1
    MMR = 1
    Decimals = 4
    Horizon = 1
    Limit = 7
INVARIANTS
    EachOnceInOrder
    OrdersEndWithClose
PROPERTIES
    AimsReached
    BatchesAccountForAll
