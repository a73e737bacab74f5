SPECIFICATION Spec
CONSTANTS
    Prices = {3, 12}
    Step = 2
    Life = 3
    Ahead = 1
    Late = 1
    Settings <- SettingsDef
    Horizon = 5
    MaxChanges = 1
INVARIANTS
    TypeOK
    TwapIsAverage
PROPERTIES
    AcceptedStaysAcceptable
    AcceptedInOrder
    LastingPriceServed
