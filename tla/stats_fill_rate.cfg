SPECIFICATION Spec
CONSTANTS
    Amount <- Dollars
    MaxOrders = 2
    MaxFills = 3
INVARIANT
    FilledOrdersHaveFullRate
