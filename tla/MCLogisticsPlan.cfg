SPECIFICATION FairSpec
CONSTANTS
    Hubs = {1, 2}
    Bases = {3}
    Farps = {4}
    InitFarps = {4}
    Blue = Blue
    Red = Red
    Sides = {Blue, Red}
    Makers = {Blue, Red}
    InitOwner <- AllBlue
    Distance <- MCDistance
    Production = 4
    HubMax = 2
    AirbaseMax = 1
    TicksPerDelivery = 1
    TransferSize = 50
    MizStock = 6
    Word = 64
    Ops = {"deliver", "draw", "return", "destroy", "capture", "restart"}
    MaxOps = 3
    MaxHave = 20
    MaxStock = 8
    MaxCustomers = 4
INVARIANT PlanFits
INVARIANT SharesAreFair
INVARIANT EvensOut
PROPERTY BasesAreFilled
