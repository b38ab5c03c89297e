SPECIFICATION Spec
CONSTANTS
    Hubs = {1, 2}
    Bases = {3}
    Farps = {4}
    InitFarps = {}
    Blue = Blue
    Red = Red
    Sides = {Blue, Red}
    Makers = {Blue}
    InitOwner <- AllBlue
    Distance <- MCDistance
    Production = 4
    HubMax = 2
    AirbaseMax = 1
    TicksPerDelivery = 1
    TransferSize = 50
    MizStock = 2
    Word = 64
    Ops = {"deliver", "draw", "return", "aircraft", "transfer", "reduce", "farp", "destroy", "capture", "restart"}
    MaxOps = 3
INVARIANT PlanWithinSides
INVARIANT Settled
