SPECIFICATION Spec
CONSTANTS
    Hubs = {1, 2}
    Bases = {3}
    Farps = {4}
    InitFarps = {}
    Blue = Blue
    Red = Red
    Sides = {Blue, Red}
    Makers = {Blue, Red}
    InitOwner <- AllBlue
    Distance <- MCDistance
    Production = 4
    HubMax = 2
    AirbaseMax = 1
    TicksPerDelivery = 1
    TransferSize = 50
    MizStock = 0
    Word = 64
    Ops = {"transfer"}
    MaxOps = 2
INVARIANT HubWithinMax
