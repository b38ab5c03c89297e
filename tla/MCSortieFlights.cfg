SPECIFICATION FairSpec
CONSTANTS
    Players = {p1}
    Units = {u1, u2}
    Bases = {b1}
    Field = Field
    Air = Air
    Nowhere = Nowhere
    None = None
    Full = Full
    NTypes = 1
    Lives = 2
    Airframe = 1
    Weapons = 1
    Balance = 1
    Limited = TRUE
    Strict = TRUE
    Provisional = TRUE
    MaxFlights = 2
    MaxRare = 2
INVARIANT RefundWithinCharge
PROPERTY LandingIsSettled
