SPECIFICATION Spec
CONSTANTS
    Players = {p1, p2}
    Units = {u1, u2}
    Bases = {b1}
    Field = Field
    Air = Air
    Nowhere = Nowhere
    None = None
    Full = Full
    NTypes = 2
    Lives = 2
    Airframe = 1
    Weapons = 0
    Balance = 1
    Limited = TRUE
    Strict = FALSE
    Provisional = TRUE
    MaxFlights = 2
    MaxRare = 2
SYMMETRY Symmetry
INVARIANT OneLifePerFlight
INVARIANT StakeIsOwed
