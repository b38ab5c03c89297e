SPECIFICATION Spec
CONSTANTS
    squad = squad
    team = team
    Pilots = {p1, p2}
    Bases = {b1}
    Field = Field
    Kinds <- MCKinds
    Cost <- MCCost
    Limit <- MCLimit
    Denied <- MCDenied
    TroopSlots = 2
    CrateSlots = 1
    TotalSlots = 2
    MaxCrates = 1
    Balance = 2
    Stock = 3
    MaxGroups = 2
    MaxEvents = 1
SYMMETRY Symmetry
INVARIANTS
    AccountsBalance
    TroopsWithinLimit
    TroopsArePaid
CHECK_DEADLOCK FALSE
