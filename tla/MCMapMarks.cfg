SPECIFICATION FairSpec
CONSTANTS
    hub = hub
    farp = farp
    guard = guard
    squad = squad
    raid = raid
    red = red
    blue = blue
    Hub = hub
    Farps <- MCFarps
    Garrison <- MCGarrison
    Troops <- MCTroops
    Raids <- MCRaids
    Sides <- MCSides
    SideOf <- MCSideOf
    Rate = 3
    MaxEvents = 3
    MaxPanels = 1
INVARIANTS
    MapComesRight
    ChangesFindTheirMark
    ArrowsAreSupplyLines
PROPERTIES
    MapCatchesUp
CHECK_DEADLOCK FALSE
