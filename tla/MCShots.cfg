SPECIFICATION ShotsSpec
CONSTANTS
  jet = jet  tank = tank  bandit = bandit  ann = ann  ben = ben
  blue = blue  red = red  g1 = g1  g2 = g2  g3 = g3  NoOne = NoOne
  Units = {jet, tank, bandit}
  Targets = {tank, bandit}
  Players = {ann, ben}
  Flown = {jet, bandit}
  Owner <- MCOwner
  SideOf <- MCSideOf
  GroupOf <- MCGroupOf
  Total = 3
  Provisional = TRUE
  Recent = 0
  Grave = 1
  Keep = 2
  MaxTime = 3
  MaxShots = 2
INVARIANTS CreditedOnce OnlyTheFallen
PROPERTIES KillersAreSettled YoungShotsStay KillersArePaid
CHECK_DEADLOCK FALSE
