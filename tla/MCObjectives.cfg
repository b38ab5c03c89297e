SPECIFICATION FairSpec
CONSTANTS
  base = base  farp = farp  blue = blue  red = red
  bLogi = bLogi  bServices = bServices
  rLogi = rLogi  rServices = rServices  pad = pad  tower = tower  bSquad = bSquad  rSquad = rSquad
  u1 = u1  u2 = u2  u3 = u3  u4 = u4  u5 = u5  u6 = u6  u7 = u7  u8 = u8
  Bases = {base}
  Farps = {farp}
  Sides = {blue, red}
  Groups <- MCGroups
  Troops = {bSquad, rSquad}
  Units = {u1, u2, u3, u4, u5, u6, u7, u8}
  Home <- MCHome
  SideOf <- MCSideOf
  Class <- MCClass
  UnitsOf <- MCUnitsOf
  InitOwner <- MCInitOwner
  MaxBlows = 2
  MaxNew = 2
INVARIANTS StatusIsCurrent LosersAreBroken NoGhosts SpawnedIsThere CulledIsGone
PROPERTIES IsTerritory RepairsFinish
CHECK_DEADLOCK FALSE
