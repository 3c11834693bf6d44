SPECIFICATION FairSpec
CONSTANTS
  b1 = b1
  b2 = b2
  b3 = b3
  r1 = r1
  r2 = r2
  r3 = r3
  ko = ko
  lo = lo
  kh = kh
  go = go
  d1 = d1
  d2 = d2
  None = None
  BoosterSpots <- Booster3
  Reactors <- OneReactor
  Compounds <- SomeCompounds
  Effects <- SomeEffects
  EffectsOf <- SomeEffectsOf
  MinCompound = 2
  MaxCompound = 3
  LabCapacity = 4
  Trip = 2
  Distributors = {d1, d2}
  Homes <- SomeHomes
PROPERTIES BoostsLoaded  OutputsUnloaded SurplusReturned OrdersSettled
