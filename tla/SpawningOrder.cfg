SPECIFICATION Spec
CONSTANTS
  capital = capital
  outpost = outpost
  spawn1 = spawn1
  spawn2 = spawn2
  upgrader = upgrader
  builder = builder
  worker = worker
  claimer = claimer
  Shard = Shard
  Anyone = Anyone
  Nowhere = Nowhere
  NoOrder = NoOrder
  Bases = {capital, outpost}
  Spawns = {spawn1, spawn2}
  BaseOf <- Homes
  Neighbors <- Neighborhood
  Needs = {upgrader, builder}
  TopicOf <- TopicsOf
  DestOf <- DestsOf
  RoleOf <- Roles
  PriorityOf <- Priorities
  DecayOf <- Graded
  Burst = {upgrader, builder}
  WantedOf <- WantedMore
  TtlOf <- Ttls
  PeriodOf <- Periods
  EnergyOf <- Energies
  EnergyLevels <- Levels
  SpawnTtl = 1
  BuildTime = 2
  MaxCreeps = 2
PROPERTIES HigherPriorityFirst
