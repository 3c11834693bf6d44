SPECIFICATION FairSpec
CONSTANTS
  home = home
  enemy = enemy
  Bases = {home}
  Steady = {}
  Rooms = {enemy}
  Numbers = {1, 2}
  InRange <- Reach
  Beatable = {enemy}
  AutoAttack = TRUE
  MaxBasesPerTarget = 3
  PartySize = 2
  MaxPrevious = 2
  Border = 0
  Front = 1
  Last = 1
  Near = 0
  Edges = {1}
  Walls = {}
  PathFormation = "single_file"
  MaxCreeps = 2
  Unseen = Unseen
INVARIANTS TypeOK OnePartyPerBase AttacksTarget
PROPERTIES TargetsAttacked AttacksEnd
