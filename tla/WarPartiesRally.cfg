SPECIFICATION Spec
CONSTANTS
  home = home
  enemy = enemy
  Bases = {home}
  Steady = {home}
  Rooms = {enemy}
  Numbers = {1, 2}
  InRange <- Reach
  Beatable = {enemy}
  AutoAttack = TRUE
  MaxBasesPerTarget = 3
  PartySize = 2
  MaxPrevious = 4
  Border = 0
  Front = 1
  Last = 2
  Near = 5
  Edges = {1}
  Walls = {}
  PathFormation = "single_file"
  MaxCreeps = 2
  Unseen = Unseen
INVARIANT RalliesAtBase
