SPECIFICATION FairSpec
CONSTANTS
  capital = capital
  between = between
  free = free
  foreign = foreign
  Rooms = {capital, between, free, foreign}
  Exits <- Map
  Controlled = {capital, between, free, foreign}
  Foes = {foreign}
  HasSources = {capital, between, foreign}
  Dangerous = {between}
  Start = {capital}
  Steady = {capital, between}
  Passes = 3
  RemotePasses = 4
  MaxRemotes = 1
  MinCandidates = 1
  MaxSpawnless = 1
  MaxColonies = 3
  Gcl = 2
  Elsewhere = 0
  Nobody = Nobody
  Me = Me
  Foe = Foe
  Unseen = Unseen
INVARIANTS RemotesNotShared
PROPERTIES KeepsDistance EverythingServed OrphansEnd LostBasesEnd
