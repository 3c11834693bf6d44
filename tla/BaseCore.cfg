SPECIFICATION FairSpec
CONSTANTS
  t1 = t1
  t2 = t2
  e1 = e1
  lab = lab
  source = source
  sink = sink
  store = store
  s1 = s1
  w1 = w1
  enemy = enemy
  d1 = d1
  d2 = d2
  None = None
  Towers = {t1, t2}
  Extensions = {e1}
  Labs = {lab}
  SourceLinks <- OneSource
  SinkLinks <- OneSink
  StorageLink = store
  Structures = {s1}
  Walls = {w1}
  Hostiles = {enemy}
  Distributors = {d1, d2}
  Homes <- SomeHomes
  MaxHits = 2
  WallLimit = 2
  Healings = {1, 2}
INVARIANTS NeverMixed
PROPERTIES Supplied HostilesBeaten DamageRepaired
