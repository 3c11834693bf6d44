SPECIFICATION FairSpec
CONSTANTS
  p1 = p1
  p2 = p2
  p3 = p3
  p4 = p4
  idA = idA
  idB = idB
  None = None
  Procs <- FourProcs
  Ids = {idA, idB}
  IdOf <- FourIdOf
  Priority <- FourPriority
  Skippable = {p2, p3}
  Unasked = {idA}
  Boot = {p1, p2}
  Faulty = {p1, p2}
  LowBucketMin = 3
  MaxSleep = 1
  IdleCap = 2
  MaxAge = 9
  MaxStarved = 1
  MaxFaults = 1
INVARIANTS TypeOK RegistryConsistent UrgentFirst
PROPERTIES NoStarvation TerminatedLeaves
