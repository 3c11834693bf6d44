SPECIFICATION Spec
CONSTANTS
  p1 = p1  p2 = p2  p3 = p3  p4 = p4
  idA = idA  idB = idB
  None = None
  Procs <- TwoProcs
  Ids = {idA, idB}
  IdOf <- TwoIdOf
  Priority <- TwoPriority
  Skippable = {p1, p2}
  Unasked = {}
  Boot = {p1, p2}
  Faulty = {p2}
  LowBucketMin = 3
  MaxSleep = 1
  IdleCap = 4
  MaxAge = 4
  MaxStarved = 0
  MaxFaults = 3
INVARIANT SkippedRunsNextTick
