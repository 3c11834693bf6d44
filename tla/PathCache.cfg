CONSTANTS
  Keys = {k1, k2, k3, k4}
  Items = {i1, i2, i3, i4}
  Head = head
  Tail = tail
  Null = null
  NoPath = noPath
  MaxSize = 3
  Ttl = 2
SPECIFICATION Spec
SYMMETRY ItemSymmetry
INVARIANTS TypeOK MapMatchesList PointersMirror
PROPERTY ImplementsLru
