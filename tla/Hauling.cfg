SPECIFICATION FairSpec
CONSTANTS
  h1 = h1
  h2 = h2
  h3 = h3
  w = w
  pile = pile
  container = container
  grave = grave
  None = None
  Haulers = {h1, h2, h3}
  Workers = {w}
  Piles = {pile}
  Containers = {container}
  Mortal = {h3}
  Graves = {grave}
  Bases <- SomeBases
  Remote = {pile, container}
  Capacity = 2
  MaxContent = 2
  MaxNeed = 1
INVARIANT PathsFollowed
PROPERTIES PickupsFetched LoadsDelivered
