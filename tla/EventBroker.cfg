SPECIFICATION FairSpec
CONSTANTS
  c1 = c1  c2 = c2  c3 = c3
  logistics = logistics  hud = hud
  None = None
  Consumers <- ThreeConsumers
  Names = {logistics, hud}
  NameOf <- ThreeNames
  MaxEvents = 3
  MaxResets = 1
INVARIANT OffsetsValid
PROPERTIES RefinesEventLog EverythingRead Reclaimed
