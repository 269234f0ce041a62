SPECIFICATION Spec
CONSTANTS
  Ssrcs = {x, y}
  Hosts = {h1, h2}
  Announced = h1
  Own = own
  None = none
  MaxPackets = 2
  Overlap = TRUE
INVARIANTS
  SourcesOK
  OneHostPerBuffer
  NotOvercounted
