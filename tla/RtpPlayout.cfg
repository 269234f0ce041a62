\* One slot that grows to three: a reader and the RTP thread that fill and drain the
\* pool, with losses and bad headers, and one seek between any two frames.
CONSTANTS
  SlotNum = 1
  Chunks = 3
  Prebuffer = 2
  Deliveries <- InOrderStreams
  MaxNumber = 5
  MaxSeeks = 1
SPECIFICATION Spec
INVARIANTS
  SlotsOK
  RemovesWhatItRead
PROPERTIES
  FramesInOrder
  DataReceived
  PlayedEventually
  EndReported
