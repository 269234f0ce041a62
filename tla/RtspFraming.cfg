SPECIFICATION Spec
CONSTANTS
  Entries <- MCEntries
  Packets <- MCPackets
  Replies <- MCReplies
  Beyond <- NothingBeyond
  SockSize = 1
  PoolSize = 1
  ReadsWhileWaiting = TRUE
  MaxSent = 3
INVARIANTS
  BytesOK
PROPERTIES
  ChannelSpec
  
CHECK_DEADLOCK FALSE
