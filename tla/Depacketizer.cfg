SPECIFICATION Spec
CONSTANTS
  Formats = {"m4v", "h263", "mpv", "aac", "speex", "h264", "xiph", "mpa", "def"}
  Units = 3
  MaxFragments = 3
  MaxQueue = 2
  MaxFlushes = 1
  Aliens = {"h264"}
INVARIANTS
  FramesOK
  ExactWhenWhole
PROPERTIES
  Drains
CHECK_DEADLOCK FALSE
