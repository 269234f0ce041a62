\* Close, wait, uninit, as example/dump_info.c does, with a server that accepts everything.
CONSTANTS
  Descriptions <- Streams
  Codes = {200}
  Faults = {}
  MaxCalls = 2
  Patient = FALSE
  Reopens = FALSE
SPECIFICATION Spec
PROPERTIES
  UninitEnds
\* The application may end in rtsp_uninit, or crash.
CHECK_DEADLOCK FALSE
