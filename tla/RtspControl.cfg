\* Six commands over two media in one session or in two, with refused and redirected
\* requests, unasked-for replies and lost connections at any point.
CONSTANTS
  Descriptions <- Streams
  Codes = {200, 302, 404}
  Faults = {"stray", "dies"}
  MaxCalls = 6
  Patient = TRUE
  Reopens = FALSE
SPECIFICATION Spec
INVARIANTS
  RequestsOK
  WaitTruthful
  ThreadsMatchStatus
PROPERTIES
  WaitEnds
  UninitEnds
\* The application may end in rtsp_uninit, or crash.
CHECK_DEADLOCK FALSE
