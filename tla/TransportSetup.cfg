SPECIFICATION SetupSpec
CONSTANTS
  AF_INET = 2
  MaxStreams = 15
  Media = {1, 2}
  NoHints = NoHints
  Hints = {NoHints, 0, 5001, 65534}
  Protocols = {"UDP", "TCP", "SCTP"}
  RandomPorts = {5001, 65533}
  Busy = {5003}
  Ephemeral = {40000}
  Junk = {0, 65535}
  MayAnswer <- Faithful
  MaxOpen = 2
INVARIANTS
  OffersOK
  AnswersOK
CHECK_DEADLOCK FALSE
