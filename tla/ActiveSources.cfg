\* Two senders, five packets each across the wrap, up to two early or late.
CONSTANTS
  Sources = {s1, s2}
  None = None
  First = 65534
  Last = 65538
  Window = 2
  MaxReceived = 5
  Word = 1048576
SPECIFICATION Spec
SYMMETRY Symmetry
INVARIANTS
  StatsOK
  ActiveListExact
  
