SPECIFICATION Spec
CONSTANTS
  N = 3
  Bandwidth = 166
  Size = 200
  Draws <- MCDraws
  MaxMembers = 5
  Growing = {1}
  Limit = 15
INVARIANTS
  
  DelayBounded
PROPERTIES
  ReportsForever
