SPECIFICATION Spec
CONSTANTS
  Alphabet <- MCAlphabet
  Pts <- MCPts
  MaxLines = 5
  MaxOpen = 2
INVARIANTS
  MediaOK
  
  
CHECK_DEADLOCK FALSE
