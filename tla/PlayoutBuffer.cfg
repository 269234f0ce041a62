\* Three slots.  Either up to five packets out of four, reordered and duplicated,
\* or up to seven in order, with losses, four of them before the wrap of the
\* sequence number and three after.
CONSTANTS
  Slots = {0, 1, 2}
  Word = 1048576
  Deliveries <- ShuffledOrOverTheWrap
SPECIFICATION Spec
INVARIANTS
  ListOK
  InPlayOrder
PROPERTIES
  PlaysOldestFirst
