\* Two chunks of two slots: the pool is exhausted, grows once, and is
\* exhausted again at its maximum size.
CONSTANTS
  SlotNum = 2
  Chunks = 2
SPECIFICATION Spec
INVARIANTS
  TypeOK
  Linked
  CountExact
  NoSleepWhileFree
PROPERTIES
  HandedOutOnce
  ImplementsSlotPool
