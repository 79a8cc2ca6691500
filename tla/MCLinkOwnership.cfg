\* Two links of capacity 1 and three packets, allocated in two steps (1 + 2).
SPECIFICATION Spec
CONSTANTS
  a = a
  b = b
  NULL = NULL
  Links <- TwoLinks
  LINK_RING_SIZE = 2
  MAX_PACKETS = 3
  FIRST_STEP = 1
  Lengths = {1}
  MaxFrees = 1
  MaxTransmits = 2
INVARIANTS
  TypeOK
  Ownership
  EmptyOnFreelist
  Accounting
  NoFreelistOverflow
  AllocationLimit
CHECK_DEADLOCK FALSE
