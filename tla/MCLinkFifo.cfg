\* One link of capacity 3 and four packets.
SPECIFICATION Spec
CONSTANTS
  a = a
  b = b
  NULL = NULL
  Links <- OneLink
  LINK_RING_SIZE = 4
  MAX_PACKETS = 4
  FIRST_STEP = 4
  Lengths = {}
  MaxFrees = 1
  MaxTransmits = 6
PROPERTIES
  ImplementsFifo
  DropTerminates
CHECK_DEADLOCK FALSE
