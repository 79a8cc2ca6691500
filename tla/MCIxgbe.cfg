\* Rings of four descriptors, the transmit ring cleaned two at a time, and a link
\* of two packets.
SPECIFICATION Spec
CONSTANTS
  NUM_RX_QUEUE_ENTRIES = 4
  NUM_TX_QUEUE_ENTRIES = 4
  TX_CLEAN_BATCH = 2
  PULL_NPACKETS = 3
  LINK_MAX_PACKETS = 2
  MaxFrames = 9
  Oversized <- LastFrame
  NULL = NULL
INVARIANTS
  OneOwner
  RxOwnership
  TxOwnership
  InOrder
  PoolSuffices
PROPERTY
  LinkDrains
CHECK_DEADLOCK FALSE
