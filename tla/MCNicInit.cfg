\* Up to two queues of each kind with rings of two descriptors; three are too many.
SPECIFICATION StatsSpec
CONSTANTS
  Queues = {1, 2, 3}
  MAX_QUEUES = 2
  NUM_RX_QUEUE_ENTRIES = 2
  LinkPolls = 2
  Word = 3
  HighWord = 3
  FrameSizes = {1, 5}
  MaxFrames = 3
  LinksRegister <- SomeLinks
  Devices <- AllDevices
INVARIANTS
  NoRogueDMA
  Ready
  StatsExact
  RegistersDistinct
PROPERTY
  InitTerminates
