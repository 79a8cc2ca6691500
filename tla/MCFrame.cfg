\* Blocks of every kind of remainder, two at most.
SPECIFICATION Spec
CONSTANTS
  B = 4
  R = 2
  MacAddresses <- TwoAddresses
  EtherTypes = {6, 13}
  Memory <- Memories
  BlockLengths = {0, 2, 7, 12, 31, 62}
  Initials = {0, 9}
  MaxBlocks = 2
INVARIANTS
  Agrees
  Chains
  NtopPton
PROPERTY
  ImplementsHeader
CHECK_DEADLOCK FALSE
