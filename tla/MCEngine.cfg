\* Four networks, links of three packets, up to three breaths in any number of
\* calls of main().
SPECIFICATION Spec
CONSTANTS
  Networks <- FourNetworks
  PULL_NPACKETS = 2
  LINK_MAX_PACKETS = 3
  MAXSLEEP = 1
  Durations = {0, 1}
  Predicate = Predicate
  NoTime = NoTime
  MaxBreaths = 3
  MaxTime = 3
INVARIANTS
  Conservation
  OnlyBackLinksKeep
  BusyNeverSleeps
PROPERTY
  Punctual
CHECK_DEADLOCK FALSE
