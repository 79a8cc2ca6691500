\* Two apps, six configurations, any three of them applied in turn.
SPECIFICATION Spec
CONSTANTS
  AppNames <- TwoApps
  LinkSpecs <- Specs
  Configs <- Networks
  NoConfig <- Empty
  MaxConfigures = 3
INVARIANTS
  NetworkMatches
  Unchanged
  PortsMatch
  PanicsJustified
  RemovedLinksDropped
PROPERTY
  PacketsSurvive
CHECK_DEADLOCK FALSE
