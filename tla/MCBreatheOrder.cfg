\* Four apps, every network without links from an app to itself.
SPECIFICATION Spec
CONSTANTS
  Apps <- FourApps
  Graphs <- NoSelfLinks
  PullChoices <- Inhalers
  PushChoices <- Pushers
INVARIANTS
  AtMostOnce
  Fed
  NoneForgotten
PROPERTY
  Terminates
CHECK_DEADLOCK FALSE
