\* Two configurations that differ in the type of an app only.
SPECIFICATION Spec
CONSTANTS
  AppNames <- TwoApps
  LinkSpecs <- Specs
  Configs <- SameName
  NoConfig <- Empty
  MaxConfigures = 2
INVARIANT
  AppsMatch
CHECK_DEADLOCK FALSE
