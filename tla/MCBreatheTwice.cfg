SPECIFICATION TwiceSpec
CONSTANTS
  Apps <- ThreeApps
  Graphs <- Ring
  PullChoices <- Inhaler
  PushChoices <- AllPush
INVARIANT
  Deterministic
CHECK_DEADLOCK FALSE
