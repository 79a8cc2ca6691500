\* Networks without cycles: app 1 feeds each app of a chain of three.
SPECIFICATION Spec
CONSTANTS
  Apps <- FourApps
  Graphs <- Chains
  PullChoices <- OneInhaler
  PushChoices <- AllPush
INVARIANT
  FollowsLinks
CHECK_DEADLOCK FALSE
