SPECIFICATION LoopSpec
CONSTANTS
  NumObjects = 1
  Kinds = {"regular"}
  Commands = {"life", "follow"}
  MaxChecks = 0
  LifeMod = 3
  ParticleTicks = 2
  MaxCalls = 2
INVARIANT FollowsExisting
