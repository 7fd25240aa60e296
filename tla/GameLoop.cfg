SPECIFICATION LoopSpec
CONSTANTS
  NumObjects = 1
  Kinds = {"emitter", "floor"}
  Commands = {"delete", "follow", "life", "show"}
  MaxChecks = 0
  LifeMod = 3
  ParticleTicks = 2
  MaxCalls = 2
INVARIANT FrameComplete
PROPERTY
  RoguesDrain
